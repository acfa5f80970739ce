-------------------------------- MODULE Custom --------------------------------
(***************************************************************************)
(* Custom games: a person adds a game the catalog lacks, keeps a journal   *)
(* of it as of any other, and an admin merges it into its catalog game.    *)
(*                                                                         *)
(* The statements are JournalDB's; the journal's operations, which Journal *)
(* models whole, are reduced to the rows they leave.                       *)
(***************************************************************************)
EXTENDS JournalDB

CONSTANTS
  Customs,    \* custom games; the rest of Games is the catalog
  MaxEntries, \* bound: diary entries
  MaxRuns     \* bound: runs opened

VARIABLES
  rows,       \* the games table
  library,    \* one person's tables
  logged      \* history: the minutes of every diary entry written

customVars == <<rows, library, logged>>
----------------------------------------------------------------------------
\* What a transaction stamped is the concern of LibraryRev.
Settled(d) == [d EXCEPT !.touched = {}]

\* CreateCustom, and the row its author adds it with.
CreateCustom(g) ==
  /\ g \in Customs \ rows
  /\ rows' = rows \cup {g}
  /\ UNCHANGED <<library, logged>>

AddItem(g, st) ==
  LET row == [status |-> st, started |-> None, completed |-> None, total |-> 0, cur |-> None]
      d   == PutRow(library, g, row)
  IN  /\ g \in rows /\ ~InLibrary(library, g)
      /\ st = "playing" => library.runSeq < MaxRuns
      /\ library' = Settled(IF st = "playing" THEN AddRun(d, g, None) ELSE d)
      /\ UNCHANGED <<rows, logged>>

\* A session of the current run, or a correction of the total.
Log(g, minutes) ==
  /\ InLibrary(library, g) /\ Len(logged) < MaxEntries
  /\ minutes > 0 \/ library.items[g].total > 0
  /\ library' = Settled(AddSession(library,
       [game |-> g, run |-> library.items[g].cur, minutes |-> minutes, source |-> IF minutes > 0 THEN "manual" ELSE "adjust"]))
  /\ logged' = Append(logged, minutes)
  /\ UNCHANGED rows
----------------------------------------------------------------------------
(* MergeCustom, for one owner of the custom game.                          *)

MoveRuns(d, c, k) == [d EXCEPT !.runs = [r \in DOMAIN @ |-> IF @[r].game = c THEN [@[r] EXCEPT !.game = k] ELSE @[r]]]

\* Slip: sessions move by an UPDATE of game_id, which fires no trigger.
MoveSessionsInPlace(d, c, k) ==
  [d EXCEPT !.sessions = [s \in DOMAIN @ |-> IF @[s].game = c THEN [@[s] EXCEPT !.game = k] ELSE @[s]]]

\* INSERT INTO play_sessions ... SELECT: a copy of every entry, in order, each
\* firing play_sessions_ai on the target and, once more, on its run.
MoveSessions(d, c, k) ==
  FoldLeft(LAMBDA e, s : AddSession(e, [d.sessions[s] EXCEPT !.game = k]),
           d, SetToSortSeq(SessionsOf(d, c), <))

\* DELETE FROM games: the item goes, its sessions go one by one, and each
\* takes its minutes from its run again.
DropCustom(d, c) ==
  LET gone == SetToSortSeq(SessionsOf(d, c), <)
      e    == FoldLeft(LAMBDA x, s : AddMinutes(x, c, x.sessions[s].run, -x.sessions[s].minutes), d, gone)
  IN  [e EXCEPT !.items = Without(@, {c}), !.sessions = Without(@, SessionsOf(d, c)), !.touched = @ \cup {c}]

MergedOwner(d, c, k) ==
  LET has == InLibrary(d, k)
      d1  == IF has THEN d ELSE PutRow(d, k, [d.items[c] EXCEPT !.total = 0, !.cur = None])
      d2  == MoveSessions(MoveRuns(d1, c, k), c, k)
      d3  == IF has THEN d2 ELSE PutRow(d2, k, [d2.items[k] EXCEPT !.cur = d.items[c].cur])
  IN  DropCustom(d3, c)

MergeCustom(c, k) ==
  /\ c \in Customs \cap rows /\ k \in rows \ Customs
  /\ library' = IF InLibrary(library, c) THEN Settled(MergedOwner(library, c, k)) ELSE library
  /\ rows' = rows \ {c}
  /\ UNCHANGED logged

CustomInit == rows = Games \ Customs /\ library = EmptyDB /\ logged = <<>>

CustomNext ==
  \/ \E g \in Games : CreateCustom(g) \/ AddItem(g, "playing") \/ AddItem(g, "backlog")
  \/ \E g \in Games, m \in {MaxSession, -1} : Log(g, m)
  \/ \E c \in Customs, k \in Games \ Customs : MergeCustom(c, k)
----------------------------------------------------------------------------
(* Properties.                                                             *)

CustomTypeOK ==
  /\ rows \subseteq Games /\ DOMAIN library.items \subseteq rows
  /\ \A g \in DOMAIN library.items : library.items[g] \in RowType
  /\ \A r \in DOMAIN library.runs : library.runs[r] \in RunType
  /\ \A s \in DOMAIN library.sessions : library.sessions[s] \in SessionType

\* A merge moves the whole journal: every diary entry ever written is still
\* there, of a game in the library and of a run of that game, runs show at
\* least what their entries add up to, so does the item, and its current run
\* is one of its own.
MergeKeepsJournal ==
  /\ Cardinality(DOMAIN library.sessions) = Len(logged)
  /\ SumMinutes(library, DOMAIN library.sessions) = FoldLeft(+, 0, logged)
  /\ \A s \in DOMAIN library.sessions :
       LET e == library.sessions[s]
       IN  InLibrary(library, e.game) /\ (e.run # None => e.run \in RunsOf(library, e.game))
  /\ \A g \in DOMAIN library.items :
       LET row == library.items[g]
       IN  row.total >= SumMinutes(library, SessionsOf(library, g)) /\ row.cur \in RunsOf(library, g) \cup {None}
  /\ \A r \in DOMAIN library.runs :
       InLibrary(library, library.runs[r].game) /\ library.runs[r].minutes >= SumMinutes(library, SessionsIn(library, r))

=============================================================================
