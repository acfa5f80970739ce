------------------------------- MODULE Matching -------------------------------
(***************************************************************************)
(* What an imported row is matched with: by its IGDB id, by its Steam app  *)
(* through the links this server keeps (asking IGDB for the ones it does   *)
(* not have), then by its title among the first results of the local       *)
(* search.  And what becomes of those links: the import the person commits *)
(* adds some, a refresh of a game's details replaces them, and the daily   *)
(* Steam sync finds by them where minutes go.                              *)
(*                                                                         *)
(* External: IGDB's own table of apps, which changes, and the search's     *)
(* results, of which only the name's likeness and the year count here.     *)
(***************************************************************************)
EXTENDS Integers, Sequences, FiniteSets, FiniteSetsExt

CONSTANTS
  Games,       \* IGDB games
  Apps,        \* Steam apps
  Shown,       \* results that are scored: the code's 8
  MaxTable,    \* bound: changes of IGDB's table
  MaxMatches   \* bound: previews

VARIABLES
  known,       \* games in the catalog
  links,       \* game_external_ids of Steam: <<game, app>>
  table,       \* app -> IGDB's game for it, 0 for none
  mine,        \* games in the person's library
  row,         \* the imported row: its IGDB id and app (0: none)
  results,     \* what the local search gives for its title: [kind, year]
  match,       \* how far its matching is
  moves,       \* bound: changes of IGDB's table, and previews
  imported,    \* history: app -> the game it was last imported as, 0 for none
  said,        \* history: app -> the game it was last matched with, as long as
               \* that link was kept and nothing else touched the app's links
  dropped      \* history: apps whose synced minutes found no game

matchingVars == <<known, links, table, mine, row, results, match, moves, imported, said, dropped>>

Kinds == {"same", "starts", "contains", "words", "none"}
Years == {"same", "near", "far", "unknown"}
Resting == [pc |-> "idle"]
Other == [kind |-> "none", year |-> "unknown"]

\* Score, in hundredths: the name, the year, and the place in the results.
Likeness == [same |-> 90, starts |-> 65, contains |-> 55, words |-> 36, none |-> 0]

\* Slip: a year that contradicts does not count.
ScoreNoYear(r, rank) ==
  LET year == IF r.year = "same" THEN 10 ELSE IF r.year = "near" THEN 3
              ELSE IF r.year = "unknown" /\ r.kind = "same" THEN 5 ELSE 0
  IN  Max({0, Likeness[r.kind] + year - rank})

Score(r, rank) ==
  LET year == IF r.year = "same" THEN 10 ELSE IF r.year = "near" THEN 3 ELSE IF r.year = "far" THEN -25
              ELSE IF r.kind = "same" THEN 5 ELSE 0
  IN  Max({0, Likeness[r.kind] + year - rank})

Confident == 85
Ranked == [i \in DOMAIN results |-> Score(results[i], i - 1)]
Top == CHOOSE i \in DOMAIN results : /\ \A j \in DOMAIN results : Ranked[j] <= Ranked[i]
                                     /\ \A j \in 1..(i - 1) : Ranked[j] < Ranked[i]
\* How far the next one is behind.  At exactly 0.05 the rounding of the
\* floating-point sum decides.
Lead == IF Len(results) = 1 THEN 100 ELSE Ranked[Top] - Max({Ranked[j] : j \in DOMAIN results \ {Top}})
Clear(rounding) == Ranked[Top] >= Confident /\ (Lead > 5 \/ (Lead = 5 /\ rounding))

\* MIN(game_id) among the links of an app.
Linked(a) == LET gs == {g \in Games : <<g, a>> \in links} IN IF gs = {} THEN 0 ELSE Min(gs)
----------------------------------------------------------------------------
(* A preview: Match, for one row.                                          *)

ById(g) == [pc |-> "done", game |-> g, by |-> "igdb", state |-> "matched"]

\* byIGDB: EnsureGames, whose failure is ignored, then the catalog.  The app of
\* a row it matched (id) is looked up and remembered all the same.
ByIGDB(up) ==
  /\ match = Resting /\ moves.matches < MaxMatches
  /\ moves' = [moves EXCEPT !.matches = @ + 1]
  /\ known' = IF up /\ row.igdb # 0 THEN known \cup {row.igdb} ELSE known
  /\ LET id == IF row.igdb \in known' THEN row.igdb ELSE 0
     IN  match' = IF row.app # 0 THEN [pc |-> "steam", id |-> id] ELSE IF id # 0 THEN ById(id) ELSE [pc |-> "name"]
  /\ UNCHANGED <<links, table, mine, row, results, imported, said, dropped>>

BySteam ==
  /\ match.pc = "steam"
  /\ match' = [pc |-> IF Linked(row.app) = 0 THEN "ask" ELSE "found",
               game |-> Linked(row.app), kept |-> TRUE, id |-> match.id]
  /\ UNCHANGED <<known, links, table, mine, row, results, moves, imported, said, dropped>>

\* Slip: what IGDB says is used and forgotten.
AskForgetting(up, saved) ==
  /\ match.pc = "ask"
  /\ LET g == IF up THEN table[row.app] ELSE 0
     IN  /\ known' = IF g = 0 THEN known ELSE known \cup {g}
         /\ match' = [pc |-> "found", game |-> g, kept |-> saved /\ match.kept, id |-> match.id]
  /\ UNCHANGED <<links, table, mine, row, results, moves, imported, said, dropped>>

\* IGDB is asked for an app without a link, its game stored and the link
\* remembered; that last INSERT is not checked.
AskIGDB(up, saved) ==
  /\ match.pc = "ask"
  /\ LET g == IF up THEN table[row.app] ELSE 0
     IN  /\ known' = IF g = 0 THEN known ELSE known \cup {g}
         /\ links' = IF g = 0 \/ ~saved THEN links ELSE links \cup {<<g, row.app>>}
         /\ match' = [pc |-> "found", game |-> g, kept |-> saved /\ match.kept, id |-> match.id]
  /\ UNCHANGED <<table, mine, row, results, moves, imported, said, dropped>>

\* The link's game, as long as the catalog has it.
Found ==
  /\ match.pc = "found"
  /\ match' = IF match.id # 0 THEN ById(match.id)
              ELSE IF match.game \in known THEN [pc |-> "done", game |-> match.game, by |-> "steam", state |-> "matched", kept |-> match.kept]
              ELSE [pc |-> "name"]
  /\ UNCHANGED <<known, links, table, mine, row, results, moves, imported, said, dropped>>

\* The best score wins; it needs no review when it is high and clear.
ByName(rounding) ==
  /\ match.pc = "name"
  /\ match' = IF results = <<>> THEN [pc |-> "done", game |-> 0, by |-> "name", state |-> "none"]
              ELSE [pc |-> "done", game |-> 0, by |-> "name", at |-> Top, state |-> IF Clear(rounding) THEN "matched" ELSE "review"]
  /\ UNCHANGED <<known, links, table, mine, row, results, moves, imported, said, dropped>>

\* The preview is closed, and nothing kept of it.
Close ==
  /\ match.pc = "done"
  /\ match' = Resting
  /\ said' = IF match.by = "steam" THEN [said EXCEPT ![row.app] = IF match.kept THEN match.game ELSE 0] ELSE said
  /\ UNCHANGED <<known, links, table, mine, row, results, moves, imported, dropped>>
----------------------------------------------------------------------------
(* What happens to the links.                                              *)

\* Commit and baselineSteam: the row goes in as the game the person chose.
Commit(g) ==
  /\ match.pc = "done" /\ row.app # 0 /\ g \in known
  /\ mine' = mine \cup {g}
  /\ links' = links \cup {<<g, row.app>>}
  /\ imported' = [imported EXCEPT ![row.app] = g]
  /\ said' = [said EXCEPT ![row.app] = IF match.by = "steam" /\ match.kept /\ match.game = g THEN g ELSE 0]
  /\ match' = Resting
  /\ UNCHANGED <<known, table, row, results, moves, dropped>>

\* SaveDetails: a game's links are replaced by what IGDB has.
SaveDetails(g) ==
  /\ g \in known
  /\ links' = {l \in links : l[1] # g} \cup {<<g, a>> : a \in {b \in Apps : table[b] = g}}
  /\ LET touched == {a \in Apps : (<<g, a>> \in links) # (<<g, a>> \in links')}
     IN  /\ said' = [a \in Apps |-> IF a \in touched THEN 0 ELSE said[a]]
         /\ match' = IF "kept" \in DOMAIN match /\ row.app \in touched THEN [match EXCEPT !.kept = FALSE] ELSE match
  /\ UNCHANGED <<known, table, mine, row, results, moves, imported, dropped>>

\* IGDB's own table changes.
Relist(a, g) ==
  /\ moves.table < MaxTable /\ table[a] # g
  /\ table' = [table EXCEPT ![a] = g]
  /\ moves' = [moves EXCEPT !.table = @ + 1]
  /\ UNCHANGED <<known, links, mine, row, results, match, imported, said, dropped>>

\* syncOne, for an app whose minutes grew: without a link to a game in the
\* library they are not logged, and the baseline moves on.
SyncOne(a) ==
  /\ imported[a] # 0
  /\ dropped' = IF \E g \in mine : <<g, a>> \in links THEN dropped ELSE dropped \cup {a}
  /\ UNCHANGED <<known, links, table, mine, row, results, match, moves, imported, said>>

\* A title with at most two results worth scoring, at any two places; or an
\* app, with one result by name behind it.
Listed(n, i, x, j, y) == [k \in 1..n |-> IF k = i THEN x ELSE IF k = j THEN y ELSE Other]
Titles ==
  {<<x>> : x \in [kind : Kinds, year : Years]} \cup
  {Listed(p[2], p[1], x, p[2], y) : p \in {q \in (1..Shown) \X (1..Shown) : q[1] < q[2]},
                                    x \in [kind : Kinds \ {"none"}, year : Years], y \in [kind : {"same", "starts", "none"}, year : Years]}

MatchingInit ==
  /\ \/ row = [igdb |-> 0, app |-> 0] /\ results \in Titles
     \/ row \in [igdb : Games \cup {0}, app : Apps] /\ results \in {<<>>, <<[kind |-> "same", year |-> "unknown"]>>}
  /\ known = {} \/ (row.app # 0 /\ known = Games)
  /\ links = {} /\ mine = {}
  /\ table \in IF row.app = 0 THEN {[a \in Apps |-> 0]} ELSE [Apps -> Games \cup {0}]
  /\ match = Resting /\ moves = [table |-> 0, matches |-> 0]
  /\ imported = [a \in Apps |-> 0] /\ said = [a \in Apps |-> 0] /\ dropped = {}

MatchingNext ==
  \/ \E up \in BOOLEAN : ByIGDB(up) \/ \E saved \in BOOLEAN : AskIGDB(up, saved)
  \/ BySteam \/ Found \/ Close
  \/ \E rounding \in BOOLEAN : ByName(rounding)
  \/ \E g \in Games : Commit(g) \/ SaveDetails(g)
  \/ \E a \in Apps : SyncOne(a) \/ \E g \in Games \cup {0} : Relist(a, g)
----------------------------------------------------------------------------
(* Properties.                                                             *)

MatchingTypeOK ==
  /\ known \subseteq Games /\ mine \subseteq known /\ links \subseteq known \X Apps
  /\ table \in [Apps -> Games \cup {0}] /\ row \in [igdb : Games \cup {0}, app : Apps \cup {0}]
  /\ results \in Seq([kind : Kinds, year : Years])
  /\ match.pc \in {"idle", "steam", "ask", "found", "name", "done"}
  /\ imported \in [Apps -> Games \cup {0}] /\ said \in [Apps -> Games \cup {0}]
  /\ dropped \subseteq Apps

\* Among years, from the best: confirmed, not known, a year off, contradicted.
YearRank == [same |-> 1, unknown |-> 2, near |-> 3, far |-> 4]

\* "Rows it is unsure about wait" (docs/cato_smooth.md, imports): a title is
\* taken without a review only for an equal name whose year does not
\* contradict it, and only if every other game of that name whose year fits
\* as well is at least five places further down.
NameIsClear ==
  match.pc = "done" /\ match.by = "name" /\ match.state = "matched" =>
    /\ results[match.at].kind = "same" /\ results[match.at].year # "far"
    /\ \A j \in DOMAIN results \ {match.at} :
         results[j].kind = "same" /\ YearRank[results[j].year] <= YearRank[results[match.at].year] => j >= match.at + 5

\* "Ask IGDB about the app IDs this server hasn't seen, and remember them"
\* (match.go): an app goes on being matched with the game it was matched
\* with, whatever IGDB's table says by then, until a refresh of details or
\* the person's own choice changes its links, or the link was not saved.
AppIsRemembered ==
  match.pc = "done" /\ match.by = "steam" =>
    said[row.app] \in {0, match.game}

\* baselineSteam: "so the daily sync logs only what's played from now on":
\* what is played of an imported app from then on is logged.
SyncLogsImported == dropped = {}
----------------------------------------------------------------------------
(* What the steps preserve.                                                *)

\* The shapes a matching goes through: by the app, and at its end.
Steps    == [pc : {"idle", "name"}] \cup [pc : {"steam"}, id : Games \cup {0}]
ByLink   == [pc : {"ask", "found"}, game : Games \cup {0}, kept : BOOLEAN, id : Games \cup {0}]
LinkDone == [pc : {"done"}, game : Games, by : {"steam"}, state : {"matched"}, kept : BOOLEAN]
IdDone   == [pc : {"done"}, game : Games, by : {"igdb"}, state : {"matched"}]
NoneDone == [pc : {"done"}, game : {0}, by : {"name"}, state : {"none"}]
NameDone == [pc : {"done"}, game : {0}, by : {"name"}, at : DOMAIN results, state : {"matched", "review"}]
Shapes   == Steps \cup ByLink \cup LinkDone \cup IdDone \cup NoneDone \cup NameDone

\* What was said of an app is what its links say still; and so is what the
\* matching found by them, unless it could not be kept or they were touched,
\* when nothing is said of the app.
LinksAgree ==
  /\ \A a \in Apps : said[a] # 0 => Linked(a) = said[a]
  /\ match.pc = "ask" => said[row.app] = 0 /\ (match.kept => Linked(row.app) = 0)
  /\ match \in LinkDone \/ match.pc = "found" =>
       IF match.kept THEN match.game # 0 => Linked(row.app) = match.game ELSE said[row.app] = 0

MatchingInv ==
  /\ MatchingTypeOK
  /\ match \in Shapes
  /\ (match.pc = "steam" \/ match \in ByLink \cup LinkDone) => row.app \in Apps
  /\ NameIsClear /\ LinksAgree
=============================================================================
