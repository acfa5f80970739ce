----------------------------- MODULE MCJournal -----------------------------
(* The journal on small instances. *)
EXTENDS Journal

CONSTANTS g1, g2

\* One game: status moves with a cleared date, a drop that logs time, a
\* corrected total.
OneGameChanges ==
  {[NoChange EXCEPT !.status = "playing"],
   [NoChange EXCEPT !.status = "completed", !.edition = 1],
   [NoChange EXCEPT !.status = "completed", !.completed = None],
   [NoChange EXCEPT !.status = "abandoned", !.delta = 2],
   [NoChange EXCEPT !.total = 1]}

\* Two games: what bulk writes, imports and their undos can get in between.
TwoGameChanges ==
  {[NoChange EXCEPT !.status = "playing", !.delta = 1],
   [NoChange EXCEPT !.status = "completed", !.edition = 1]}

\* Runs are given dates, never reopened; or an old run is reopened.
DatedEdits == {[started |-> None, finished |-> 1]}
ReopenEdits == {[started |-> Keep, finished |-> None]}

OneGameEntries ==
  {[status |-> "playing", minutes |-> 2, started |-> None, completed |-> 1, sessions |-> <<1>>],
   [status |-> "backlog", minutes |-> 1, started |-> 1, completed |-> None, sessions |-> <<2>>]}
TwoGameEntries ==
  {[status |-> "playing", minutes |-> 2, started |-> 1, completed |-> None, sessions |-> <<1>>]}
=============================================================================
