-------------------------------- MODULE Paging --------------------------------
(***************************************************************************)
(* The library read a page at a time, in the order of the last change, with *)
(* a cursor that names the last row shown, while other devices write.  The *)
(* stamps are seconds, so rows of one bulk write tie.                      *)
(*                                                                         *)
(* Left out: the sorts that page by an offset (they make no promise while  *)
(* rows move) and the texts a filter compares: a row fits it or does not.  *)
(***************************************************************************)
EXTENDS Integers, Sequences, FiniteSets, FiniteSetsExt, SequencesExt

CONSTANTS
  Games,       \* game ids
  Limit,       \* rows a page (the code: up to 200)
  MaxSecond,   \* bound: the clock
  MaxWrites    \* bound: writes

VARIABLES
  rows,        \* game -> [at, fits], or Absent
  now,         \* the second
  writes,      \* writes made
  page,        \* [cursor, shown, more]: what the reader has so far
  total,       \* the count the first page gave
  touched,     \* history: games written since the reader began
  first        \* history: how many rows fitted when it began

pagingVars == <<rows, now, writes, page, total, touched, first>>

Absent == [at |-> 0, fits |-> FALSE]
Start == <<>>
Held == {g \in Games : rows[g] # Absent}
Fitting == {g \in Held : rows[g].fits}

\* ORDER BY updated_at DESC, game_id DESC.
Key(g) == <<rows[g].at, g>>
Less(k, l) == k[1] < l[1] \/ (k[1] = l[1] /\ k[2] < l[2])

\* A cursor of the stamp alone.
AfterStamp(cursor) == {g \in Fitting : cursor = Start \/ rows[g].at < cursor[1]}

\* The rows after the cursor: (updated_at, game_id) < (?, ?).
After(cursor) == {g \in Fitting : cursor = Start \/ Less(Key(g), cursor)}

\* List: one row more than the page holds tells whether there is another, and
\* the last row shown is the next cursor.
List(cursor) ==
  LET found == SetToSortSeq(After(cursor), LAMBDA g, h : Less(Key(h), Key(g)))
      items == SubSeq(found, 1, Min({Limit, Len(found)}))
  IN  [items |-> items, more |-> Len(found) > Limit,
       cursor |-> IF Len(found) > Limit THEN Key(Last(items)) ELSE Start]

----------------------------------------------------------------------------
(* The reader.                                                             *)

\* The total is counted, and the rows are read by another statement.
CountTotal ==
  /\ total = -1
  /\ total' = Cardinality(Fitting)
  /\ UNCHANGED <<rows, now, writes, page, touched, first>>

FirstPage ==
  /\ total # -1 /\ page.shown = <<>> /\ ~page.more /\ page.cursor = Start /\ first = -1
  /\ LET l == List(Start) IN page' = [cursor |-> l.cursor, shown |-> l.items, more |-> l.more]
  /\ touched' = {} /\ first' = Cardinality(Fitting)
  /\ UNCHANGED <<rows, now, writes, total>>

NextPage ==
  /\ page.more
  /\ LET l == List(page.cursor) IN page' = [cursor |-> l.cursor, shown |-> page.shown \o l.items, more |-> l.more]
  /\ UNCHANGED <<rows, now, writes, total, touched, first>>

----------------------------------------------------------------------------
(* The others.                                                             *)

Writes(g) == writes < MaxWrites /\ writes' = writes + 1 /\ touched' = touched \cup {g} /\ UNCHANGED <<now, page, total, first>>

\* Patch, Upsert, an import or a diary entry: the row is stamped with now.
Write(g, fits) == Writes(g) /\ rows' = [rows EXCEPT ![g] = [at |-> now, fits |-> fits]]

Delete(g) == g \in Held /\ Writes(g) /\ rows' = [rows EXCEPT ![g] = Absent]

\* Undo puts a row back with the stamp it had.
Restore(g, at, fits) == Writes(g) /\ rows' = [rows EXCEPT ![g] = [at |-> at, fits |-> fits]]

\* A refresh of the catalog changes what the filter sees and no stamp.
Refresh(g) == g \in Held /\ Writes(g) /\ rows' = [rows EXCEPT ![g].fits = ~@]

Tick == now < MaxSecond /\ now' = now + 1 /\ UNCHANGED <<rows, writes, page, total, touched, first>>

----------------------------------------------------------------------------
PagingInit ==
  /\ rows \in [Games -> [at : {1}, fits : {TRUE}] \cup {Absent}]
  /\ now = 1 /\ writes = 0
  /\ page = [cursor |-> Start, shown |-> <<>>, more |-> FALSE]
  /\ total = -1 /\ touched = {} /\ first = -1

PagingNext ==
  \/ CountTotal \/ FirstPage \/ NextPage \/ Tick
  \/ \E g \in Games :
       \/ Delete(g) \/ Refresh(g)
       \/ \E fits \in BOOLEAN : Write(g, fits) \/ \E at \in 1..now : Restore(g, at, fits)
----------------------------------------------------------------------------
(* Properties.                                                             *)

PagingTypeOK ==
  /\ rows \in [Games -> [at : 1..MaxSecond, fits : BOOLEAN] \cup {Absent}]
  /\ now \in 1..MaxSecond /\ writes \in 0..MaxWrites /\ total \in -1..Cardinality(Games)
  /\ touched \subseteq Games
  /\ page.shown \in Seq(Games) /\ page.more \in BOOLEAN
  /\ page.more => page.cursor \in (1..MaxSecond) \X Games

Times(g) == Cardinality({i \in DOMAIN page.shown : page.shown[i] = g})

\* "keyset-paged" (query.go): whatever is written, removed or undone between
\* two pages, a row nobody touched since the reader began is shown once, in
\* its turn, however many rows share its second.
PagesCover ==
  first # -1 =>
    \A g \in Fitting \ touched :
      Times(g) = IF page.more /\ Less(Key(g), page.cursor) THEN 0 ELSE 1
=============================================================================
