-------------------------------- MODULE Feed --------------------------------
(***************************************************************************)
(* The activity feed, read page by page while others write: rows come in,  *)
(* rows are deleted or hidden, and consecutive rows of one person, day and *)
(* kind are grouped into one line that may end in the middle of a page.    *)
(***************************************************************************)
EXTENDS Integers, Sequences, FiniteSets, FiniteSetsExt, SequencesExt

CONSTANTS
  Limits,     \* page sizes asked for
  RawFactor,  \* rows read per line asked for (4)
  Groups,     \* keys whose rows group: person, day, kind (and list)
  Singles,    \* keys whose rows stand alone
  MaxRows,    \* bound: activity rows ever written
  MaxHidden   \* bound: rows hidden in a scroll, or before it

VARIABLES
  rows,       \* the keys of the activity rows, by id: ids only grow
  hidden,     \* rows the viewer may not see, or that are deleted
  missed,     \* history: rows hidden at some time since the scroll began
  lines,      \* lines shown so far, each the ids it stands for
  limit,      \* the page size of this scroll
  cursor,     \* next_cursor of the last page; 0 at the end
  top         \* newest id when the scroll began; -1 before

feedVars == <<rows, hidden, missed, lines, limit, cursor, top>>

Visible == DOMAIN rows \ hidden
\* Newest first, id < before (any id when there is no cursor), at most raw.
Candidates(before, raw) ==
  LET ids == SetToSortSeq({i \in Visible : before = 0 \/ i < before}, >)
  IN  SubSeq(ids, 1, Min({raw, Len(ids)}))

\* A row joins the last line when it is groupable and of the same key.
Joins(page, i) == page # <<>> /\ rows[i] \in Groups /\ rows[Last(Last(page))] = rows[i]
JoinLast(page, i) == [page EXCEPT ![Len(page)] = Append(@, i)]

\* Slip: the cursor stays behind when a row joins a line.
ReadRowBehind(acc, i, size) ==
  IF acc.full THEN acc
  ELSE IF Joins(acc.page, i) THEN [acc EXCEPT !.page = JoinLast(acc.page, i)]
  ELSE IF Len(acc.page) = size THEN [acc EXCEPT !.full = TRUE]
  ELSE [acc EXCEPT !.page = Append(acc.page, <<i>>), !.next = i]

\* One row of the loop in Feed; full stands for its break.
ReadRow(acc, i, size) ==
  IF acc.full THEN acc
  ELSE IF Joins(acc.page, i) THEN [acc EXCEPT !.page = JoinLast(acc.page, i), !.next = i]
  ELSE IF Len(acc.page) = size THEN [acc EXCEPT !.full = TRUE]
  ELSE [acc EXCEPT !.page = Append(acc.page, <<i>>), !.next = i]

Feed(before, size) ==
  LET ids == Candidates(before, RawFactor * size)
      read == FoldLeft(LAMBDA acc, i : ReadRow(acc, i, size), [page |-> <<>>, next |-> 0, full |-> FALSE], ids)
  IN  [page |-> read.page,
       next |-> IF Len(ids) < RawFactor * size /\ Len(read.page) < size THEN 0 ELSE read.next]
----------------------------------------------------------------------------
Write(key) ==
  /\ Len(rows) < MaxRows
  /\ rows' = Append(rows, key)
  /\ UNCHANGED <<hidden, missed, lines, limit, cursor, top>>

\* An undo, a deleted or hidden review or list, a block or a changed level.
Lose(i) ==
  /\ Cardinality(missed) < MaxHidden
  /\ hidden' = hidden \cup {i} /\ missed' = missed \cup {i}
  /\ UNCHANGED <<rows, lines, limit, cursor, top>>

\* What was hidden is shown again, an unblock, a level changed back.
Regain(i) ==
  /\ hidden' = hidden \ {i}
  /\ UNCHANGED <<rows, missed, lines, limit, cursor, top>>

Shows(answer) == lines' = lines \o answer.page /\ cursor' = answer.next

FirstPage(size) ==
  /\ top = -1
  /\ Shows(Feed(0, size))
  /\ limit' = size /\ top' = Len(rows) /\ missed' = hidden
  /\ UNCHANGED <<rows, hidden>>

NextPage ==
  /\ cursor # 0
  /\ Shows(Feed(cursor, limit))
  /\ UNCHANGED <<rows, hidden, missed, limit, top>>

FeedInit ==
  /\ rows = << >> /\ hidden = {} /\ missed = {}
  /\ lines = << >> /\ limit = 0 /\ cursor = 0 /\ top = -1

FeedNext ==
  \/ \E key \in Groups \cup Singles : Write(key)
  \/ \E i \in Visible : Lose(i)
  \/ \E i \in hidden : Regain(i)
  \/ \E size \in Limits : FirstPage(size)
  \/ NextPage
----------------------------------------------------------------------------
(* Properties.                                                             *)

Shown == UNION {Range(lines[k]) : k \in DOMAIN lines}

FeedTypeOK ==
  /\ rows \in Seq(Groups \cup Singles) /\ Len(rows) <= MaxRows /\ hidden \subseteq DOMAIN rows /\ missed \subseteq DOMAIN rows
  /\ lines \in Seq(Seq(DOMAIN rows)) /\ cursor \in 0..Len(rows) /\ top \in -1..Len(rows)
  /\ limit \in Limits \cup {0}

\* Scrolling on, with the grouping that swallows rows, the limit on rows read
\* and rows that come and go meanwhile: no row is shown twice, and of the rows
\* the first page was read from, none that could be seen all along is skipped;
\* at the end of the scroll all of them have been shown.
FeedOnce ==
  /\ FoldLeft(LAMBDA n, line : n + Len(line), 0, lines) = Cardinality(Shown)
  /\ top # -1 => {i \in 1..top \ missed : i >= cursor} \subseteq Shown
=============================================================================
