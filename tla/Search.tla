-------------------------------- MODULE Search --------------------------------
(***************************************************************************)
(* The local search: the matches of a query by name, by alias and through  *)
(* a parent game, filtered and ranked, as somebody pages through them.     *)
(*                                                                         *)
(* What a text matches is the full-text index's (external): a name or an   *)
(* alias matches the query as a phrase, or only its words in any order.    *)
(* Queries of one or two letters, which match by prefix, and the LIKE      *)
(* fallback for a database without the index are left out.                 *)
(***************************************************************************)
EXTENDS Integers, Sequences, FiniteSets, FiniteSetsExt, SequencesExt

CONSTANTS
  Games,      \* games of the catalog, numbers from 1 (0: no parent)
  Limit,      \* results a page
  MaxPages    \* bound: pages read

VARIABLES
  games,      \* game -> what the query and the filters see of it
  shown,      \* the pages read, one after the other
  totals,     \* the totals they showed
  pages       \* pages read, 0: not asked yet

searchVars == <<games, shown, totals, pages>>

\* How well a name matches: exactly or at its start, at the start of a word,
\* inside a word, its words only in another order, or not at all.
NameKinds == {"prefix", "word", "inner", "words", "no"}
AliasKinds == {"phrase", "words", "no"}
GameType == [name : NameKinds, alias : AliasKinds, parent : Games \cup {0}, popular : BOOLEAN, fits : BOOLEAN]

\* The engines: the phrase, then its words.
NameMatch(engine) == {g \in Games : games[g].name \in IF engine = "fts" THEN {"prefix", "word", "inner"} ELSE NameKinds \ {"no"}}
AliasMatch(engine) == {g \in Games : games[g].alias \in IF engine = "fts" THEN {"phrase"} ELSE {"phrase", "words"}}

\* appendGameFilterWhere: dates, ratings, platforms, tags, library, editions
\* and packs in one ("fits"), and for a match by name the relevance floor.
Filter(g, directName) ==
  games[g].fits /\ (directName => games[g].name \in {"prefix", "word"} \/ games[g].popular)

Tier(g) == IF games[g].name = "prefix" THEN 1 ELSE IF games[g].name = "word" THEN 2 ELSE 3

\* Slip: a parent's game that also matches by its own alias is listed twice.
EligibleTwice(engine) ==
  LET name   == NameMatch(engine)
      alias  == AliasMatch(engine)
      direct == {[id |-> g, tier |-> Tier(g), src |-> 0] : g \in {h \in name : Filter(h, TRUE)}}
      byName == {[id |-> g, tier |-> 3, src |-> 1] : g \in {h \in alias \ name : Filter(h, FALSE)}}
      byGame == {[id |-> g, tier |-> 3, src |-> 2] :
                   g \in {h \in Games \ name : Filter(h, FALSE) /\ games[h].parent \in name \cup alias}}
  IN  direct \cup byName \cup byGame

\* buildSearchCandidates: by name, by alias unless by name, through the parent
\* unless by either.  The parent itself need not pass the filters.
Eligible(engine) ==
  LET name   == NameMatch(engine)
      alias  == AliasMatch(engine)
      direct == {[id |-> g, tier |-> Tier(g), src |-> 0] : g \in {h \in name : Filter(h, TRUE)}}
      byName == {[id |-> g, tier |-> 3, src |-> 1] : g \in {h \in alias \ name : Filter(h, FALSE)}}
      byGame == {[id |-> g, tier |-> 3, src |-> 2] :
                   g \in {h \in Games \ (name \cup alias) : Filter(h, FALSE) /\ games[h].parent \in name \cup alias}}
  IN  direct \cup byName \cup byGame

\* sortOrder, the default: tier, source, popularity.  Rows alike in all three
\* tie: the ORDER BY ends there.
Before(x, y) ==
  LET Pop(r) == IF games[r.id].popular THEN 0 ELSE 1
      Key(r) == <<r.tier, r.src, Pop(r)>>
  IN  \E i \in 1..3 : Key(x)[i] < Key(y)[i] /\ \A j \in 1..(i - 1) : Key(x)[j] = Key(y)[j]

\* The orders a statement may give the rows: any of the tied ones first.
Rankings(engine) ==
  {s \in SetToSeqs(Eligible(engine)) : \A i, j \in DOMAIN s : Before(s[i], s[j]) => i < j}
Window(rows, offset) == SubSeq(rows, offset + 1, IF offset + Limit < Len(rows) THEN offset + Limit ELSE Len(rows))

\* search: a phrase that gives no rows at this offset is tried as words.
Page(offset, phrase, words) ==
  LET rows == IF Window(phrase, offset) # <<>> THEN phrase ELSE words
  IN  [rows |-> Window(rows, offset), total |-> Len(rows)]

\* A reader asks for the first page, then for the next ones as long as the
\* total says there are more.  Each page is a statement of its own, which
\* ranks the ties anew.
ReadPage ==
  \E phrase \in Rankings("fts"), words \in Rankings("token") :
    LET page == Page(Len(shown), phrase, words)
    IN  /\ pages < MaxPages
        /\ pages > 0 => Len(shown) < Last(totals)
        /\ shown' = shown \o [i \in DOMAIN page.rows |-> page.rows[i].id]
        /\ totals' = Append(totals, page.total)
        /\ pages' = pages + 1
        /\ UNCHANGED games

SearchBegins == shown = <<>> /\ totals = <<>> /\ pages = 0

\* A game's parent is another one.
SearchInit ==
  /\ games \in [Games -> GameType]
  /\ \A g \in Games : games[g].parent # g
  /\ SearchBegins

SearchNext == ReadPage
----------------------------------------------------------------------------
(* Properties.                                                             *)

SearchTypeOK ==
  /\ games \in [Games -> GameType] /\ shown \in Seq(Games) /\ totals \in Seq(Nat)
  /\ pages \in 0..MaxPages

Answer == IF Eligible("fts") # {} THEN Eligible("fts") ELSE Eligible("token")
Places(g) == {i \in DOMAIN shown : shown[i] = g}
Alone(x) == \A y \in Answer : y.id = x.id \/ Before(x, y) \/ Before(y, x)

\* What somebody who reads on to the end is shown, while the catalog does not
\* change: every page says the same total, there are as many rows as it said,
\* and a match that ties with no other game comes once, however the ties
\* before and after it are ranked from page to page.  Games that tie with one
\* another may repeat or be skipped: sortOrder has no last key that tells
\* them apart.
PagesAddUp ==
  pages > 0 =>
    /\ \A i \in DOMAIN totals : totals[i] = totals[1]
    /\ Len(shown) = totals[1] \/ Len(shown) = Limit * pages
    /\ \A x \in Answer :
         Alone(x) => Cardinality(Places(x.id)) \in IF Len(shown) = totals[1] THEN {1} ELSE {0, 1}
=============================================================================
