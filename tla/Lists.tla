--------------------------------- MODULE Lists ---------------------------------
(***************************************************************************)
(* One list of games, edited from two devices: adding, reordering by what  *)
(* a device last saw, and removing, which is two statements, the second of  *)
(* them unchecked.  Every game added leaves a line in the feed.            *)
(***************************************************************************)
EXTENDS Integers, Sequences, FiniteSets, FiniteSetsExt, SequencesExt

CONSTANTS
  Games,
  Devices,
  MaxListItems,  \* the code: 500
  MaxEdits       \* bound: requests

VARIABLES
  listed,    \* list_items: game -> its position, or Off
  lines,     \* game -> its "listed" lines in activity
  seen,      \* device -> the order it last got
  removing,  \* device -> the game whose lines it has yet to delete, or Nobody
  open,      \* the list exists
  edits,     \* requests begun
  wish,      \* history: the order last asked for, and the one it was asked of
  raced      \* history: games removed and added at once, or half removed

listsVars == <<listed, lines, seen, removing, open, edits, wish, raced>>

Off == -1
Nobody == 0
InList == {g \in Games : listed[g] # Off}
Order == SetToSortSeq(InList, LAMBDA g, h : listed[g] < listed[h])
Asks(d) == open /\ removing[d] = Nobody /\ edits < MaxEdits /\ edits' = edits + 1

\* Slip: the new game's position is the number of games.
NextCount == Cardinality(InList)

\* COALESCE(MAX(position) + 1, 0).
NextPosition == IF InList = {} THEN 0 ELSE Max({listed[g] : g \in InList}) + 1

\* AddToList: one already there only gets its note.
AddToList(d, g) ==
  /\ Asks(d) /\ (g \in InList \/ Cardinality(InList) < MaxListItems)
  /\ IF g \in InList THEN UNCHANGED <<listed, lines>>
     ELSE /\ listed' = [listed EXCEPT ![g] = NextPosition]
          /\ lines' = [lines EXCEPT ![g] = @ + 1]
  /\ seen' = [seen EXCEPT ![d] = Order']
  /\ raced' = IF \E e \in Devices : removing[e] = g THEN raced \cup {g} ELSE raced
  /\ UNCHANGED <<removing, open, wish>>

\* RemoveFromList: the item, then its feed lines.
RemoveFromList(d, g) ==
  /\ Asks(d)
  /\ listed' = [listed EXCEPT ![g] = Off]
  /\ removing' = [removing EXCEPT ![d] = g]
  /\ UNCHANGED <<lines, seen, open, wish, raced>>

\* The lines go, or the request is cut before and they stay.
RemoveLines(d, cut) ==
  /\ removing[d] # Nobody
  /\ lines' = IF cut THEN lines ELSE [lines EXCEPT ![removing[d]] = 0]
  /\ raced' = IF cut THEN raced \cup {removing[d]} ELSE raced
  /\ removing' = [removing EXCEPT ![d] = Nobody]
  /\ seen' = [seen EXCEPT ![d] = Order]
  /\ UNCHANGED <<listed, open, edits, wish>>

\* The order that results: the games named that are in the list, each once,
\* then the others as they were.
Merged(named, cur) ==
  LET known == SelectSeq(named, LAMBDA g : g \in Range(cur))
      once  == FoldLeft(LAMBDA acc, g : IF Contains(acc, g) THEN acc ELSE Append(acc, g), <<>>, known)
  IN  once \o SelectSeq(cur, LAMBDA g : ~Contains(once, g))

\* Reorder: by a list the device put together from what it had seen, which
\* may name games gone since and miss ones added since.
Reorder(d, named) ==
  LET order == Merged(named, Order)
  IN  /\ Asks(d)
      /\ listed' = [g \in Games |-> IF g \in InList THEN (CHOOSE i \in DOMAIN order : order[i] = g) - 1 ELSE Off]
      /\ seen' = [seen EXCEPT ![d] = order]
      /\ wish' = [named |-> named, of |-> Order, got |-> order]
      /\ UNCHANGED <<lines, removing, open, raced>>

Look(d) ==
  /\ Asks(d)
  /\ seen' = [seen EXCEPT ![d] = Order]
  /\ UNCHANGED <<listed, lines, removing, open, wish, raced>>

\* DeleteList: the list with its items, and its feed lines.
DeleteList(d) ==
  /\ Asks(d)
  /\ open' = FALSE
  /\ listed' = [g \in Games |-> Off] /\ lines' = [g \in Games |-> 0]
  /\ UNCHANGED <<seen, removing, wish, raced>>

ListsInit ==
  /\ listed = [g \in Games |-> Off] /\ lines = [g \in Games |-> 0]
  /\ seen = [d \in Devices |-> <<>>]
  /\ removing = [d \in Devices |-> Nobody]
  /\ open = TRUE /\ edits = 0 /\ raced = {}
  /\ wish = [named |-> <<>>, of |-> <<>>, got |-> <<>>]

\* A device moves one game of what it saw to the front, or turns it round.
Wishes(d) == {Reverse(seen[d])} \cup {<<g>> \o SelectSeq(seen[d], LAMBDA h : h # g) : g \in Range(seen[d])} \cup {<<g>> : g \in Range(seen[d])}

ListsNext ==
  \E d \in Devices :
    \/ Look(d) \/ DeleteList(d)
    \/ \E g \in Games : AddToList(d, g) \/ RemoveFromList(d, g)
    \/ \E cut \in BOOLEAN : RemoveLines(d, cut)
    \/ \E named \in Wishes(d) : Reorder(d, named)
----------------------------------------------------------------------------
(* Properties.                                                             *)

ListsTypeOK ==
  /\ listed \in [Games -> Nat \cup {Off}] /\ lines \in [Games -> Nat]
  /\ removing \in [Devices -> Games \cup {Nobody}] /\ open \in BOOLEAN
  /\ edits \in 0..MaxEdits /\ raced \subseteq Games
  /\ \A d \in Devices : seen[d] \in Seq(Games)

\* The reference: g before h in s.
Precedes(s, g, h) == \E i, j \in DOMAIN s : i < j /\ s[i] = g /\ s[j] = h

\* Whatever the devices remove, add and reorder in between: no two games
\* share a position (the order read back would be anybody's), the list stays
\* within its size, "games not named keep their relative order after the
\* named ones" (lists.go, Reorder), and the feed has exactly one line for
\* each game in the list, unless its removal met an addition or was cut.
ListHolds ==
  /\ \A g, h \in InList : g # h => listed[g] # listed[h]
  /\ Cardinality(InList) <= MaxListItems
  /\ LET named == Range(wish.named) \cap Range(wish.of)
     IN  /\ Range(wish.got) = Range(wish.of) /\ IsInjective(wish.got)
         /\ \A g \in named, h \in Range(wish.of) \ named : Precedes(wish.got, g, h)
         /\ \A g, h \in Range(wish.of) \ named : Precedes(wish.of, g, h) => Precedes(wish.got, g, h)
  /\ \A g \in Games \ (raced \cup Range(removing)) : lines[g] = IF g \in InList THEN 1 ELSE 0
=============================================================================
