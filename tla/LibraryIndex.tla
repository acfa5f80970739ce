---------------------------- MODULE LibraryIndex ----------------------------
(***************************************************************************)
(* The delta sync of one person's library: the rows, tombstones and        *)
(* revision counter the triggers of internal/db/migrate.go (v18) keep, the *)
(* index that internal/library/index.go reads from them, and what a device *)
(* does with it (web/static/js/core/store.js, sync).                       *)
(*                                                                         *)
(* An index entry carries the row and some of the game's metadata: name,   *)
(* cover, release date and time to beat, a change of which stamps the row, *)
(* are one value with it here, the entry's content.  The game's platforms, *)
(* the one field that no trigger watches, are not part of the content:     *)
(* LibraryRev keeps them beside it.                                        *)
(***************************************************************************)
EXTENDS Integers

CONSTANTS
  Games,      \* games of the catalog
  Contents    \* what an index entry can show, apart from the game's platforms

Absent == "absent"
ASSUME ContentsAssumption == Absent \notin Contents

Library == [Games -> Contents \cup {Absent}]

\* library_items (content and rev, 0 when there is no row),
\* library_tombstones (0 when there is none) and user_state.library_rev.
Tables == [content : Library, stamp : [Games -> Nat], tomb : [Games -> Nat], rev : Nat]

EmptyLibrary == [g \in Games |-> Absent]
EmptyTables == [content |-> EmptyLibrary, stamp |-> [g \in Games |-> 0],
                tomb |-> [g \in Games |-> 0], rev |-> 0]

Present(t, g) == t.content[g] # Absent

\* Slips: the row goes in without being stamped; its tombstone stays; an
\* update does not move the counter; a deletion leaves no tombstone.
InsertRowUnstamped(t, g, c) ==
  [content |-> [t.content EXCEPT ![g] = c], tomb |-> t.tomb, rev |-> t.rev + 1]
InsertRowEntombed(t, g, c) ==
  [content |-> [t.content EXCEPT ![g] = c], stamp |-> [t.stamp EXCEPT ![g] = t.rev + 1],
   tomb |-> t.tomb, rev |-> t.rev + 1]
UpdateRowUncounted(t, g, c) ==
  [content |-> [t.content EXCEPT ![g] = c], stamp |-> [t.stamp EXCEPT ![g] = t.rev],
   tomb |-> t.tomb, rev |-> t.rev]
DeleteRowUntraced(t, g) ==
  [content |-> [t.content EXCEPT ![g] = Absent], stamp |-> [t.stamp EXCEPT ![g] = 0],
   tomb |-> t.tomb, rev |-> t.rev + 1]

\* INSERT INTO library_items; library_rev_ai.
InsertRow(t, g, c) ==
  [content |-> [t.content EXCEPT ![g] = c], stamp |-> [t.stamp EXCEPT ![g] = t.rev + 1],
   tomb |-> [t.tomb EXCEPT ![g] = 0], rev |-> t.rev + 1]

\* UPDATE library_items, or of what the entry shows of its game but the
\* platforms; library_rev_au, games_library_rev_au.
UpdateRow(t, g, c) ==
  [content |-> [t.content EXCEPT ![g] = c], stamp |-> [t.stamp EXCEPT ![g] = t.rev + 1],
   tomb |-> t.tomb, rev |-> t.rev + 1]

\* DELETE FROM library_items; library_rev_ad.
DeleteRow(t, g) ==
  [content |-> [t.content EXCEPT ![g] = Absent], stamp |-> [t.stamp EXCEPT ![g] = 0],
   tomb |-> [t.tomb EXCEPT ![g] = t.rev + 1], rev |-> t.rev + 1]

\* Store.Index: everything, or what changed after `since`; a device ahead of
\* the database gets everything.
Index(t, since) ==
  LET from == IF since > t.rev THEN 0 ELSE since
      full == from <= 0
  IN  [rev |-> t.rev, full |-> full,
       items |-> [g \in {h \in Games : Present(t, h) /\ t.stamp[h] > from} |-> t.content[g]],
       deleted |-> IF full THEN {} ELSE {g \in Games : t.tomb[g] > from}]

\* Store.sync on the device: the rows go in, then the deleted ones go out.
Apply(copy, idx) ==
  [g \in Games |->
     CASE g \in idx.deleted -> Absent
       [] g \notin idx.deleted /\ g \in DOMAIN idx.items -> idx.items[g]
       [] g \notin idx.deleted /\ g \notin DOMAIN idx.items /\ idx.full -> Absent
       [] OTHER -> copy[g]]
----------------------------------------------------------------------------
(* The shape of an index, and what the proofs need of tables and copies.   *)

SomeEntries == UNION {[some -> Contents \cup {Absent}] : some \in SUBSET Games}
IndexType == [rev : Nat, full : BOOLEAN, items : SomeEntries, deleted : SUBSET Games]

\* One row of tables t as a device at revision r with `entry` relies on it: a
\* change it has not seen is stamped, or entombed, after r.
Covered(t, g, r, entry) ==
  /\ Present(t, g)  => t.stamp[g] > r \/ entry = t.content[g]
  /\ ~Present(t, g) => t.tomb[g] > r \/ entry = Absent

Stamped(t) == \A g \in Games :
  /\ t.stamp[g] <= t.rev /\ t.tomb[g] <= t.rev
  /\ Present(t, g) => t.stamp[g] > 0 /\ t.tomb[g] = 0
=============================================================================
