------------------------ MODULE LibraryIndexProofs ------------------------
(***************************************************************************)
(* What a statement keeps and what a delta does, for any set of games and  *)
(* contents: the facts the proofs about the server (LibraryRevProofs) and  *)
(* about a device (DeviceStoreProofs) rest on.                             *)
(***************************************************************************)
EXTENDS LibraryIndex, TLAPS

USE DEF Present

\* What any statement leaves behind is still a database.
LEMMA StatementType ==
  ASSUME NEW t \in Tables, NEW g \in Games, NEW c \in Contents
  PROVE  /\ InsertRow(t, g, c) \in Tables
         /\ UpdateRow(t, g, c) \in Tables
         /\ DeleteRow(t, g) \in Tables
  BY DEF Tables, Library, InsertRow, UpdateRow, DeleteRow

\* The stamps and tombstones never run ahead of the counter.
LEMMA StatementStamped ==
  ASSUME NEW t \in Tables, NEW g \in Games, NEW c \in Contents, Stamped(t)
  PROVE  /\ Stamped(InsertRow(t, g, c))
         /\ Present(t, g) => Stamped(UpdateRow(t, g, c))
         /\ Stamped(DeleteRow(t, g))
  BY DEF Tables, Library, Stamped, InsertRow, UpdateRow, DeleteRow

\* A statement keeps what a device at an older revision relies on.
LEMMA StatementCovers ==
  ASSUME NEW t \in Tables, NEW g \in Games, NEW c \in Contents,
         NEW h \in Games, NEW r \in Nat, NEW e \in Contents \cup {Absent},
         r <= t.rev, Covered(t, h, r, e)
  PROVE  /\ Covered(InsertRow(t, g, c), h, r, e)
         /\ Present(t, g) => Covered(UpdateRow(t, g, c), h, r, e)
         /\ Covered(DeleteRow(t, g), h, r, e)
  <1> USE ContentsAssumption DEF Tables, Library, Covered
  <1>1. Covered(InsertRow(t, g, c), h, r, e)
    BY DEF InsertRow
  <1>2. Present(t, g) => Covered(UpdateRow(t, g, c), h, r, e)
    BY DEF UpdateRow
  <1>3. Covered(DeleteRow(t, g), h, r, e)
    BY DEF DeleteRow
  <1>. QED  BY <1>1, <1>2, <1>3

\* A delta brings a covered copy to what the tables hold.
LEMMA DeltaBringsUpToDate ==
  ASSUME NEW t \in Tables, NEW r \in Nat, NEW entries \in Library,
         Stamped(t), r <= t.rev, r = 0 => entries = EmptyLibrary,
         \A g \in Games : Covered(t, g, r, entries[g])
  PROVE  Apply(entries, Index(t, r)) = t.content
  <1> DEFINE idx == Index(t, r)
             new == Apply(entries, idx)
  <1>1. /\ idx.full <=> r = 0
        /\ \A g \in Games : g \in DOMAIN idx.items <=> Present(t, g) /\ t.stamp[g] > r
        /\ \A g \in DOMAIN idx.items : idx.items[g] = t.content[g]
        /\ \A g \in Games : g \in idx.deleted <=> r # 0 /\ t.tomb[g] > r
    <2>1. t.rev \in Nat /\ ~(r > t.rev) /\ (r <= 0 <=> r = 0)
      BY DEF Tables
    <2>2. idx = [rev |-> t.rev, full |-> r <= 0,
                 items |-> [g \in {h \in Games : Present(t, h) /\ t.stamp[h] > r} |-> t.content[g]],
                 deleted |-> IF r <= 0 THEN {} ELSE {g \in Games : t.tomb[g] > r}]
      BY <2>1, Zenon DEF Index
    <2>. HIDE DEF idx
    <2>. QED  BY <2>1, <2>2
  <1>2. ASSUME NEW g \in Games
        PROVE  new[g] = t.content[g]
    <2>0. new[g] = CASE g \in idx.deleted -> Absent
                     [] g \notin idx.deleted /\ g \in DOMAIN idx.items -> idx.items[g]
                     [] g \notin idx.deleted /\ g \notin DOMAIN idx.items /\ idx.full -> Absent
                     [] OTHER -> entries[g]
      BY DEF Apply
    <2>1. Covered(t, g, r, entries[g]) /\ t.tomb[g] \in Nat /\ t.stamp[g] \in Nat
      BY DEF Tables
    <2>2. CASE Present(t, g)
      <3>1. g \notin idx.deleted
        BY <1>1, <2>2 DEF Stamped
      <3>2. CASE t.stamp[g] > r
        <4>1. g \in DOMAIN idx.items /\ idx.items[g] = t.content[g]
          BY <1>1, <2>2, <3>2
        <4>. HIDE DEF idx, new
        <4>. QED  BY <2>0, <3>1, <4>1
      <3>3. CASE ~(t.stamp[g] > r)
        <4>1. g \notin DOMAIN idx.items /\ entries[g] = t.content[g]
          BY <1>1, <2>1, <2>2, <3>3 DEF Covered
        <4>2. ~ idx.full
          BY <1>1, <2>1, <2>2, <3>3 DEF Stamped
        <4>. HIDE DEF idx, new
        <4>. QED  BY <2>0, <3>1, <4>1, <4>2
      <3>. QED  BY <3>2, <3>3
    <2>3. CASE ~Present(t, g)
      <3>1. g \notin DOMAIN idx.items
        BY <1>1, <2>3
      <3>2. g \in idx.deleted \/ entries[g] = Absent
        BY <1>1, <2>1, <2>3 DEF Covered, EmptyLibrary
      <3>. HIDE DEF idx, new
      <3>. QED  BY <2>0, <2>3, <3>1, <3>2
    <2>. QED  BY <2>2, <2>3
  <1>3. new = [g \in Games |-> new[g]] /\ t.content = [g \in Games |-> t.content[g]]
    BY DEF Apply, Tables, Library
  <1>. HIDE DEF new
  <1>. QED  BY <1>2, <1>3 DEF new

\* What the server sends is an index, and a copy it is applied to stays one.
LEMMA IndexIsTyped ==
  ASSUME NEW t \in Tables, NEW since \in Nat
  PROVE  Index(t, since) \in IndexType
  <1> DEFINE from == IF since > t.rev THEN 0 ELSE since
             some == {h \in Games : Present(t, h) /\ t.stamp[h] > from}
             items == [g \in some |-> t.content[g]]
  <1>1. items \in SomeEntries
    <2>1. some \in SUBSET Games
      OBVIOUS
    <2>2. \A g \in some : t.content[g] \in Contents \cup {Absent}
      BY DEF Tables, Library
    <2>. HIDE DEF some
    <2>. QED  BY <2>1, <2>2 DEF SomeEntries
  <1>2. {g \in Games : t.tomb[g] > from} \in SUBSET Games /\ {} \in SUBSET Games
    OBVIOUS
  <1>3. t.rev \in Nat
    BY DEF Tables
  <1>. HIDE DEF items
  <1>. QED  BY <1>1, <1>2, <1>3 DEF Index, IndexType, items

LEMMA ApplyIsTyped ==
  ASSUME NEW entries \in Library, NEW idx \in IndexType
  PROVE  Apply(entries, idx) \in Library
  <1>1. \A g \in DOMAIN idx.items : idx.items[g] \in Contents \cup {Absent}
    BY DEF IndexType, SomeEntries
  <1>. QED  BY <1>1 DEF Apply, Library

\* A person who has added nothing yet.
LEMMA NothingYet ==
  /\ EmptyTables \in Tables /\ EmptyLibrary \in Library /\ Stamped(EmptyTables)
  BY DEF EmptyTables, EmptyLibrary, Tables, Library, Stamped
=============================================================================
