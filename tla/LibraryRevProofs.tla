-------------------------- MODULE LibraryRevProofs --------------------------
(***************************************************************************)
(* The delta sync is exact and a 304 is truthful in all that the triggers  *)
(* watch, and in the platforms of games whose platforms did not change     *)
(* alone, for any set of games, contents, platforms and devices.           *)
(***************************************************************************)
EXTENDS LibraryRev, LibraryIndexProofs, TLAPS

USE DEF Present, NoTag, Tag

-----------------------------------------------------------------------------
\* Every step keeps the shapes of the variables (TypeOK).
THEOREM TypeCorrect == Spec => []TypeOK
  <1>1. Init => TypeOK
    <2>1. EmptyTables \in Tables /\ EmptyLibrary \in Library
      BY DEF EmptyTables, EmptyLibrary, Tables, Library
    <2>2. NoTag \in Tags
      BY DEF Tags
    <2>3. 0 \in Nat
      OBVIOUS
    <2>. HIDE DEF NoTag, Tag, Present
    <2>. QED  BY <2>1, <2>2, <2>3, Zenon DEF Init, TypeOK
  <1>2. TypeOK /\ [Next]_vars => TypeOK'
    <2> SUFFICES ASSUME TypeOK, [Next]_vars PROVE TypeOK'
      OBVIOUS
    <2> USE DEF TypeOK
    <2>1. CASE BeginTx \/ Commit \/ Rollback
      BY <2>1 DEF BeginTx, Commit, Rollback, devices
    <2>2. ASSUME NEW g \in Games, Delete(g) \/ \E c \in Contents : Insert(g, c) \/ Update(g, c)
          PROVE  TypeOK'
      <3>1. CASE Delete(g)
        <4>1. work.content[g] \in Contents
          BY <3>1 DEF Delete, Tables, Library
        <4>. QED  BY <3>1, <4>1, StatementType DEF Delete, Statement, devices
      <3>2. CASE \E c \in Contents : Insert(g, c) \/ Update(g, c)
        BY <3>2, StatementType DEF Insert, Update, Statement, devices
      <3>. QED  BY <2>2, <3>1, <3>2
    <2>6. ASSUME NEW g \in Games, NEW c \in Contents, NEW p \in Platforms, UpsertIGDBGame(g, c, p)
          PROVE  TypeOK'
      <3>1. disk' \in Tables
        BY <2>6, StatementType DEF UpsertIGDBGame
      <3>2. platforms' \in [Games -> Platforms] /\ loosened' \in [Games -> Nat]
        BY <2>6 DEF UpsertIGDBGame, Tables
      <3>3. work' = disk' /\ UNCHANGED <<open, devices>>
        BY <2>6 DEF UpsertIGDBGame
      <3>. QED  BY <3>1, <3>2, <3>3 DEF devices
    <2>3. ASSUME NEW d \in Devices, AskNotModified(d) \/ Ask(d) \/ Lose(d)
          PROVE  TypeOK'
      BY <2>3 DEF AskNotModified, Ask, Lose, vars, devices, Tags, Tables
    <2>4. ASSUME NEW d \in Devices, Answer(d)
          PROVE  TypeOK'
      <3>1. Apply(copy[d], Index(disk, at[d])) \in Library
        BY DEF Apply, Index, Library, Tables
      <3>2. Index(disk, at[d]).rev \in Nat
        BY DEF Index, Tables
      <3>3. Listing(d, Index(disk, at[d])) \in [Games -> Platforms]
        BY DEF Listing
      <3>. QED  BY <2>4, <3>1, <3>2, <3>3 DEF Answer, Tags
    <2>5. CASE UNCHANGED vars
      BY <2>5 DEF vars, devices
    <2>. QED  BY <2>1, <2>2, <2>3, <2>4, <2>5, <2>6 DEF Next
  <1>. QED  BY <1>1, <1>2, PTL DEF Spec

\* A delta lists the platforms of every game that is not loose, for a device
\* that relied on its own list to be right where nothing was stamped since.
LEMMA ListingIsRight ==
  ASSUME TypeOK, NEW d \in Devices, NEW g \in Games, Present(disk, g), at[d] <= disk.rev,
         disk.stamp[g] > at[d] \/ shown[d][g] = platforms[g]
  PROVE  Listing(d, Index(disk, at[d]))[g] = platforms[g]
  <1>1. at[d] \in Nat /\ disk.rev \in Nat /\ ~(at[d] > disk.rev)
    BY DEF TypeOK, Tables
  <1>2. g \in DOMAIN Index(disk, at[d]).items <=> disk.stamp[g] > at[d]
    BY <1>1 DEF Index
  <1>. QED  BY <1>2 DEF Listing

\* What the devices rely on of the entries' contents.
LEMMA ContentInvariant == Spec => []ContentInv
  <1>1. Init => ContentInv
    BY DEF Init, ContentInv, Stamped, Covered, EmptyTables, EmptyLibrary
  <1>2. TypeOK /\ ContentInv /\ [Next]_vars => ContentInv'
    <2> SUFFICES ASSUME TypeOK, ContentInv, [Next]_vars PROVE ContentInv'
      OBVIOUS
    <2> USE DEF TypeOK, ContentInv
    <2>1. CASE BeginTx \/ Commit \/ Rollback
      <3>1. CASE BeginTx     BY <3>1 DEF BeginTx, devices
      <3>0. disk.rev \in Nat /\ work.rev \in Nat
        BY DEF Tables
      <3>2. CASE Commit
        <4>1. \A g \in Games : Covered(work, g, work.rev, work.content[g])
          BY DEF Covered, Tables, Library
        <4>2. \A d \in Devices : at[d] <= work.rev /\ (asked[d] # NoTag => asked[d].rev <= work.rev)
          BY <3>0 DEF Tags
        <4>. QED  BY <3>0, <3>2, <4>1, <4>2 DEF Commit, devices
      <3>3. CASE Rollback
        <4>1. \A g \in Games : Covered(disk, g, disk.rev, disk.content[g])
          BY DEF Covered, Tables, Library
        <4>. QED  BY <3>0, <3>3, <4>1 DEF Rollback, devices
      <3>. QED  BY <2>1, <3>1, <3>2, <3>3
    <2>2. ASSUME NEW t \in Tables, Statement(t), Stamped(t), t.rev = work.rev + 1,
                 \A h \in Games : \A r \in Nat : \A e \in Contents \cup {Absent} :
                   r <= work.rev /\ Covered(work, h, r, e) => Covered(t, h, r, e)
          PROVE  ContentInv'
      <3>1. disk.rev \in Nat /\ work.rev \in Nat
        BY DEF Tables
      <3>2. ASSUME NEW d \in Devices, NEW h \in Games
            PROVE  Covered(t, h, at[d], copy[d][h])
        BY <2>2, <3>1 DEF Library
      <3>3. Stamped(work') /\ disk.rev <= work'.rev /\ open'
        BY <2>2, <3>1 DEF Statement
      <3>4. ASSUME NEW h \in Games
            PROVE  Covered(t, h, disk.rev, disk.content[h])
        BY <2>2, <3>1 DEF Tables, Library
      <3>. QED  BY <2>2, <3>2, <3>3, <3>4 DEF Statement, devices
    <2>3. ASSUME NEW g \in Games, Delete(g) \/ \E c \in Contents : Insert(g, c) \/ Update(g, c)
          PROVE  ContentInv'
      <3>1. CASE Delete(g)
        <4>0. PICK c \in Contents : TRUE
          BY <3>1 DEF Delete, TypeOK, Tables, Library
        <4> DEFINE t == DeleteRow(work, g)
        <4>1. t \in Tables /\ Stamped(t)
          BY <4>0, StatementType, StatementStamped
        <4>2. t.rev = work.rev + 1
          BY DEF DeleteRow, Tables
        <4>. QED  BY <2>2, <3>1, <4>0, <4>1, <4>2, StatementCovers DEF Delete
      <3>2. ASSUME NEW c \in Contents, Insert(g, c)
            PROVE  ContentInv'
        <4> DEFINE t == InsertRow(work, g, c)
        <4>1. t \in Tables /\ Stamped(t)
          BY StatementType, StatementStamped
        <4>2. t.rev = work.rev + 1
          BY DEF InsertRow, Tables
        <4>. QED  BY <2>2, <3>2, <4>1, <4>2, StatementCovers DEF Insert
      <3>3. ASSUME NEW c \in Contents, Update(g, c)
            PROVE  ContentInv'
        <4> DEFINE t == UpdateRow(work, g, c)
        <4>1. t \in Tables /\ Stamped(t)
          BY <3>3, StatementType, StatementStamped DEF Update
        <4>2. t.rev = work.rev + 1
          BY DEF UpdateRow, Tables
        <4>. QED  BY <2>2, <3>3, <4>1, <4>2, StatementCovers DEF Update
      <3>. QED  BY <2>3, <3>1, <3>2, <3>3
    <2>4. ASSUME NEW d \in Devices, AskNotModified(d) \/ Ask(d) \/ Lose(d)
          PROVE  ContentInv'
      <3>1. UNCHANGED <<disk, work, open, copy, at, etag>>
        BY <2>4 DEF AskNotModified, Ask, Lose, vars, devices
      <3>2. \/ asked' = asked
            \/ asked' = [asked EXCEPT ![d] = Tag(disk.rev, at[d])]
            \/ asked' = [asked EXCEPT ![d] = NoTag]
        BY <2>4 DEF AskNotModified, Ask, Lose, vars, devices
      <3>3. \A e \in Devices : asked'[e] = asked[e] \/ asked'[e] = NoTag
                                \/ asked'[e] = Tag(disk.rev, at[e])
        BY <3>2
      <3>4. disk.rev \in Nat
        BY DEF Tables
      <3>5. ASSUME NEW e \in Devices, asked'[e] # NoTag
            PROVE  asked'[e].since = at[e] /\ at[e] <= asked'[e].rev /\ asked'[e].rev <= disk.rev
        <4>1. at[e] <= disk.rev /\ at[e] \in Nat
          OBVIOUS
        <4>2. CASE asked'[e] = asked[e]
          BY <3>5, <4>2
        <4>3. CASE asked'[e] = Tag(disk.rev, at[e])
          BY <3>4, <4>1, <4>3
        <4>. QED  BY <3>3, <3>5, <4>2, <4>3
      <3>. QED  BY <3>1, <3>5
    <2>5. ASSUME NEW d \in Devices, Answer(d)
          PROVE  ContentInv'
      <3>1. Apply(copy[d], Index(disk, at[d])) = disk.content
        BY DeltaBringsUpToDate
      <3>2. Index(disk, at[d]).rev = disk.rev
        BY DEF Index
      <3>3. /\ copy' = [copy EXCEPT ![d] = disk.content] /\ at' = [at EXCEPT ![d] = disk.rev]
            /\ etag' = [etag EXCEPT ![d] = asked[d]] /\ asked' = [asked EXCEPT ![d] = NoTag]
            /\ UNCHANGED <<disk, work, open>> /\ asked[d] # NoTag
        BY <2>5, <3>1, <3>2 DEF Answer
      <3>4. disk.rev \in Nat /\ disk.content \in Library
        BY DEF Tables
      <3>5. \A g \in Games : Covered(disk, g, disk.rev, disk.content[g])
        BY <3>4 DEF Covered, Library
      <3>6. disk.rev = 0 => disk.content = EmptyLibrary
        <4>1. disk.rev = 0 => \A g \in Games : disk.content[g] = Absent
          BY <3>4 DEF Stamped, Tables
        <4>. QED  BY <3>4, <4>1 DEF EmptyLibrary, Library
      <3>7. asked[d].since = disk.rev => asked[d].rev = disk.rev
        <4>1. asked[d] \in [rev : Nat, since : Nat]
          BY <3>3 DEF Tags
        <4>2. at[d] <= asked[d].rev /\ asked[d].rev <= disk.rev /\ asked[d].since = at[d]
          BY <3>3
        <4>3. asked[d].rev \in Nat /\ at[d] \in Nat
          BY <4>1
        <4>. HIDE DEF TypeOK, ContentInv, Stamped, Covered
        <4>. QED  BY <3>4, <4>2, <4>3
      <3>. QED  BY <3>3, <3>4, <3>5, <3>6, <3>7
    <2>7. ASSUME NEW g \in Games, NEW c \in Contents, NEW p \in Platforms, UpsertIGDBGame(g, c, p)
          PROVE  ContentInv'
      <3>1. CASE ~(Present(disk, g) /\ c # disk.content[g])
        BY <2>7, <3>1 DEF UpsertIGDBGame, devices
      <3>2. CASE Present(disk, g) /\ c # disk.content[g]
        <4> DEFINE t == UpdateRow(disk, g, c)
        <4>1. disk' = t /\ work' = t /\ UNCHANGED <<open, devices>> /\ ~open
          BY <2>7, <3>2 DEF UpsertIGDBGame
        <4>2. t \in Tables /\ Stamped(t)
          BY <3>2, StatementType, StatementStamped
        <4>3. disk.rev \in Nat /\ t.rev = disk.rev + 1
          BY DEF UpdateRow, Tables
        <4>4. ASSUME NEW d \in Devices, NEW h \in Games
              PROVE  Covered(t, h, at[d], copy[d][h])
          BY <3>2, StatementCovers DEF Library
        <4>5. \A h \in Games : Covered(t, h, t.rev, t.content[h])
          BY <4>2 DEF Covered, Tables, Library
        <4>6. ASSUME NEW d \in Devices
              PROVE  at[d] <= t.rev /\ (asked[d] # NoTag => asked[d].rev <= t.rev)
          BY <4>3 DEF Tags
        <4>. HIDE DEF t
        <4>. QED  BY <4>1, <4>2, <4>3, <4>4, <4>5, <4>6 DEF devices
      <3>. QED  BY <3>1, <3>2
    <2>6. CASE UNCHANGED vars
      BY <2>6 DEF vars, devices
    <2>. QED  BY <2>1, <2>3, <2>4, <2>5, <2>6, <2>7 DEF Next
  <1>. QED  BY <1>1, <1>2, TypeCorrect, PTL DEF Spec

\* What they rely on of the platforms the entries list.
LEMMA PlatformInvariant == Spec => []PlatformInv
  <1>1. Init => PlatformInv
    BY DEF Init, PlatformInv, EmptyTables, EmptyLibrary
  <1>2. TypeOK /\ ContentInv /\ PlatformInv /\ [Next]_vars => PlatformInv'
    <2> SUFFICES ASSUME TypeOK, ContentInv, PlatformInv, [Next]_vars PROVE PlatformInv'
      OBVIOUS
    <2>0. /\ disk.rev \in Nat /\ work.rev \in Nat /\ disk.rev <= work.rev
          /\ \A g \in Games : disk.stamp[g] \in Nat /\ work.stamp[g] \in Nat /\ disk.stamp[g] <= disk.rev
          /\ \A d \in Devices : at[d] \in Nat /\ at[d] <= disk.rev
      BY DEF TypeOK, Tables, ContentInv, Stamped
    <2>1. CASE BeginTx
      BY <2>1 DEF BeginTx, devices, PlatformInv, Loose
    <2>2. CASE Commit
      <3>1. disk' = work /\ UNCHANGED <<work, platforms, loosened, devices>>
        BY <2>2 DEF Commit
      <3>2. ASSUME NEW d \in Devices, NEW g \in Games, Present(work, g), work.stamp[g] # loosened[g]
            PROVE  work.stamp[g] > at[d] \/ shown[d][g] = platforms[g]
        <4>1. CASE work.stamp[g] > disk.rev
          BY <2>0, <4>1
        <4>2. CASE Present(disk, g) /\ work.stamp[g] = disk.stamp[g]
          BY <3>2, <4>2 DEF PlatformInv, Loose
        <4>. QED  BY <3>2, <4>1, <4>2 DEF PlatformInv
      <3>. QED  BY <3>1, <3>2 DEF PlatformInv, Loose, devices
    <2>3. CASE Rollback
      BY <2>3 DEF Rollback, devices, PlatformInv, Loose
    <2>4. ASSUME NEW g \in Games, Delete(g) \/ \E c \in Contents : Insert(g, c) \/ Update(g, c)
          PROVE  PlatformInv'
      <3>1. PICK t : /\ work' = t /\ UNCHANGED <<disk, platforms, loosened, devices>>
                     /\ \/ t = DeleteRow(work, g)
                        \/ \E c \in Contents : t = InsertRow(work, g, c) \/ t = UpdateRow(work, g, c)
        BY <2>4 DEF Delete, Insert, Update, Statement
      <3>2. ASSUME NEW h \in Games, Present(t, h)
            PROVE  t.stamp[h] > disk.rev \/ (Present(disk, h) /\ t.stamp[h] = disk.stamp[h])
        <4>1. CASE h = g
          <5>1. t # DeleteRow(work, g) => t.stamp[g] = work.rev + 1
            BY <3>1 DEF InsertRow, UpdateRow, TypeOK, Tables
          <5>2. t = DeleteRow(work, g) => ~Present(t, g)
            BY DEF DeleteRow, TypeOK, Tables, Library
          <5>. QED  BY <2>0, <3>2, <4>1, <5>1, <5>2
        <4>2. CASE h # g
          <5>1. t.stamp[h] = work.stamp[h] /\ t.content[h] = work.content[h]
            BY <3>1, <4>2 DEF InsertRow, UpdateRow, DeleteRow, TypeOK, Tables, Library
          <5>. QED  BY <3>2, <5>1 DEF PlatformInv
        <4>. QED  BY <4>1, <4>2
      <3>. QED  BY <3>1, <3>2 DEF PlatformInv, Loose, devices
    <2>5. ASSUME NEW g \in Games, NEW c \in Contents, NEW p \in Platforms, UpsertIGDBGame(g, c, p)
          PROVE  PlatformInv'
      <3> DEFINE stamps == Present(disk, g) /\ c # disk.content[g]
                 alone  == Present(disk, g) /\ ~stamps /\ p # platforms[g]
      <3>1. /\ disk' = IF stamps THEN UpdateRow(disk, g, c) ELSE disk
            /\ work' = disk' /\ platforms' = [platforms EXCEPT ![g] = p]
            /\ loosened' = IF alone THEN [loosened EXCEPT ![g] = disk.stamp[g]] ELSE loosened
            /\ UNCHANGED devices
        BY <2>5 DEF UpsertIGDBGame
      <3>2. ASSUME NEW d \in Devices, NEW h \in Games, Present(disk', h), disk'.stamp[h] # loosened'[h]
            PROVE  disk'.stamp[h] > at[d] \/ shown[d][h] = platforms'[h]
        <4>1. CASE h # g
          <5>1. disk'.stamp[h] = disk.stamp[h] /\ disk'.content[h] = disk.content[h]
            BY <3>1, <4>1 DEF UpdateRow, TypeOK, Tables, Library
          <5>2. loosened'[h] = loosened[h] /\ platforms'[h] = platforms[h]
            BY <3>1, <4>1 DEF TypeOK
          <5>. QED  BY <3>2, <5>1, <5>2 DEF PlatformInv, Loose
        <4>2. CASE h = g /\ stamps
          <5>1. disk'.stamp[g] = disk.rev + 1
            BY <3>1, <4>2 DEF UpdateRow, TypeOK, Tables
          <5>. QED  BY <2>0, <4>2, <5>1
        <4>3. CASE h = g /\ ~stamps
          <5>1. disk' = disk
            BY <3>1, <4>3
          <5>2. ~alone
            BY <3>1, <3>2, <4>3, <5>1 DEF TypeOK
          <5>3. p = platforms[g] /\ platforms'[g] = p /\ loosened' = loosened
            BY <3>1, <3>2, <4>3, <5>1, <5>2 DEF TypeOK
          <5>. QED  BY <3>2, <4>3, <5>1, <5>3 DEF PlatformInv, Loose
        <4>. QED  BY <4>1, <4>2, <4>3
      <3>. QED  BY <3>1, <3>2 DEF PlatformInv, Loose, devices
    <2>6. ASSUME NEW d \in Devices, AskNotModified(d) \/ Ask(d) \/ Lose(d)
          PROVE  PlatformInv'
      BY <2>6 DEF AskNotModified, Ask, Lose, vars, devices, PlatformInv, Loose
    <2>7. ASSUME NEW d \in Devices, Answer(d)
          PROVE  PlatformInv'
      <3> DEFINE idx == Index(disk, at[d])
      <3>1. /\ UNCHANGED <<disk, work, open, platforms, loosened>>
            /\ shown' = [shown EXCEPT ![d] = Listing(d, idx)] /\ at' = [at EXCEPT ![d] = idx.rev]
        BY <2>7 DEF Answer
      <3>2. ASSUME NEW g \in Games, Present(disk, g), ~Loose(g)
            PROVE  Listing(d, idx)[g] = platforms[g]
        <4>1. disk.stamp[g] > at[d] \/ shown[d][g] = platforms[g]
          BY <3>2 DEF PlatformInv
        <4>2. at[d] <= disk.rev
          BY <2>0
        <4>. QED  BY <3>2, <4>1, <4>2, ListingIsRight
      <3>. HIDE DEF idx
      <3>. QED  BY <3>1, <3>2 DEF PlatformInv, Loose, TypeOK
    <2>8. CASE UNCHANGED vars
      BY <2>8 DEF vars, devices, PlatformInv, Loose
    <2>. QED  BY <2>1, <2>2, <2>3, <2>4, <2>5, <2>6, <2>7, <2>8 DEF Next
  <1>. QED  BY <1>1, <1>2, TypeCorrect, ContentInvariant, PTL DEF Spec

\* The strengthened invariant holds in every state.
THEOREM RevInvariant == Spec => []RevInv
  BY ContentInvariant, PlatformInvariant, PTL DEF RevInv

\* The delta from any device's revision brings it to what is committed, but
\* for the platforms of loose games.
THEOREM DeltaIsExact == Spec => []DeltaExact
  <1>1. TypeOK /\ RevInv => DeltaExact
    <2> SUFFICES ASSUME TypeOK, RevInv, NEW d \in Devices
                 PROVE  /\ Apply(copy[d], Index(disk, at[d])) = disk.content
                        /\ ListsRight(Listing(d, Index(disk, at[d])))
      BY DEF DeltaExact
    <2>1. Apply(copy[d], Index(disk, at[d])) = disk.content
      BY DeltaBringsUpToDate DEF TypeOK, RevInv, ContentInv
    <2>2. ASSUME NEW g \in Games, Present(disk, g), ~Loose(g)
          PROVE  Listing(d, Index(disk, at[d]))[g] = platforms[g]
      BY <2>2, ListingIsRight DEF RevInv, ContentInv, PlatformInv
    <2>. QED  BY <2>1, <2>2 DEF ListsRight
  <1>. QED  BY <1>1, TypeCorrect, RevInvariant, PTL

\* Only a device whose copy is what is committed, but for the platforms of
\* loose games, is told it has it already.
THEOREM NotModifiedIsTruthful == Spec => []NotModifiedIsTrue
  <1>1. TypeOK /\ RevInv => NotModifiedIsTrue
    <2> SUFFICES ASSUME TypeOK, RevInv, NEW d \in Devices,
                        etag[d] = Tag(disk.rev, at[d])
                 PROVE  copy[d] = disk.content /\ ListsRight(shown[d])
      BY DEF NotModifiedIsTrue
    <2>1. at[d] = disk.rev /\ disk.rev \in Nat
      BY DEF TypeOK, RevInv, ContentInv, Tables
    <2>0. ASSUME NEW g \in Games
          PROVE  /\ disk.stamp[g] <= disk.rev /\ disk.tomb[g] <= disk.rev
                 /\ disk.stamp[g] \in Nat /\ disk.tomb[g] \in Nat
      BY DEF TypeOK, Tables, RevInv, ContentInv, Stamped
    <2>2. ASSUME NEW g \in Games
          PROVE  copy[d][g] = disk.content[g]
      <3>1. Covered(disk, g, disk.rev, copy[d][g])
        BY <2>1 DEF RevInv, ContentInv
      <3>. QED  BY <2>0, <2>1, <3>1 DEF Covered
    <2>3. copy[d] \in Library /\ disk.content \in Library
      BY DEF TypeOK, Tables
    <2>4. ListsRight(shown[d])
      <3> SUFFICES ASSUME NEW g \in Games, Present(disk, g), ~Loose(g)
                   PROVE  shown[d][g] = platforms[g]
        BY DEF ListsRight
      <3>1. disk.stamp[g] > at[d] \/ shown[d][g] = platforms[g]
        BY DEF RevInv, PlatformInv
      <3>. QED  BY <2>0, <2>1, <3>1
    <2>. QED  BY <2>2, <2>3, <2>4 DEF Library
  <1>. QED  BY <1>1, TypeCorrect, RevInvariant, PTL

\* The detailed system implements the shared library (SharedLibrary): every
\* step is a publication, a refresh of one device, or shows nobody anything.
THEOREM Refinement == Spec => ImplementsShared
  <1>1. Init => Shared!Init
    BY DEF Init, Shared!Init, EmptyTables
  <1>2. TypeOK /\ RevInv /\ [Next]_vars => [Shared!Next]_Shared!sharedVars
    <2> SUFFICES ASSUME TypeOK, RevInv, [Next]_vars
                 PROVE  [Shared!Next]_Shared!sharedVars
      OBVIOUS
    <2> USE DEF Shared!sharedVars
    <2>1. CASE Commit
      <3>1. work.content \in Library
        BY DEF TypeOK, Tables
      <3>2. Shared!Publish(work.content)
        BY <2>1 DEF Commit, devices, Shared!Publish
      <3>. QED  BY <3>1, <3>2 DEF Shared!Next
    <2>2. ASSUME NEW d \in Devices, Answer(d)
          PROVE  [Shared!Next]_Shared!sharedVars
      <3>1. Apply(copy[d], Index(disk, at[d])) = disk.content
        BY DeltaBringsUpToDate DEF TypeOK, RevInv, ContentInv
      <3>2. Shared!Refresh(d)
        BY <2>2, <3>1 DEF Answer, Shared!Refresh
      <3>. QED  BY <3>2 DEF Shared!Next
    <2>3. CASE BeginTx \/ Rollback
      BY <2>3 DEF BeginTx, Rollback, devices
    <2>4. ASSUME NEW g \in Games, Delete(g) \/ \E c \in Contents : Insert(g, c) \/ Update(g, c)
          PROVE  UNCHANGED <<disk, copy>>
      BY <2>4 DEF Delete, Insert, Update, Statement, devices
    <2>5. ASSUME NEW d \in Devices, AskNotModified(d) \/ Ask(d) \/ Lose(d)
          PROVE  UNCHANGED <<disk, copy>>
      BY <2>5 DEF AskNotModified, Ask, Lose, vars, devices
    <2>6. CASE UNCHANGED vars
      BY <2>6 DEF vars, devices
    <2>7. ASSUME NEW g \in Games, NEW c \in Contents, NEW p \in Platforms, UpsertIGDBGame(g, c, p)
          PROVE  [Shared!Next]_Shared!sharedVars
      <3>1. disk'.content \in Library
        BY <2>7, StatementType DEF UpsertIGDBGame, TypeOK, Tables
      <3>2. UNCHANGED copy
        BY <2>7 DEF UpsertIGDBGame, devices
      <3>3. Shared!Publish(disk'.content)
        BY <3>2 DEF Shared!Publish
      <3>. QED  BY <3>1, <3>3 DEF Shared!Next
    <2>. QED  BY <2>1, <2>2, <2>3, <2>4, <2>5, <2>6, <2>7 DEF Next
  <1>. QED  BY <1>1, <1>2, TypeCorrect, RevInvariant, PTL DEF Spec, ImplementsShared, Shared!Spec
=============================================================================
