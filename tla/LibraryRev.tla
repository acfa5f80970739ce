----------------------------- MODULE LibraryRev -----------------------------
(***************************************************************************)
(* Readers of the library beside its writer.  Transactions change rows     *)
(* statement by statement on the single writer connection and publish on   *)
(* commit; GET /library/index reads the revision for its ETag in one query *)
(* and the index in another (a read transaction of its own), so a commit   *)
(* may fall in between.                                                    *)
(*                                                                         *)
(* An entry also lists the game's platforms, and no trigger watches those: *)
(* a refresh from IGDB that rewrites them alone changes what an entry      *)
(* shows without a stamp.  They are kept beside the content here.          *)
(***************************************************************************)
EXTENDS LibraryIndex

CONSTANTS
  Devices,    \* browsers that keep a copy of the library
  Platforms,  \* the platforms a game can be listed with (platforms_json)
  MaxRev      \* bound: the last revision handed out

ASSUME MaxRevAssumption == MaxRev \in Nat

VARIABLES
  disk,       \* the committed tables
  work,       \* the tables as the open transaction sees them
  open,       \* whether a write transaction is open
  platforms,  \* game -> its platforms
  loosened,   \* history: game -> its row's stamp when they last changed alone
  copy,       \* device -> the entries it keeps
  shown,      \* device -> the platforms those entries list
  at,         \* device -> the revision it last synced to
  etag,       \* device -> the tag of its last answer: revision and query
  asked       \* device -> the tag of the request being answered

devices == <<copy, shown, at, etag, asked>>
vars == <<disk, work, open, platforms, loosened, devices>>

NoTag == [rev |-> -1, since |-> -1]
Tag(r, s) == [rev |-> r, since |-> s]
Tags == [rev : Nat, since : Nat] \cup {NoTag}

Init ==
  /\ disk = EmptyTables
  /\ work = EmptyTables
  /\ open = FALSE
  /\ platforms \in [Games -> Platforms]
  /\ loosened = [g \in Games |-> 0]
  /\ copy = [d \in Devices |-> EmptyLibrary]
  /\ shown = [d \in Devices |-> platforms]
  /\ at = [d \in Devices |-> 0]
  /\ etag = [d \in Devices |-> NoTag]
  /\ asked = [d \in Devices |-> NoTag]

----------------------------------------------------------------------------
(* The writer.                                                             *)

BeginTx ==
  /\ ~open
  /\ open' = TRUE
  /\ UNCHANGED <<disk, work, platforms, loosened, devices>>

Statement(t) ==
  /\ open
  /\ work.rev < MaxRev
  /\ work' = t
  /\ UNCHANGED <<disk, open, platforms, loosened, devices>>

Insert(g, c) == ~Present(work, g) /\ Statement(InsertRow(work, g, c))
Delete(g)    == Present(work, g) /\ Statement(DeleteRow(work, g))

\* A write of the row or a diary entry's aggregate, or of a column that
\* games_library_rev_au watches: name, cover, release date, time to beat.
Update(g, c) == Present(work, g) /\ Statement(UpdateRow(work, g, c))

Commit ==
  /\ open
  /\ disk' = work
  /\ open' = FALSE
  /\ UNCHANGED <<work, platforms, loosened, devices>>

Rollback ==
  /\ open
  /\ work' = disk
  /\ open' = FALSE
  /\ UNCHANGED <<disk, platforms, loosened, devices>>

\* UpsertIGDBGame, a transaction of its own, writes the platforms too: with a
\* watched column that changes as well the row is stamped; when they change
\* alone it is not.
UpsertIGDBGame(g, c, p) ==
  LET stamps == Present(disk, g) /\ c # disk.content[g]
      alone  == Present(disk, g) /\ ~stamps /\ p # platforms[g]
  IN  /\ ~open
      /\ stamps => disk.rev < MaxRev
      /\ disk' = IF stamps THEN UpdateRow(disk, g, c) ELSE disk
      /\ work' = disk'
      /\ platforms' = [platforms EXCEPT ![g] = p]
      /\ loosened' = IF alone THEN [loosened EXCEPT ![g] = disk.stamp[g]] ELSE loosened
      /\ UNCHANGED <<open, devices>>

----------------------------------------------------------------------------
(* The readers.                                                            *)

\* notModified: the tag is computed first; a device that has it gets 304.
AskNotModified(d) ==
  /\ asked[d] = NoTag
  /\ etag[d] = Tag(disk.rev, at[d])
  /\ UNCHANGED vars

Ask(d) ==
  /\ asked[d] = NoTag
  /\ etag[d] # Tag(disk.rev, at[d])
  /\ asked' = [asked EXCEPT ![d] = Tag(disk.rev, at[d])]
  /\ UNCHANGED <<disk, work, open, platforms, loosened, copy, shown, at, etag>>

\* The platforms a device lists with that index applied.
Listing(d, idx) ==
  [g \in Games |-> IF g \in DOMAIN idx.items THEN platforms[g] ELSE shown[d][g]]

\* The index is read, answered and applied.
Answer(d) ==
  LET idx == Index(disk, at[d])
  IN  /\ asked[d] # NoTag
      /\ copy' = [copy EXCEPT ![d] = Apply(copy[d], idx)]
      /\ shown' = [shown EXCEPT ![d] = Listing(d, idx)]
      /\ at' = [at EXCEPT ![d] = idx.rev]
      /\ etag' = [etag EXCEPT ![d] = asked[d]]
      /\ asked' = [asked EXCEPT ![d] = NoTag]
      /\ UNCHANGED <<disk, work, open, platforms, loosened>>

\* The answer is lost: the device keeps what it had and asks again later.
Lose(d) ==
  /\ asked[d] # NoTag
  /\ asked' = [asked EXCEPT ![d] = NoTag]
  /\ UNCHANGED <<disk, work, open, platforms, loosened, copy, shown, at, etag>>

Next ==
  \/ BeginTx \/ Commit \/ Rollback
  \/ \E g \in Games : Delete(g) \/ \E c \in Contents : Insert(g, c) \/ Update(g, c)
  \/ \E g \in Games, c \in Contents, p \in Platforms : UpsertIGDBGame(g, c, p)
  \/ \E d \in Devices : AskNotModified(d) \/ Ask(d) \/ Answer(d) \/ Lose(d)

Spec == Init /\ [][Next]_vars
----------------------------------------------------------------------------
(* Properties.                                                             *)

\* Every variable holds values of its own shape.
TypeOK ==
  /\ disk \in Tables /\ work \in Tables /\ open \in BOOLEAN
  /\ platforms \in [Games -> Platforms] /\ loosened \in [Games -> Nat]
  /\ copy \in [Devices -> Library] /\ shown \in [Devices -> [Games -> Platforms]]
  /\ at \in [Devices -> Nat]
  /\ etag \in [Devices -> Tags] /\ asked \in [Devices -> Tags]

\* The platforms of a game in the library changed alone since its row was
\* stamped; those listed are the game's for every other one.
Loose(g) == disk.stamp[g] = loosened[g]
ListsRight(listed) == \A g \in Games : Present(disk, g) /\ ~Loose(g) => listed[g] = platforms[g]

\* Whatever a device missed, the delta from its own revision brings it to what
\* is committed: exactly in all that the triggers watch - no change is skipped,
\* nothing deleted lingers, nothing of an open transaction shows - and in the
\* platforms of every game that is not loose.  What a loose game's entry lists
\* stays old until something else stamps the row (index.go:54, migrate.go:371).
DeltaExact ==
  \A d \in Devices :
    LET idx == Index(disk, at[d])
    IN  Apply(copy[d], idx) = disk.content /\ ListsRight(Listing(d, idx))

\* "The client already has it" (api.go, notModified): a 304 is only ever
\* answered to a device whose copy is what is committed, but for the platforms
\* of loose games, although the tag and the index of an answer are read apart.
NotModifiedIsTrue ==
  \A d \in Devices :
    etag[d] = Tag(disk.rev, at[d]) => copy[d] = disk.content /\ ListsRight(shown[d])

\* Counters, stamps, tombstones and deltas together are one shared library: a
\* commit publishes all of its statements at once, a rollback none, and an
\* answered device shows exactly what was published at that moment, whatever
\* it had before.  A library is its entries without the platforms they list.
Shared == INSTANCE SharedLibrary
  WITH Libraries <- Library, Nothing <- EmptyLibrary, truth <- disk.content, seen <- copy
ImplementsShared == Shared!Spec

\* The two facts above need more to be inductive: what every device relies on
\* holds of the open transaction too, which covers what is committed, and a
\* tag that could match the next request names the revision the copy is at.
ContentInv ==
  /\ Stamped(disk) /\ Stamped(work) /\ disk.rev <= work.rev
  /\ ~open => work = disk
  /\ \A g \in Games : Covered(work, g, disk.rev, disk.content[g])
  /\ \A d \in Devices :
       /\ at[d] <= disk.rev
       /\ at[d] = 0 => copy[d] = EmptyLibrary
       /\ \A g \in Games : /\ Covered(disk, g, at[d], copy[d][g])
                           /\ Covered(work, g, at[d], copy[d][g])
       /\ etag[d].since = at[d] => etag[d].rev = at[d]
       /\ asked[d] # NoTag => asked[d].since = at[d] /\ at[d] <= asked[d].rev
                              /\ asked[d].rev <= disk.rev

\* What a device relies on of the platforms it lists; and a row that the open
\* transaction did not stamp is the committed one.
PlatformInv ==
  /\ \A d \in Devices, g \in Games :
       Present(disk, g) /\ ~Loose(g) => disk.stamp[g] > at[d] \/ shown[d][g] = platforms[g]
  /\ \A g \in Games : Present(work, g) =>
       work.stamp[g] > disk.rev \/ (Present(disk, g) /\ work.stamp[g] = disk.stamp[g])

RevInv == ContentInv /\ PlatformInv
=============================================================================
