------------------------------- MODULE Discover -------------------------------
(***************************************************************************)
(* Discover's catalog shelves, computed once for everybody and kept for a  *)
(* while: the requests that take them from the cache, computing them under *)
(* its lock when it is old, and the hourly job that computes them without  *)
(* the lock and puts them in afterwards.  Each request drops what is in    *)
(* the person's own library.                                               *)
(*                                                                         *)
(* One shelf stands for the six, and one person for all.  The shelves that *)
(* are read for the person alone come from one statement each.             *)
(***************************************************************************)
EXTENDS Integers, FiniteSets, FiniteSetsExt

CONSTANTS
  Games,
  Requests,    \* requests being served at once
  TTL,         \* shelfTTL: two hours
  Slow,        \* bound: how long computing the shelves takes at most
  MaxClock     \* bound: the clock

VARIABLES
  clock,
  catalog,     \* games a shelf would show now
  mine,        \* games in the person's library
  cache,       \* [items, at, read]: the kept shelves, stored when, read when
  lock,        \* the request that holds the cache's lock, or None
  asked,       \* request -> how far it is, and the shelf it shows when done
  refresh      \* the discover.refresh job

discoverVars == <<clock, catalog, mine, cache, lock, asked, refresh>>

None == "none"
Nothing == [items |-> {}, at |-> 0, read |-> 0]
Resting == [pc |-> "idle"]

\* Another process may compute for Slow at most.
Overdue(p) == "read" \in DOMAIN p /\ p.pc = "store" /\ clock - p.read >= Slow
----------------------------------------------------------------------------
(* A request.                                                              *)

\* Slip: an empty catalog is kept like any other.
StoreEmpty(p) == [items |-> p.items, at |-> clock, read |-> p.read]

\* Slip: what is kept is good for ever.
FreshForEver == cache.at # 0

\* catalogShelves, under the lock: something is kept, and not too old.
Fresh == cache.at # 0 /\ clock - cache.at < TTL

\* An empty catalog is not kept.
Store(p) == IF p.items = {} THEN cache ELSE [items |-> p.items, at |-> clock, read |-> p.read]

Ask(r) ==
  /\ asked[r].pc \in {"idle", "shown"} /\ lock = None
  /\ IF Fresh THEN /\ asked' = [asked EXCEPT ![r] = [pc |-> "mine", from |-> clock, items |-> cache.items, read |-> cache.read, at |-> clock]]
                   /\ UNCHANGED lock
     ELSE /\ asked' = [asked EXCEPT ![r] = [pc |-> "compute", from |-> clock]]
          /\ lock' = r
  /\ UNCHANGED <<clock, catalog, mine, cache, refresh>>

\* computeCatalogShelves.
Compute(r) ==
  /\ asked[r].pc = "compute"
  /\ asked' = [asked EXCEPT ![r] = [pc |-> "store", from |-> @.from, items |-> catalog, read |-> clock]]
  /\ UNCHANGED <<clock, catalog, mine, cache, lock, refresh>>

StoreShelves(r) ==
  /\ asked[r].pc = "store"
  /\ cache' = Store(asked[r]) /\ lock' = None
  /\ asked' = [asked EXCEPT ![r] = [pc |-> "mine", from |-> @.from, items |-> @.items, read |-> @.read, at |-> clock]]
  /\ UNCHANGED <<clock, catalog, mine, refresh>>

\* A query fails or the browser has gone: the request ends, and frees the lock.
GiveUp(r) ==
  /\ asked[r].pc \in {"compute", "store", "mine"}
  /\ lock' = IF lock = r THEN None ELSE lock
  /\ asked' = [asked EXCEPT ![r] = Resting]
  /\ UNCHANGED <<clock, catalog, mine, cache, refresh>>

\* libraryIDs and notIn.
Show(r) ==
  /\ asked[r].pc = "mine"
  /\ asked' = [asked EXCEPT ![r].pc = "shown", ![r].items = @ \ mine]
  /\ UNCHANGED <<clock, catalog, mine, cache, lock, refresh>>
----------------------------------------------------------------------------
(* RefreshShelves.                                                         *)

RefreshRead ==
  /\ refresh = Resting
  /\ refresh' = [pc |-> "store", items |-> catalog, read |-> clock]
  /\ UNCHANGED <<clock, catalog, mine, cache, lock, asked>>

RefreshStore ==
  /\ refresh.pc = "store" /\ lock = None
  /\ cache' = Store(refresh)
  /\ refresh' = Resting
  /\ UNCHANGED <<clock, catalog, mine, lock, asked>>
----------------------------------------------------------------------------
\* IGDB and the person go on meanwhile.
Change(games) == catalog' = games /\ UNCHANGED <<clock, mine, cache, lock, asked, refresh>>
Collect(games) == mine' = games /\ UNCHANGED <<clock, catalog, cache, lock, asked, refresh>>

Tick ==
  /\ clock < MaxClock
  /\ ~Overdue(refresh) /\ \A r \in Requests : ~Overdue(asked[r])
  /\ clock' = clock + 1
  /\ UNCHANGED <<catalog, mine, cache, lock, asked, refresh>>

DiscoverInit ==
  /\ clock = 1 /\ catalog = {} /\ mine = {} /\ cache = Nothing /\ lock = None
  /\ asked = [r \in Requests |-> Resting] /\ refresh = Resting

DiscoverNext ==
  \/ RefreshRead \/ RefreshStore \/ Tick
  \/ \E r \in Requests : Ask(r) \/ Compute(r) \/ StoreShelves(r) \/ GiveUp(r) \/ Show(r)
  \/ \E games \in SUBSET Games : Change(games) \/ Collect(games)
----------------------------------------------------------------------------
(* Properties.                                                             *)

DiscoverTypeOK ==
  /\ clock \in 1..MaxClock /\ catalog \subseteq Games /\ mine \subseteq Games
  /\ cache.items \subseteq Games /\ cache.read <= cache.at /\ cache.at <= clock
  /\ lock \in Requests \cup {None} /\ refresh.pc \in {"idle", "store"}
  /\ \A r \in Requests : asked[r].pc \in {"idle", "compute", "store", "mine", "shown"}

\* shelfTTL is "how old the catalog shelves may get": what a request takes was
\* read from the catalog less than that before, not counting the time that
\* computing it took, although the job may put older shelves over newer ones.
\* And an empty catalog "mustn't stick": a request takes nothing only when it
\* found the catalog empty itself.
ShelvesHold ==
  \A r \in Requests :
    asked[r].pc \in {"mine", "shown"} =>
      /\ asked[r].at - asked[r].read < TTL + Slow
      /\ asked[r].pc = "mine" /\ asked[r].items = {} => asked[r].read >= asked[r].from
----------------------------------------------------------------------------
(* What the steps preserve.                                                *)

Times == 0..MaxClock
Computing == [pc : {"compute"}, from : Times]
Storing   == [pc : {"store"}, from : Times, items : SUBSET Games, read : Times]
Taken     == [pc : {"mine", "shown"}, from : Times, items : SUBSET Games, read : Times, at : Times]
JobStores == [pc : {"store"}, items : SUBSET Games, read : Times]

\* Read, and not longer ago than computing takes.
Recent(read) == read <= clock /\ clock - read <= Slow

\* What is kept is not empty, and was not read long before it was stored.
DiscoverInv ==
  /\ clock \in 1..MaxClock /\ catalog \subseteq Games /\ mine \subseteq Games
  /\ cache \in [items : SUBSET Games, at : Times, read : Times]
  /\ cache.read <= cache.at /\ cache.at <= clock /\ cache.at - cache.read <= Slow
  /\ cache.at # 0 => cache.items # {}
  /\ lock \in Requests \cup {None}
  /\ refresh \in {Resting} \cup JobStores
  /\ refresh.pc = "store" => Recent(refresh.read)
  /\ asked \in [Requests -> {Resting} \cup Computing \cup Storing \cup Taken]
  /\ \A r \in Requests :
       /\ asked[r].pc \in {"compute", "store"} => asked[r].from <= clock
       /\ asked[r].pc = "store" => Recent(asked[r].read) /\ asked[r].from <= asked[r].read
  /\ ShelvesHold
=============================================================================
