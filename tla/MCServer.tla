------------------------------ MODULE MCServer ------------------------------
(***************************************************************************)
(* TLC instance of the library's readers and writer and of the parts of    *)
(* the server that serve people.  These parts share no state and each      *)
(* behaviour is of one of them: `part` says which.  The library, accounts, *)
(* people and passkeys have their own variables; v1 to v8 are those of     *)
(* any other part.  What a part does not need stays as it is.  The bounds  *)
(* are the numbers given to the instances.                                 *)
(***************************************************************************)
EXTENDS LibraryRev, Accounts, People, Passkeys, TLC

CONSTANT Parts   \* the parts to check

VARIABLES part, v1, v2, v3, v4, v5, v6, v7, v8

pool == <<v1, v2, v3, v4, v5, v6, v7, v8>>

F == INSTANCE Feed
  WITH Limits <- {1, 2}, RawFactor <- 4, Groups <- {"a"}, Singles <- {"s"},
       MaxRows <- 5, MaxHidden <- 1,
       rows <- v1, hidden <- v2, missed <- v3, lines <- v4, limit <- v5, cursor <- v6, top <- v7
L == INSTANCE Lists
  WITH Games <- {1, 2, 3}, Devices <- {"d", "e"}, MaxListItems <- 2, MaxEdits <- 4,
       listed <- v1, lines <- v2, seen <- v3, removing <- v4, open <- v5, edits <- v6,
       wish <- v7, raced <- v8
G == INSTANCE Paging
  WITH Games <- {1, 2, 3}, Limit <- 1, MaxSecond <- 2, MaxWrites <- 3,
       rows <- v1, now <- v2, writes <- v3, page <- v4, total <- v5, touched <- v6, first <- v7
C == INSTANCE Custom
  WITH Games <- {1, 2, 3}, Customs <- {2, 3}, Days <- {1}, MaxSession <- 2, MaxEntries <- 3,
       MaxRuns <- 2, rows <- v1, library <- v2, logged <- v3
S == INSTANCE Search
  WITH Games <- {1, 2, 3}, Limit <- 1, MaxPages <- 3,
       games <- v1, shown <- v2, totals <- v3, pages <- v4
----------------------------------------------------------------------------
(* A running server: its founder, one who came by an invite, and both's    *)
(* sessions.                                                               *)
TwoAccounts ==
  /\ \E a \in BOOLEAN :
       users = ("p" :> [id |-> 1, pass |-> 1, google |-> FALSE, admin |-> TRUE, disabled |-> FALSE, invite |-> 0] @@
                "q" :> [id |-> 2, pass |-> 2, google |-> FALSE, admin |-> a, disabled |-> FALSE, invite |-> 1] @@
                "n" :> None)
  /\ sessions = {[n |-> i, id |-> i, pass |-> i, expired |-> FALSE] : i \in {1, 2}}
  /\ invites = {[n |-> 1, by |-> 1, usedBy |-> 2, used |-> TRUE, revoked |-> FALSE, expired |-> FALSE]}
  /\ resets = {} /\ inviteFollows = {<<1, 2>>, <<2, 1>>} /\ override = ""
  /\ made = ("id" :> 2 @@ "pass" :> 2 @@ "session" :> 2 @@ "invite" :> 1 @@ "reset" :> 0)
  /\ req = [r \in Reqs |-> Idle] /\ begun = 0 /\ wasOpen = FALSE

\* Two people who follow each other or not, one of them with a review or list.
TwoPeople ==
  /\ level \in [Persons -> {"followers", "instance"}]
  /\ disabled = [x \in Persons |-> FALSE]
  /\ follows \in [Pairs -> {"", "pending", "accepted"}]
  /\ \A e \in Pairs : follows[e] = "pending" => level[e[2]] # "instance"
  /\ blocks = {} /\ likes = {} /\ reports = {} /\ raced = {}
  /\ \E kind \in {"review", "list"} :
       things = [x \in {1} |-> [kind |-> kind, by |-> "p", level |-> "inherit", hidden |-> FALSE]]
  /\ inbox = {[to |-> e[2], kind |-> "follow_request", from |-> e[1]] : e \in {f \in Pairs : follows[f] = "pending"}}
  /\ req = [r \in Reqs |-> Idle] /\ begun = 0

\* Two games of any kind, which may change places, and a third one that the
\* query names or does not match.
Catalogs ==
  LET kinds == <<"prefix", "word", "inner", "words", "no">>
  IN  {f @@ (3 :> [name |-> n, alias |-> "no", parent |-> 0, popular |-> TRUE, fits |-> TRUE]) :
         f \in {h \in [{1, 2} -> S!GameType] :
                  /\ h[1].parent \in {0, 2} /\ h[2].parent \in {0, 1}
                  /\ \E i \in 1..5 : \E j \in i..5 : h[1].name = kinds[i] /\ h[2].name = kinds[j]},
         n \in {"prefix", "no"}}

\* The variables after the k-th, which belong to no one.
Spare7  == <<v8>>
Spare4  == <<v5, v6, v7, Spare7>>
Spare3  == <<v4, Spare4>>

Unused7 == v8 = 0
Unused4 == v5 = 0 /\ v6 = 0 /\ v7 = 0 /\ Unused7
Unused3 == v4 = 0 /\ Unused4
Unused0 == v1 = 0 /\ v2 = 0 /\ v3 = 0 /\ Unused3

ServerInit ==
  /\ Init /\ part \in Parts
  /\ IF part = "accounts" THEN AccountsInit \/ TwoAccounts ELSE AccountsInit
  /\ IF part = "people" THEN PeopleInit \/ TwoPeople
     ELSE PeopleInit /\ level = [x \in Persons |-> "instance"]
  /\ IF part = "passkeys" THEN PasskeysInit ELSE PasskeysInit /\ stored = NoKey
  /\ CASE part \in {"library", "accounts", "people", "passkeys"} -> Unused0
       [] part = "feed"     -> F!FeedInit /\ Unused7
       [] part = "lists"    -> L!ListsInit
       [] part = "paging"   -> G!PagingInit /\ Unused7
       [] part = "custom"   -> C!CustomInit /\ Unused3
       [] part = "search"   -> v1 \in Catalogs /\ S!SearchBegins /\ Unused4

\* The library's, the accounts', the people's and the passkeys' variables.
social == <<level, disabled, follows, blocks, things, likes, inbox, reports, raced>>
identity == <<users, sessions, invites, resets, inviteFollows, override, made, wasOpen>>
requests == <<req, begun>>
own == <<vars, identity, social, requests, passkeysVars>>

\* A step of one of the other parts alone.
StepOf(p) == part = p /\ UNCHANGED <<own, part>>

ServerNext ==
  \/ part = "library" /\ Next /\ UNCHANGED <<identity, social, requests, passkeysVars, part, pool>>
  \/ part = "accounts" /\ AccountsNext /\ UNCHANGED <<vars, social, passkeysVars, part, pool>>
  \/ part = "people" /\ PeopleNext /\ UNCHANGED <<vars, identity, passkeysVars, part, pool>>
  \/ part = "passkeys" /\ PasskeysNext /\ UNCHANGED <<vars, identity, social, requests, part, pool>>
  \/ StepOf("feed") /\ F!FeedNext /\ UNCHANGED Spare7
  \/ StepOf("lists") /\ L!ListsNext
  \/ StepOf("paging") /\ G!PagingNext /\ UNCHANGED Spare7
  \/ StepOf("custom") /\ C!CustomNext /\ UNCHANGED Spare3
  \/ StepOf("search") /\ S!SearchNext /\ UNCHANGED Spare4

ServerSpec == ServerInit /\ [][ServerNext]_<<own, part, pool>>

\* Contents and platforms are compared for equality only.
Alike == Permutations(Contents) \cup Permutations(Platforms)
----------------------------------------------------------------------------
(* Properties: each part's own.  Those of the library, accounts, people    *)
(* and passkeys are in their modules.                                      *)

\* Every part's variables hold values of their own shape.
TypesOK ==
  CASE part = "library"  -> TypeOK
    [] part = "accounts" -> AccountsTypeOK
    [] part = "people"   -> PeopleTypeOK
    [] part = "feed"     -> F!FeedTypeOK
    [] part = "lists"    -> L!ListsTypeOK
    [] part = "passkeys" -> PasskeysTypeOK
    [] part = "paging"   -> G!PagingTypeOK
    [] part = "custom"   -> C!CustomTypeOK
    [] part = "search"   -> S!SearchTypeOK

\* What is read in pages, kept in an order or moved is complete: the feed
\* shows each activity once, the library's pages each game, a search's pages
\* each match that ties with no other, a list keeps the order it was given, and
\* the merge of a custom game into the catalog's leaves no run or diary entry.
NothingIsMissing ==
  /\ part = "feed" => F!FeedOnce
  /\ part = "paging" => G!PagesCover
  /\ part = "search" => S!PagesAddUp
  /\ part = "lists" => L!ListHolds
  /\ part = "custom" => C!MergeKeepsJournal

=============================================================================
