------------------------------- MODULE People -------------------------------
(***************************************************************************)
(* Who sees what: profiles with a level, follows, blocks, reviews and      *)
(* lists with a level of their own, and every read that shows one person's *)
(* things to another.  Follow, like, report and their undoing are several  *)
(* statements, and others commit between them.                             *)
(***************************************************************************)
EXTENDS Requests

CONSTANTS
  Persons,
  MaxThings  \* bound: reviews and lists ever made

ASSUME PeopleAssumption == MaxThings \in Nat

VARIABLES
  level,     \* users.visibility
  disabled,  \* users.disabled
  follows,   \* <<follower, followee>> -> "", "pending" or "accepted"
  blocks,    \* pairs <<blocker, blocked>>
  things,    \* id -> review or list; ids are never reused
  likes,     \* pairs <<review, person>>
  inbox,     \* notifications: [to, kind, from]
  reports,   \* open reports: <<reporter, thing>>
  raced      \* history: follows under way when a block of the two came

peopleVars == <<level, disabled, follows, blocks, things, likes, inbox, reports, req, begun, raced>>

Levels == {"private", "followers", "instance"}
Pairs == {e \in Persons \X Persons : e[1] # e[2]}

Thing == [kind : {"review", "list"}, by : Persons, level : Levels \cup {"inherit"}, hidden : BOOLEAN]
Notice == [to : Persons, kind : {"follow_request", "follow", "follow_accepted", "like"}, from : Persons]

\* What a request has read when it stops.
Reading ==
  [op : {"follow"}, by : Persons, to : Persons, status : {"pending", "accepted"}]
  \cup [op : {"unnotify", "liked"}, by : Persons, to : Persons]
  \cup [op : {"like"}, by : Persons, id : 1..MaxThings, on : BOOLEAN]
  \cup [op : {"resolve"}, id : 1..MaxThings]

Unmade == [kind |-> "unmade"]
Deleted == [kind |-> "deleted"]
Things == {x \in 1..MaxThings : things[x] \notin {Unmade, Deleted}}
Reviews == {x \in Things : things[x].kind = "review"}
Lists == Things \ Reviews
Active == {p \in Persons : ~disabled[p]}
----------------------------------------------------------------------------
(* The rule, written twice in the code: in SQL and in Go.                  *)

Effective(lvl, owner) == IF lvl = "inherit" THEN level[owner] ELSE lvl
BlockedEitherWay(a, b) == <<a, b>> \in blocks \/ <<b, a>> \in blocks
Follows(a, b) == a # b /\ follows[<<a, b>>] = "accepted"

\* Slip: only the owner's own blocks hide.
VisibleOneWay(viewer, owner, lvl) ==
  owner = viewer \/ /\ <<owner, viewer>> \notin blocks
                    /\ ~disabled[owner]
                    /\ lvl = "instance" \/ (lvl = "followers" /\ Follows(viewer, owner))

VisibleSQL(viewer, owner, lvl) ==
  owner = viewer \/ /\ {<<owner, viewer>>, <<viewer, owner>>} \cap blocks = {}
                    /\ ~disabled[owner]
                    /\ lvl = "instance" \/ (lvl = "followers" /\ Follows(viewer, owner))

CanSee(viewer, owner, lvl) ==
  IF viewer = owner THEN TRUE
  ELSE IF disabled[owner] \/ BlockedEitherWay(viewer, owner) THEN FALSE
  ELSE LET l == Effective(lvl, owner) IN l = "instance" \/ (l = "followers" /\ Follows(viewer, owner))

LevelOf(x) == Effective(things[x].level, things[x].by)

----------------------------------------------------------------------------
(* The reads.                                                              *)

\* reviews and listSummaries: a hidden one shows only to its author.
ReviewsShown(v) == {x \in Reviews : VisibleSQL(v, things[x].by, LevelOf(x)) /\ (things[x].hidden => things[x].by = v)}
ListsShown(v) == {x \in Lists : VisibleSQL(v, things[x].by, LevelOf(x)) /\ (things[x].hidden => things[x].by = v)}

\* The feed joins follows to activity: lines without and with a thing.
FeedOf(v) == {o \in Persons : Follows(v, o) /\ VisibleSQL(v, o, level[o])}
FeedThings(v) ==
  {x \in Things : /\ things[x].by \in FeedOf(v) /\ ~things[x].hidden
                  /\ VisibleSQL(v, things[x].by, LevelOf(x))}

\* The game page: friends with the game, the friend's review it names, and
\* the people whose ratings count.
Friends(v) ==
  {o \in Persons : Follows(v, o) /\ ~disabled[o] /\ level[o] \in {"followers", "instance"} /\ ~BlockedEitherWay(o, v)}
FriendReviews(v) ==
  {x \in Reviews : things[x].by \in Friends(v) /\ ~things[x].hidden /\ LevelOf(x) \in {"followers", "instance"}}
Community(v) == {o \in Persons : VisibleSQL(v, o, level[o])}

\* Profile: not found when disabled or when they block you; a card, or all.
ProfileFound(v, o) == ~disabled[o] /\ <<o, v>> \notin blocks
ProfileOpen(v, o) == ProfileFound(v, o) /\ CanSee(v, o, "inherit") /\ <<v, o>> \notin blocks

\* Found by the beginning of a name.
SearchPeople(v) ==
  {o \in Active \ {v} : ~BlockedEitherWay(o, v) /\
     (level[o] # "private" \/ follows[<<v, o>>] # "" \/ follows[<<o, v>>] # "")}

Inbox(v) == {n \in inbox : n.to = v /\ <<v, n.from>> \notin blocks}

----------------------------------------------------------------------------
(* Requests.                                                               *)

\* The handlers resolve the other person's name to an enabled account.
Target(v, t) == v \in Active /\ t \in Active /\ v # t

Notified(to, kind, from) == inbox' = IF to = from THEN inbox ELSE inbox \cup {[to |-> to, kind |-> kind, from |-> from]}

\* Follow: level, state and blocks are read before its transaction.
AskFollow(r, v, t) ==
  /\ Target(v, t) /\ ~BlockedEitherWay(v, t)
  /\ Begin(r, [op |-> "follow", by |-> v, to |-> t, status |-> IF level[t] = "instance" THEN "accepted" ELSE "pending"])
  /\ UNCHANGED <<level, disabled, follows, blocks, things, likes, inbox, reports, raced>>

Follow(r) ==
  LET q == req[r]
      e == <<q.by, q.to>>
  IN  /\ q.op = "follow"
      /\ IF follows[e] = ""
         THEN /\ follows' = [follows EXCEPT ![e] = q.status]
              /\ Notified(q.to, IF q.status = "pending" THEN "follow_request" ELSE "follow", q.by)
         ELSE UNCHANGED <<follows, inbox>>
      /\ End(r)
      /\ UNCHANGED <<level, disabled, blocks, things, likes, reports, raced>>

\* Unfollow and RemoveFollower: the follow goes, then its request's notice.
Unfollow(r, e) ==
  /\ e[1] \in Active /\ e[2] \in Active
  /\ Begin(r, [op |-> "unnotify", by |-> e[1], to |-> e[2]])
  /\ follows' = [follows EXCEPT ![e] = ""]
  /\ UNCHANGED <<level, disabled, blocks, things, likes, inbox, reports, raced>>

Unnotify(r) ==
  LET q == req[r]
  IN  /\ q.op = "unnotify"
      /\ inbox' = inbox \ {[to |-> q.to, kind |-> "follow_request", from |-> q.by]}
      /\ End(r)
      /\ UNCHANGED <<level, disabled, follows, blocks, things, likes, reports, raced>>

Accept(r, v, t) ==
  /\ Target(v, t) /\ follows[<<t, v>>] = "pending" /\ Once(r)
  /\ follows' = [follows EXCEPT ![<<t, v>>] = "accepted"]
  /\ inbox' = (inbox \ {[to |-> v, kind |-> "follow_request", from |-> t]})
              \cup {[to |-> t, kind |-> "follow_accepted", from |-> v]}
  /\ UNCHANGED <<level, disabled, blocks, things, likes, reports, raced>>

\* Slip: only the blocker stops following.
WithoutOwnEdge(a, b) == [follows EXCEPT ![<<a, b>>] = ""]

\* Block: one transaction ends what ties the two together.
WithoutEdges(a, b) == [follows EXCEPT ![<<a, b>>] = "", ![<<b, a>>] = ""]

Block(r, v, t) ==
  /\ Target(v, t) /\ Once(r)
  /\ blocks' = blocks \cup {<<v, t>>}
  /\ follows' = WithoutEdges(v, t)
  /\ inbox' = {n \in inbox : ~(n.to = v /\ n.from = t)}
  /\ likes' = {l \in likes : ~(l[2] = t /\ things[l[1]].by = v)}
  /\ raced' = raced \cup {e \in {<<v, t>>, <<t, v>>} : \E s \in Reqs : req[s].op = "follow" /\ <<req[s].by, req[s].to>> = e}
  /\ UNCHANGED <<level, disabled, things, reports>>

Unblock(r, v, t) ==
  /\ Target(v, t) /\ <<v, t>> \in blocks /\ Once(r)
  /\ blocks' = blocks \ {<<v, t>>}
  /\ UNCHANGED <<level, disabled, follows, things, likes, inbox, reports, raced>>

\* Opening up to the whole server accepts the waiting requests.
UpdateProfile(r, v, l) ==
  /\ v \in Active /\ Once(r)
  /\ level' = [level EXCEPT ![v] = l]
  /\ follows' = [e \in Pairs |-> IF l = "instance" /\ e[2] = v /\ follows[e] = "pending" THEN "accepted" ELSE follows[e]]
  /\ UNCHANGED <<disabled, blocks, things, likes, inbox, reports, raced>>

\* AdminEditUser, as far as it shows here.
SetDisabled(r, p) ==
  /\ Once(r)
  /\ disabled' = [disabled EXCEPT ![p] = ~@]
  /\ UNCHANGED <<level, follows, blocks, things, likes, inbox, reports, raced>>
----------------------------------------------------------------------------
(* Reviews and lists.                                                      *)

Create(r, v, kind, lvl) ==
  /\ v \in Active /\ Once(r)
  /\ \E x \in 1..MaxThings :
       /\ things[x] = Unmade /\ \A y \in 1..(x - 1) : things[y] # Unmade
       /\ things' = [things EXCEPT ![x] = [kind |-> kind, by |-> v, level |-> lvl, hidden |-> FALSE]]
  /\ UNCHANGED <<level, disabled, follows, blocks, likes, inbox, reports, raced>>

\* EditReview, EditList: only the owner's row is updated.
Edit(r, v, x, lvl) ==
  /\ v \in Active /\ things[x].by = v /\ Once(r)
  /\ things' = [things EXCEPT ![x].level = lvl]
  /\ UNCHANGED <<level, disabled, follows, blocks, likes, inbox, reports, raced>>

\* DeleteReview, DeleteList: the row, with its likes and feed lines; reports
\* of it keep its id.
DeletePost(r, v, x) ==
  /\ v \in Active /\ things[x].by = v /\ Once(r)
  /\ things' = [things EXCEPT ![x] = Deleted]
  /\ likes' = {l \in likes : l[1] # x}
  /\ UNCHANGED <<level, disabled, follows, blocks, inbox, reports, raced>>

\* Like: the review is read as the viewer sees it, liked, and told about.
AskLike(r, v, x, on) ==
  /\ v \in Active /\ x \in ReviewsShown(v) /\ ~things[x].hidden
  /\ Begin(r, [op |-> "like", by |-> v, id |-> x, on |-> on])
  /\ UNCHANGED <<level, disabled, follows, blocks, things, likes, inbox, reports, raced>>

Like(r) ==
  LET q == req[r]
      l == <<q.id, q.by>>
      new == q.on /\ l \notin likes /\ q.id \in Reviews
  IN  /\ q.op = "like"
      /\ likes' = IF new THEN likes \cup {l} ELSE IF q.on THEN likes ELSE likes \ {l}
      /\ IF new THEN Then(r, [op |-> "liked", by |-> q.by, to |-> things[q.id].by]) ELSE End(r)
      /\ UNCHANGED <<level, disabled, follows, blocks, things, inbox, reports, raced>>

TellLike(r) ==
  /\ req[r].op = "liked"
  /\ Notified(req[r].to, "like", req[r].by)
  /\ End(r)
  /\ UNCHANGED <<level, disabled, follows, blocks, things, likes, reports, raced>>

\* You can only report what you can see; an open report is not repeated.
Report(r, v, x) ==
  /\ v \in Active /\ x \in ReviewsShown(v) \cup ListsShown(v) /\ Once(r)
  /\ reports' = reports \cup {<<v, x>>}
  /\ UNCHANGED <<level, disabled, follows, blocks, things, likes, inbox, raced>>

SetHidden(r, x, hidden) ==
  /\ Once(r) /\ things[x].hidden # hidden
  /\ things' = [things EXCEPT ![x].hidden = hidden]
  /\ UNCHANGED <<level, disabled, follows, blocks, likes, inbox, reports, raced>>

\* ResolveReport hides if asked to, then closes every report about it.
HideReported(r, x, hide) ==
  /\ \E p \in Persons : <<p, x>> \in reports
  /\ hide => x \in Things
  /\ Begin(r, [op |-> "resolve", id |-> x])
  /\ things' = IF hide THEN [things EXCEPT ![x].hidden = TRUE] ELSE things
  /\ UNCHANGED <<level, disabled, follows, blocks, likes, inbox, reports, raced>>

ResolveReport(r) ==
  /\ req[r].op = "resolve"
  /\ reports' = {p \in reports : p[2] # req[r].id}
  /\ End(r)
  /\ UNCHANGED <<level, disabled, follows, blocks, things, likes, inbox, raced>>
----------------------------------------------------------------------------
PeopleInit ==
  /\ level \in [Persons -> {"followers", "instance"}]
  /\ disabled = [p \in Persons |-> FALSE]
  /\ follows = [e \in Pairs |-> ""]
  /\ blocks = {}
  /\ things = [x \in 1..MaxThings |-> Unmade]
  /\ likes = {} /\ inbox = {} /\ reports = {}
  /\ req = [r \in Reqs |-> Idle]
  /\ begun = 0 /\ raced = {}

NewRequest(r) ==
  \/ \E e \in Pairs :
       \/ AskFollow(r, e[1], e[2]) \/ Unfollow(r, e) \/ Accept(r, e[1], e[2])
       \/ Block(r, e[1], e[2]) \/ Unblock(r, e[1], e[2])
  \/ \E v \in Persons :
       \/ SetDisabled(r, v)
       \/ \E l \in Levels : UpdateProfile(r, v, l)
       \/ \E kind \in {"review", "list"}, l \in {"inherit", "instance"} : Create(r, v, kind, l)
       \/ \E x \in Things : Report(r, v, x) \/ DeletePost(r, v, x) \/ \E l \in Levels : Edit(r, v, x, l)
       \/ \E x \in Reviews, on \in BOOLEAN : AskLike(r, v, x, on)
  \/ \E h \in BOOLEAN : \E x \in Things : SetHidden(r, x, h)
  \/ \E h \in BOOLEAN, x \in 1..MaxThings : HideReported(r, x, h)

PeopleNext ==
  \E r \in Reqs :
    \/ Room(r) /\ NewRequest(r)
    \/ Follow(r) \/ Unnotify(r) \/ Like(r) \/ TellLike(r) \/ ResolveReport(r)

PeopleSpec == PeopleInit /\ [][PeopleNext]_peopleVars
----------------------------------------------------------------------------
(* Properties.                                                             *)

\* The tables hold values of their own shape, and no one is tied to oneself.
PeopleTypeOK ==
  /\ level \in [Persons -> Levels] /\ disabled \in [Persons -> BOOLEAN]
  /\ follows \in [Pairs -> {"", "pending", "accepted"}] /\ blocks \subseteq Pairs
  /\ things \in [1..MaxThings -> Thing \cup {Unmade, Deleted}]
  /\ likes \subseteq Reviews \X Persons /\ reports \subseteq Persons \X (1..MaxThings)
  /\ inbox \subseteq Notice /\ \A n \in inbox : n.from # n.to
  /\ req \in [Reqs -> Reading \cup {Idle}]
  /\ \A r \in Reqs : req[r].op \in {"follow", "unnotify"} => req[r].by # req[r].to
  /\ begun \in Nat /\ raced \subseteq Pairs

\* "Who may see what is decided in one place" (social.go): in every state the
\* graph can reach, each of the reads that have SQL of their own (reviews,
\* lists, feed, the game page, profiles, search) shows a viewer exactly what
\* the rule in Go allows, whatever was followed, blocked, hidden or disabled
\* in between.  (A profile is two things: its card, ProfileFound, which its own
\* blocker still gets, although Profile's comment says a block either way hides
\* it entirely; and the rest, which is what the rule is about.)
ReadsAgree ==
  \A v \in Active :
    /\ ReviewsShown(v) \cup ListsShown(v) =
         {x \in Things : CanSee(v, things[x].by, things[x].level) /\ (things[x].hidden => things[x].by = v)}
    /\ FeedThings(v) = {x \in Things : /\ Follows(v, things[x].by) /\ ~things[x].hidden
                                       /\ CanSee(v, things[x].by, "inherit") /\ CanSee(v, things[x].by, things[x].level)}
    /\ FeedOf(v) = Friends(v) /\ Friends(v) \subseteq Community(v)
    /\ FriendReviews(v) \subseteq ReviewsShown(v)
    /\ \A o \in Persons \ {v} :
         /\ (o \in Community(v)) = CanSee(v, o, "inherit")
         /\ ProfileOpen(v, o) = CanSee(v, o, "inherit")
         /\ o \in SearchPeople(v) => ProfileFound(v, o) /\ v \notin {b[2] : b \in {c \in blocks : c[1] = o}}

\* A block ends every tie and none comes back while it stands, neither by
\* accepting an old request nor by opening the profile.  Follow checks for a
\* block before its transaction: one under way when the block comes is the
\* only way to an edge across it.
BlockHolds ==
  \A e \in Pairs : BlockedEitherWay(e[1], e[2]) /\ e \notin raced => follows[e] = ""
=============================================================================
