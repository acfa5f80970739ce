---------------------------- MODULE PeopleProofs ----------------------------
(***************************************************************************)
(* Who sees what is one rule, and a block ends every tie, for any number   *)
(* of people, things and requests served at once.                          *)
(***************************************************************************)
EXTENDS People, TLAPS

----------------------------------------------------------------------------
(* Type correctness.                                                       *)

LEMMA PeopleTypeInit == PeopleInit => PeopleTypeOK
  <1>. SUFFICES ASSUME PeopleInit PROVE PeopleTypeOK
    OBVIOUS
  <1>1. \A r \in Reqs : req[r].op = "idle"
    BY DEF PeopleInit, Idle
  <1>2. {"followers", "instance"} \subseteq Levels
    BY DEF Levels
  <1>. QED  BY <1>1, <1>2 DEF PeopleInit, PeopleTypeOK

\* The rows of things.
LEMMA ThingRows ==
  ASSUME PeopleTypeOK
  PROVE  /\ \A x \in Things : x \in 1..MaxThings /\ things[x] \in Thing
         /\ \A x \in 1..MaxThings : things[x] \in Thing => x \in Things
         /\ \A x \in Things : things[x].by \in Persons /\ things[x].hidden \in BOOLEAN
                              /\ things[x].level \in Levels \cup {"inherit"}
         /\ Reviews \subseteq Things /\ Lists \subseteq Things
         /\ \A x \in Reviews : things[x].kind = "review"
  <1>1. \A x \in Things : x \in 1..MaxThings /\ things[x] \in Thing
    BY DEF PeopleTypeOK, Things
  <1>2. \A t \in Thing : t.kind \in {"review", "list"} /\ t.by \in Persons /\ t.hidden \in BOOLEAN
                         /\ t.level \in Levels \cup {"inherit"}
    BY DEF Thing
  <1>3. Unmade \notin Thing /\ Deleted \notin Thing
    BY <1>2 DEF Unmade, Deleted
  <1>4. \A x \in 1..MaxThings : things[x] \in Thing => x \in Things
    BY <1>3 DEF Things
  <1>5. Reviews \subseteq Things /\ Lists \subseteq Things /\ \A x \in Reviews : things[x].kind = "review"
    BY DEF Reviews, Lists
  <1>. QED  BY <1>1, <1>2, <1>4, <1>5

\* What a request has read.
LEMMA ReadingFields ==
  ASSUME PeopleTypeOK, NEW r \in Reqs
  PROVE  /\ req[r].op \in {"follow", "unnotify"} => <<req[r].by, req[r].to>> \in Pairs
         /\ req[r].op \in {"follow", "unnotify", "liked"} => req[r].by \in Persons /\ req[r].to \in Persons
         /\ req[r].op = "follow" => req[r].status \in {"pending", "accepted"}
         /\ req[r].op = "like" => req[r].by \in Persons /\ req[r].id \in 1..MaxThings /\ req[r].on \in BOOLEAN
         /\ req[r].op = "resolve" => req[r].id \in 1..MaxThings
  <1>1. req[r] \in Reading \cup {Idle} /\ (req[r].op \in {"follow", "unnotify"} => req[r].by # req[r].to)
    BY DEF PeopleTypeOK
  <1>. QED  BY <1>1 DEF Reading, Idle, Pairs

\* Both ends of the request's life keep its type.
ReqType ==
  /\ req \in [Reqs -> Reading \cup {Idle}] /\ begun \in Nat
  /\ \A r \in Reqs : req[r].op \in {"follow", "unnotify"} => req[r].by # req[r].to

LEMMA RequestSteps ==
  ASSUME PeopleTypeOK, NEW r \in Reqs
  PROVE  /\ \A what \in Reading :
              /\ what.op \in {"follow", "unnotify"} => what.by # what.to
              /\ Begin(r, what) \/ Then(r, what)
              => ReqType'
         /\ End(r) \/ Once(r) => ReqType'
  <1>1. ReqType
    BY DEF PeopleTypeOK, ReqType
  <1>2. ASSUME NEW what \in Reading \cup {Idle}, what.op \in {"follow", "unnotify"} => what.by # what.to,
               Begin(r, what) \/ Then(r, what)
        PROVE  ReqType'
    BY <1>1, <1>2 DEF ReqType, Begin, Then
  <1>3. Idle.op = "idle"
    BY DEF Idle
  <1>4. End(r) => ReqType'
    BY <1>2, <1>3 DEF End
  <1>5. Once(r) => ReqType'
    BY <1>1 DEF ReqType, Once
  <1>. QED  BY <1>2, <1>4, <1>5

\* Steps of a request that leave its tables alone.
TablesOK ==
  /\ level \in [Persons -> Levels] /\ disabled \in [Persons -> BOOLEAN]
  /\ follows \in [Pairs -> {"", "pending", "accepted"}] /\ blocks \subseteq Pairs
  /\ inbox \subseteq Notice /\ (\A n \in inbox : n.from # n.to) /\ raced \subseteq Pairs
ThingsOK ==
  /\ things \in [1..MaxThings -> Thing \cup {Unmade, Deleted}]
  /\ likes \subseteq Reviews \X Persons /\ reports \subseteq Persons \X (1..MaxThings)

LEMMA Notices ==
  ASSUME NEW to \in Persons, NEW from \in Persons, NEW kind \in {"follow_request", "follow", "follow_accepted", "like"},
         inbox \subseteq Notice, \A n \in inbox : n.from # n.to
  PROVE  /\ Notified(to, kind, from) => inbox' \subseteq Notice /\ \A n \in inbox' : n.from # n.to
         /\ [to |-> to, kind |-> kind, from |-> from] \in Notice
  BY DEF Notified, Notice

LEMMA PeopleTypeStep ==
  ASSUME PeopleTypeOK, [PeopleNext]_peopleVars
  PROVE  PeopleTypeOK'
  <1>0. TablesOK /\ ThingsOK /\ ReqType
    BY DEF PeopleTypeOK, TablesOK, ThingsOK, ReqType
  <1>z. TablesOK' /\ ThingsOK' /\ ReqType' => PeopleTypeOK'
    BY DEF PeopleTypeOK, TablesOK, ThingsOK, ReqType
  <1>t. UNCHANGED <<level, disabled, follows, blocks, inbox, raced>> => TablesOK'
    BY <1>0 DEF TablesOK
  <1>h. UNCHANGED <<things, likes, reports>> => ThingsOK'
    BY <1>0 DEF ThingsOK, Reviews, Things
  <1>p. \A e \in Pairs : e[1] \in Persons /\ e[2] \in Persons /\ e[1] # e[2] /\ <<e[1], e[2]>> = e
                         /\ <<e[2], e[1]>> \in Pairs /\ <<e[1], e[2]>> \in Pairs
    BY DEF Pairs
  \* One row of things is written; who likes what stays so.
  <1>w. ASSUME NEW x \in 1..MaxThings, NEW row \in Thing \cup {Unmade, Deleted},
               things' = [things EXCEPT ![x] = row],
               likes' \subseteq likes, UNCHANGED reports,
               (row \in Thing /\ row.kind = "review") \/ \A l \in likes' : l[1] # x
        PROVE  ThingsOK'
    <2>1. things \in [1..MaxThings -> Thing \cup {Unmade, Deleted}]
      BY <1>0 DEF ThingsOK
    <2>2. \A y \in Reviews \ {x} : y \in Reviews'
      BY <1>w, <2>1 DEF Reviews, Things
    <2>3. row \in Thing /\ row.kind = "review" => x \in Reviews'
      <3>1. Unmade \notin Thing /\ Deleted \notin Thing
        BY DEF Unmade, Deleted, Thing
      <3>. QED  BY <1>w, <2>1, <3>1 DEF Reviews, Things
    <2>4. likes' \subseteq Reviews' \X Persons
      BY <1>0, <1>w, <2>2, <2>3 DEF ThingsOK
    <2>. QED  BY <1>0, <1>w, <2>1, <2>4 DEF ThingsOK
  <1>1. ASSUME NEW r \in Reqs, NEW e \in Pairs, AskFollow(r, e[1], e[2]) \/ Unfollow(r, e) PROVE PeopleTypeOK'
    <2>1. CASE AskFollow(r, e[1], e[2])
      <3> DEFINE status == IF level[e[2]] = "instance" THEN "accepted" ELSE "pending"
                 what == [op |-> "follow", by |-> e[1], to |-> e[2], status |-> status]
      <3>1. what \in Reading /\ what.by # what.to
        BY <1>p DEF Reading
      <3>2. Begin(r, what)
        BY <2>1 DEF AskFollow
      <3> HIDE DEF what
      <3>3. ReqType'
        BY <3>1, <3>2, RequestSteps
      <3>. QED  BY <1>t, <1>h, <2>1, <3>3, <1>z DEF AskFollow
    <2>2. CASE Unfollow(r, e)
      <3> DEFINE what == [op |-> "unnotify", by |-> e[1], to |-> e[2]]
      <3>1. what \in Reading /\ what.by # what.to
        BY <1>p DEF Reading
      <3>2. Begin(r, what)
        BY <2>2 DEF Unfollow
      <3> HIDE DEF what
      <3>3. ReqType'
        BY <3>1, <3>2, RequestSteps
      <3>4. TablesOK'
        BY <1>0, <2>2 DEF Unfollow, TablesOK
      <3>. QED  BY <1>h, <2>2, <3>3, <3>4, <1>z DEF Unfollow
    <2>. QED  BY <1>1, <2>1, <2>2
  <1>2. ASSUME NEW r \in Reqs, NEW e \in Pairs,
               Accept(r, e[1], e[2]) \/ Block(r, e[1], e[2]) \/ Unblock(r, e[1], e[2])
        PROVE  PeopleTypeOK'
    <2>1. ReqType'
      BY <1>2, RequestSteps DEF Accept, Block, Unblock
    <2>2. CASE Accept(r, e[1], e[2])
      <3>1. [to |-> e[2], kind |-> "follow_accepted", from |-> e[1]] \in Notice
        BY <1>p DEF Notice
      <3>2. inbox' \subseteq Notice /\ \A n \in inbox' : n.from # n.to
        <4> DEFINE new == [to |-> e[2], kind |-> "follow_accepted", from |-> e[1]]
        <4>1. new \in Notice /\ new.from # new.to
          BY <1>p, <3>1
        <4>2. inbox' \subseteq inbox \cup {new}
          BY <2>2 DEF Accept
        <4> HIDE DEF new
        <4>. QED  BY <1>0, <4>1, <4>2 DEF TablesOK
      <3>3. follows' \in [Pairs -> {"", "pending", "accepted"}]
        BY <1>0, <2>2 DEF Accept, TablesOK
      <3>4. TablesOK'
        BY <1>0, <2>2, <3>2, <3>3 DEF Accept, TablesOK
      <3>. QED  BY <1>h, <2>1, <2>2, <3>4, <1>z DEF Accept
    <2>3. CASE Block(r, e[1], e[2])
      <3>1. follows' \in [Pairs -> {"", "pending", "accepted"}]
        BY <1>0, <2>3 DEF Block, WithoutEdges, TablesOK
      <3>2. blocks' \subseteq Pairs /\ raced' \subseteq Pairs
        BY <1>0, <1>p, <2>3 DEF Block, TablesOK
      <3>3. TablesOK'
        BY <1>0, <2>3, <3>1, <3>2 DEF Block, TablesOK
      <3>4. ThingsOK'
        BY <1>0, <2>3 DEF Block, ThingsOK, Reviews, Things
      <3>. QED  BY <2>1, <3>3, <3>4, <1>z
    <2>4. CASE Unblock(r, e[1], e[2])
      <3>1. TablesOK'
        BY <1>0, <2>4 DEF Unblock, TablesOK
      <3>. QED  BY <1>h, <2>1, <2>4, <3>1, <1>z DEF Unblock
    <2>. QED  BY <1>2, <2>2, <2>3, <2>4
  <1>3. ASSUME NEW r \in Reqs, NEW v \in Persons,
               SetDisabled(r, v) \/ \E l \in Levels : UpdateProfile(r, v, l)
        PROVE  PeopleTypeOK'
    <2>1. ReqType'
      BY <1>3, RequestSteps DEF SetDisabled, UpdateProfile
    <2>2. TablesOK'
      BY <1>0, <1>3 DEF SetDisabled, UpdateProfile, TablesOK
    <2>. QED  BY <1>h, <1>3, <2>1, <2>2, <1>z DEF SetDisabled, UpdateProfile
  <1>4. ASSUME NEW r \in Reqs, NEW v \in Persons, NEW kind \in {"review", "list"}, NEW l \in {"inherit", "instance"},
               Create(r, v, kind, l)
        PROVE  PeopleTypeOK'
    <2>1. PICK x \in 1..MaxThings :
            things[x] = Unmade /\ things' = [things EXCEPT ![x] = [kind |-> kind, by |-> v, level |-> l, hidden |-> FALSE]]
      BY <1>4 DEF Create
    <2>2. [kind |-> kind, by |-> v, level |-> l, hidden |-> FALSE] \in Thing
      BY DEF Thing, Levels
    <2>3. \A y \in likes : y[1] # x
      BY <1>0, <2>1 DEF ThingsOK, Reviews, Things
    <2>4. ThingsOK'
      BY <1>4, <1>w, <2>1, <2>2, <2>3 DEF Create
    <2>5. ReqType'
      BY <1>4, RequestSteps DEF Create
    <2>. QED  BY <1>4, <1>t, <2>4, <2>5, <1>z DEF Create
  \* A review or list keeps its kind.
  <1>e. ASSUME NEW x \in Things, NEW row \in Thing, row.kind = things[x].kind,
               things' = [things EXCEPT ![x] = row], UNCHANGED <<likes, reports>>
        PROVE  ThingsOK'
    <2>1. x \in 1..MaxThings /\ (row.kind = "review" \/ x \notin Reviews)
      BY <1>e, ThingRows
    <2>2. \A y \in likes : y[1] \in Reviews
      BY <1>0 DEF ThingsOK
    <2>. QED  BY <1>e, <1>w, <2>1, <2>2
  <1>f. \A t \in Thing : /\ \A l \in Levels : [t EXCEPT !.level = l] \in Thing /\ [t EXCEPT !.level = l].kind = t.kind
                         /\ \A h \in BOOLEAN : [t EXCEPT !.hidden = h] \in Thing /\ [t EXCEPT !.hidden = h].kind = t.kind
    BY DEF Thing
  <1>5. ASSUME NEW r \in Reqs, NEW v \in Persons, NEW x \in Things, NEW l \in Levels,
               Report(r, v, x) \/ DeletePost(r, v, x) \/ Edit(r, v, x, l)
        PROVE  PeopleTypeOK'
    <2>1. ReqType'
      BY <1>5, RequestSteps DEF Report, DeletePost, Edit
    <2>2. TablesOK'
      BY <1>5, <1>t DEF Report, DeletePost, Edit
    <2>3. CASE Report(r, v, x)
      BY <1>0, <1>z, <2>1, <2>2, <2>3, ThingRows DEF Report, ThingsOK, Reviews, Things
    <2>4. CASE DeletePost(r, v, x)
      <3>1. x \in 1..MaxThings /\ \A y \in likes' : y[1] # x
        BY <2>4, ThingRows DEF DeletePost
      <3>2. ThingsOK'
        BY <1>w, <2>4, <3>1 DEF DeletePost
      <3>. QED  BY <1>z, <2>1, <2>2, <3>2
    <2>5. CASE Edit(r, v, x, l)
      <3>1. things[x] \in Thing
        BY ThingRows
      <3>2. PICK row \in Thing : row = [things[x] EXCEPT !.level = l] /\ row.kind = things[x].kind
        BY <1>f, <3>1
      <3>3. ThingsOK'
        BY <1>e, <2>5, <3>2 DEF Edit
      <3>. QED  BY <1>z, <2>1, <2>2, <3>3
    <2>. QED  BY <1>5, <2>3, <2>4, <2>5
  <1>6. ASSUME NEW r \in Reqs, NEW v \in Persons, NEW x \in Reviews, NEW on \in BOOLEAN, AskLike(r, v, x, on)
        PROVE  PeopleTypeOK'
    <2> DEFINE what == [op |-> "like", by |-> v, id |-> x, on |-> on]
    <2>1. what \in Reading /\ what.op = "like" /\ Begin(r, what)
      BY <1>6, ThingRows DEF AskLike, Reading
    <2> HIDE DEF what
    <2>2. ReqType'
      BY <2>1, RequestSteps
    <2>. QED  BY <1>6, <1>h, <1>t, <1>z, <2>2 DEF AskLike
  <1>7. ASSUME NEW r \in Reqs, NEW h \in BOOLEAN, NEW x \in Things, SetHidden(r, x, h)
        PROVE  PeopleTypeOK'
    <2>1. ReqType'
      BY <1>7, RequestSteps DEF SetHidden
    <2>2. things[x] \in Thing
      BY ThingRows
    <2>3. PICK row \in Thing : row = [things[x] EXCEPT !.hidden = h] /\ row.kind = things[x].kind
      BY <1>f, <2>2
    <2>4. ThingsOK'
      BY <1>e, <1>7, <2>3 DEF SetHidden
    <2>. QED  BY <1>7, <1>t, <1>z, <2>1, <2>4 DEF SetHidden
  <1>8. ASSUME NEW r \in Reqs, NEW h \in BOOLEAN, NEW x \in 1..MaxThings, HideReported(r, x, h)
        PROVE  PeopleTypeOK'
    <2>1. ReqType'
      <3> DEFINE what == [op |-> "resolve", id |-> x]
      <3>1. what \in Reading /\ what.op = "resolve" /\ Begin(r, what)
        BY <1>8 DEF HideReported, Reading
      <3> HIDE DEF what
      <3>. QED  BY <3>1, RequestSteps
    <2>2. ThingsOK'
      <3>1. CASE ~h
        BY <1>8, <1>h, <3>1 DEF HideReported
      <3>2. CASE h
        <4>1. x \in Things /\ things[x] \in Thing
          BY <1>8, <3>2, ThingRows DEF HideReported
        <4>2. PICK row \in Thing : row = [things[x] EXCEPT !.hidden = TRUE] /\ row.kind = things[x].kind
          BY <1>f, <4>1
        <4>. QED  BY <1>8, <1>e, <3>2, <4>1, <4>2 DEF HideReported
      <3>. QED  BY <3>1, <3>2
    <2>. QED  BY <1>8, <1>t, <1>z, <2>1, <2>2 DEF HideReported
  <1>9. ASSUME NEW r \in Reqs, Follow(r) PROVE PeopleTypeOK'
    <2> DEFINE q == req[r]
               kind == IF q.status = "pending" THEN "follow_request" ELSE "follow"
    <2>1. <<q.by, q.to>> \in Pairs /\ q.by \in Persons /\ q.to \in Persons /\ q.status \in {"pending", "accepted"}
      BY <1>9, ReadingFields DEF Follow
    <2>2. ReqType'
      BY <1>9, RequestSteps DEF Follow
    <2>3. UNCHANGED inbox \/ Notified(q.to, kind, q.by)
      BY <1>9 DEF Follow
    <2>4. inbox' \subseteq Notice /\ \A n \in inbox' : n.from # n.to
      BY <1>0, <2>1, <2>3, Notices DEF TablesOK
    <2>5. follows' \in [Pairs -> {"", "pending", "accepted"}]
      BY <1>0, <1>9, <2>1 DEF Follow, TablesOK
    <2>6. TablesOK'
      BY <1>0, <1>9, <2>4, <2>5 DEF Follow, TablesOK
    <2>. QED  BY <1>9, <1>h, <1>z, <2>2, <2>6 DEF Follow
  <1>10. ASSUME NEW r \in Reqs, Unnotify(r) \/ ResolveReport(r) PROVE PeopleTypeOK'
    <2>1. ReqType'
      BY <1>10, RequestSteps DEF Unnotify, ResolveReport
    <2>2. TablesOK' /\ ThingsOK'
      BY <1>0, <1>10 DEF Unnotify, ResolveReport, TablesOK, ThingsOK, Reviews, Things
    <2>. QED  BY <1>z, <2>1, <2>2
  <1>11. ASSUME NEW r \in Reqs, Like(r) PROVE PeopleTypeOK'
    <2> DEFINE q == req[r]
               l == <<q.id, q.by>>
    <2>1. q.by \in Persons /\ q.id \in 1..MaxThings
      BY <1>11, ReadingFields DEF Like
    <2>2. (q.id \in Reviews /\ Then(r, [op |-> "liked", by |-> q.by, to |-> things[q.id].by])) \/ End(r)
      BY <1>11 DEF Like
    <2>3. ReqType'
      <3>1. CASE End(r)
        BY <3>1, RequestSteps
      <3>2. CASE q.id \in Reviews /\ Then(r, [op |-> "liked", by |-> q.by, to |-> things[q.id].by])
        <4> DEFINE what == [op |-> "liked", by |-> q.by, to |-> things[q.id].by]
        <4>1. what \in Reading /\ what.op = "liked"
          BY <2>1, <3>2, ThingRows DEF Reading
        <4> HIDE DEF what
        <4>. QED  BY <3>2, <4>1, RequestSteps DEF what
      <3>. QED  BY <2>2, <3>1, <3>2
    <2>4. \A y \in likes' : y \in likes \/ (y = l /\ q.id \in Reviews)
      BY <1>11 DEF Like
    <2>5. ThingsOK'
      BY <1>0, <1>11, <2>1, <2>4 DEF Like, ThingsOK, Reviews, Things
    <2>. QED  BY <1>11, <1>t, <1>z, <2>3, <2>5 DEF Like
  <1>12. ASSUME NEW r \in Reqs, TellLike(r) PROVE PeopleTypeOK'
    <2>1. req[r].to \in Persons /\ req[r].by \in Persons
      BY <1>12, ReadingFields DEF TellLike
    <2>2. ReqType'
      BY <1>12, RequestSteps DEF TellLike
    <2>3. inbox' \subseteq Notice /\ \A n \in inbox' : n.from # n.to
      BY <1>0, <1>12, <2>1, Notices DEF TellLike, TablesOK
    <2>4. TablesOK'
      BY <1>0, <1>12, <2>3 DEF TellLike, TablesOK
    <2>. QED  BY <1>12, <1>h, <1>z, <2>2, <2>4 DEF TellLike
  <1>13. CASE UNCHANGED peopleVars
    <2>1. ReqType'
      BY <1>0, <1>13 DEF peopleVars, ReqType
    <2>. QED  BY <1>13, <1>h, <1>t, <1>z, <2>1 DEF peopleVars
  <1>14. "private" \in Levels
    BY DEF Levels
  <1>15. ASSUME NEW r \in Reqs, NewRequest(r) PROVE PeopleTypeOK'
    BY <1>1, <1>2, <1>3, <1>4, <1>5, <1>6, <1>7, <1>8, <1>14, <1>15 DEF NewRequest
  <1>. QED  BY <1>9, <1>10, <1>11, <1>12, <1>13, <1>15 DEF PeopleNext

----------------------------------------------------------------------------
(* Blocks.                                                                 *)

\* Requests that are about to follow along e.
Following(e) == {r \in Reqs : req[r].op = "follow" /\ <<req[r].by, req[r].to>> = e}

\* Across a block there is no edge, and no request that read the graph before
\* the block is about to make one, unless history names it.
BlockInv ==
  \A e \in Pairs : BlockedEitherWay(e[1], e[2]) /\ e \notin raced => follows[e] = "" /\ Following(e) = {}

LEMMA BlockStep ==
  ASSUME PeopleTypeOK, PeopleTypeOK', BlockInv, [PeopleNext]_peopleVars
  PROVE  BlockInv'
  <1>0. /\ req \in [Reqs -> Reading \cup {Idle}] /\ blocks \subseteq Pairs /\ raced \subseteq Pairs
        /\ follows \in [Pairs -> {"", "pending", "accepted"}]
    BY DEF PeopleTypeOK
  \* Steps of other requests neither block nor follow.
  <1>a. ASSUME NEW r \in Reqs, UNCHANGED <<blocks, raced>>,
               \A e \in Pairs : follows[e] = "" => follows'[e] = "",
               \/ End(r) \/ Once(r) \/ UNCHANGED req
               \/ \E what : what.op # "follow" /\ (Begin(r, what) \/ Then(r, what))
        PROVE  BlockInv'
    <2>1. Idle.op # "follow"
      BY DEF Idle
    <2>2. \E what : (what.op # "follow" /\ req' = [req EXCEPT ![r] = what]) \/ UNCHANGED req
      BY <1>a, <2>1 DEF End, Once, Begin, Then
    <2>3. \A e : Following(e)' \subseteq Following(e)
      BY <1>0, <2>2 DEF Following
    <2>. QED  BY <1>a, <2>3 DEF BlockInv, BlockedEitherWay
  <1>p. \A e \in Pairs : <<e[1], e[2]>> = e /\ <<e[2], e[1]>> \in Pairs
    BY DEF Pairs
  <1>1. ASSUME NEW r \in Reqs, NEW g \in Pairs, AskFollow(r, g[1], g[2]) PROVE BlockInv'
    <2>1. ~BlockedEitherWay(g[1], g[2]) /\ UNCHANGED <<blocks, raced, follows>>
      BY <1>1 DEF AskFollow
    <2>2. PICK what : what.by = g[1] /\ what.to = g[2] /\ req' = [req EXCEPT ![r] = what]
      <3> DEFINE what == [op |-> "follow", by |-> g[1], to |-> g[2],
                          status |-> IF level[g[2]] = "instance" THEN "accepted" ELSE "pending"]
      <3>1. what.by = g[1] /\ what.to = g[2] /\ Begin(r, what)
        BY <1>1 DEF AskFollow
      <3> HIDE DEF what
      <3>. QED  BY <3>1 DEF Begin
    <2>3. \A e \in Pairs \ {g} : Following(e)' \subseteq Following(e)
      BY <1>0, <1>p, <2>2 DEF Following
    <2>. QED  BY <2>1, <2>3 DEF BlockInv, BlockedEitherWay
  <1>2. ASSUME NEW r \in Reqs, NEW g \in Pairs, Unfollow(r, g) PROVE BlockInv'
    <2>1. \E what : what.op # "follow" /\ Begin(r, what)
      <3> DEFINE what == [op |-> "unnotify", by |-> g[1], to |-> g[2]]
      <3>1. what.op # "follow" /\ Begin(r, what)
        BY <1>2 DEF Unfollow
      <3> HIDE DEF what
      <3>. QED  BY <3>1
    <2>2. \A e \in Pairs : follows[e] = "" => follows'[e] = ""
      BY <1>0, <1>2 DEF Unfollow
    <2>. QED  BY <1>2, <1>a, <2>1, <2>2 DEF Unfollow
  <1>3. ASSUME NEW r \in Reqs, NEW g \in Pairs, Accept(r, g[1], g[2]) PROVE BlockInv'
    <2>1. \A e \in Pairs : follows[e] = "" => follows'[e] = ""
      BY <1>0, <1>3 DEF Accept
    <2>. QED  BY <1>3, <1>a, <2>1 DEF Accept
  <1>4. ASSUME NEW r \in Reqs, NEW g \in Pairs, Block(r, g[1], g[2]) PROVE BlockInv'
    <2> DEFINE back == <<g[2], g[1]>>
    <2>1. /\ blocks' = blocks \cup {g} /\ follows' = [follows EXCEPT ![g] = "", ![back] = ""]
          /\ raced' = raced \cup {e \in {g, back} : Following(e) # {}} /\ UNCHANGED req
      <3>1. \A e : (Following(e) # {}) = (\E s \in Reqs : req[s].op = "follow" /\ <<req[s].by, req[s].to>> = e)
        BY DEF Following
      <3>. QED  BY <1>4, <1>p, <3>1 DEF Block, WithoutEdges, Once
    <2>2. \A e \in Pairs : Following(e)' = Following(e)
      BY <2>1 DEF Following
    <2>3. \A e \in {g, back} : follows'[e] = "" /\ (Following(e) = {} \/ e \in raced')
      BY <1>0, <1>p, <2>1
    <2>4. \A e \in Pairs \ {g, back} : /\ BlockedEitherWay(e[1], e[2])' => BlockedEitherWay(e[1], e[2])
                                       /\ follows'[e] = follows[e]
      <3>1. \A e \in Pairs : <<e[2], e[1]>> = g => e = back
        BY <1>p
      <3>. QED  BY <1>0, <1>p, <2>1, <3>1 DEF BlockedEitherWay
    <2>5. raced \subseteq raced'
      BY <2>1
    <2>. QED  BY <2>2, <2>3, <2>4, <2>5 DEF BlockInv
  <1>5. ASSUME NEW r \in Reqs, NEW g \in Pairs, Unblock(r, g[1], g[2]) PROVE BlockInv'
    <2>1. blocks' \subseteq blocks /\ UNCHANGED <<raced, follows, req>>
      BY <1>5 DEF Unblock, Once
    <2>. QED  BY <2>1 DEF BlockInv, BlockedEitherWay, Following
  <1>6. ASSUME NEW r \in Reqs, NEW v, NEW l, UpdateProfile(r, v, l) PROVE BlockInv'
    BY <1>0, <1>6, <1>a DEF UpdateProfile
  <1>7. ASSUME NEW r \in Reqs, NEW v, SetDisabled(r, v) \/ \E x, kind, l : \/ Create(r, v, kind, l) \/ Report(r, v, x)
                                                                     \/ DeletePost(r, v, x) \/ Edit(r, v, x, l)
        PROVE  BlockInv'
    BY <1>7, <1>a DEF SetDisabled, Create, Report, DeletePost, Edit
  <1>8. ASSUME NEW r \in Reqs, NEW x, NEW h, SetHidden(r, x, h) \/ HideReported(r, x, h) \/ \E v : AskLike(r, v, x, h)
        PROVE  BlockInv'
    <2>1. CASE SetHidden(r, x, h)
      BY <1>a, <2>1 DEF SetHidden
    <2>2. CASE HideReported(r, x, h)
      <3> DEFINE what == [op |-> "resolve", id |-> x]
      <3>1. what.op # "follow" /\ Begin(r, what)
        BY <2>2 DEF HideReported
      <3> HIDE DEF what
      <3>. QED  BY <1>a, <2>2, <3>1 DEF HideReported
    <2>3. ASSUME NEW v, AskLike(r, v, x, h) PROVE BlockInv'
      <3> DEFINE what == [op |-> "like", by |-> v, id |-> x, on |-> h]
      <3>1. what.op # "follow" /\ Begin(r, what)
        BY <2>3 DEF AskLike
      <3> HIDE DEF what
      <3>. QED  BY <1>a, <2>3, <3>1 DEF AskLike
    <2>. QED  BY <1>8, <2>1, <2>2, <2>3
  \* The request that follows read the graph when no block stood, or is named.
  <1>9. ASSUME NEW r \in Reqs, Follow(r) PROVE BlockInv'
    <2> DEFINE g == <<req[r].by, req[r].to>>
    <2>1. g \in Pairs /\ r \in Following(g)
      BY <1>9, ReadingFields DEF Follow, Following
    <2>2. ~BlockedEitherWay(g[1], g[2]) \/ g \in raced
      BY <2>1 DEF BlockInv
    <2>3. \A e \in Pairs \ {g} : follows'[e] = follows[e]
      BY <1>0, <1>9, <2>1 DEF Follow
    <2>4. req' = [req EXCEPT ![r] = Idle] /\ Idle.op # "follow"
      BY <1>9 DEF Follow, End, Then, Idle
    <2>5. \A e : Following(e)' \subseteq Following(e)
      BY <1>0, <2>4 DEF Following
    <2>6. UNCHANGED <<blocks, raced>>
      BY <1>9 DEF Follow
    <2>. QED  BY <2>2, <2>3, <2>5, <2>6 DEF BlockInv, BlockedEitherWay
  <1>10. ASSUME NEW r \in Reqs, Unnotify(r) \/ TellLike(r) \/ ResolveReport(r) PROVE BlockInv'
    BY <1>10, <1>a DEF Unnotify, TellLike, ResolveReport
  <1>11. ASSUME NEW r \in Reqs, Like(r) PROVE BlockInv'
    <2> DEFINE what == [op |-> "liked", by |-> req[r].by, to |-> things[req[r].id].by]
    <2>1. what.op # "follow" /\ (Then(r, what) \/ End(r))
      BY <1>11 DEF Like
    <2> HIDE DEF what
    <2>. QED  BY <1>11, <1>a, <2>1 DEF Like
  <1>12. CASE UNCHANGED peopleVars
    BY <1>12 DEF peopleVars, BlockInv, BlockedEitherWay, Following
  <1>13. ASSUME NEW r \in Reqs, NewRequest(r) PROVE BlockInv'
    BY <1>1, <1>2, <1>3, <1>4, <1>5, <1>6, <1>7, <1>8, <1>13 DEF NewRequest
  <1>. QED  BY <1>9, <1>10, <1>11, <1>12, <1>13 DEF PeopleNext

LEMMA PeopleInvariant == PeopleSpec => [](PeopleTypeOK /\ BlockInv)
  <1>1. PeopleInit => PeopleTypeOK /\ BlockInv
    <2>1. PeopleInit => BlockInv
      BY DEF PeopleInit, BlockInv, BlockedEitherWay
    <2>. QED  BY <2>1, PeopleTypeInit
  <1>2. PeopleTypeOK /\ BlockInv /\ [PeopleNext]_peopleVars => (PeopleTypeOK /\ BlockInv)'
    BY PeopleTypeStep, BlockStep
  <1>. QED  BY <1>1, <1>2, PTL DEF PeopleSpec

\* The tables and the requests keep their shape.
THEOREM PeopleTyped == PeopleSpec => []PeopleTypeOK
  BY PeopleInvariant, PTL

\* While a block stands nothing ties the two together, save a follow that was
\* under way when the block came.
THEOREM BlocksHold == PeopleSpec => []BlockHolds
  <1>1. BlockInv => BlockHolds
    BY DEF BlockInv, BlockHolds
  <1>. QED  BY <1>1, PeopleInvariant, PTL

----------------------------------------------------------------------------
(* Reads.                                                                  *)

\* The rule in SQL, on a thing's own level, is the rule in Go.
LEMMA OneRule ==
  ASSUME PeopleTypeOK, NEW v \in Persons, NEW o \in Persons, NEW lvl
  PROVE  VisibleSQL(v, o, Effective(lvl, o)) <=> CanSee(v, o, lvl)
  <1>1. CASE v = o
    BY <1>1 DEF VisibleSQL, CanSee
  <1>2. CASE v # o
    <2>1. {<<o, v>>, <<v, o>>} \cap blocks = {} <=> ~BlockedEitherWay(v, o)
      BY DEF BlockedEitherWay
    <2>. QED  BY <1>2, <2>1 DEF VisibleSQL, CanSee
  <1>. QED  BY <1>1, <1>2

LEMMA ReadsFollowTheRule == PeopleTypeOK => ReadsAgree
  <1>. SUFFICES ASSUME PeopleTypeOK, NEW v \in Active
                PROVE  /\ ReviewsShown(v) \cup ListsShown(v) =
                            {x \in Things : /\ CanSee(v, things[x].by, things[x].level)
                                            /\ things[x].hidden => things[x].by = v}
                       /\ FeedThings(v) = {x \in Things : /\ Follows(v, things[x].by) /\ ~things[x].hidden
                                                          /\ CanSee(v, things[x].by, "inherit")
                                                          /\ CanSee(v, things[x].by, things[x].level)}
                       /\ FeedOf(v) = Friends(v) /\ Friends(v) \subseteq Community(v)
                       /\ FriendReviews(v) \subseteq ReviewsShown(v)
                       /\ \A o \in Persons \ {v} :
                            /\ (o \in Community(v)) = CanSee(v, o, "inherit")
                            /\ ProfileOpen(v, o) = CanSee(v, o, "inherit")
                            /\ o \in SearchPeople(v) =>
                                 ProfileFound(v, o) /\ v \notin {b[2] : b \in {c \in blocks : c[1] = o}}
    BY DEF ReadsAgree
  <1>0. v \in Persons
    BY DEF Active
  <1>1. \A x \in Things : /\ things[x].by \in Persons
                          /\ VisibleSQL(v, things[x].by, LevelOf(x)) <=> CanSee(v, things[x].by, things[x].level)
    BY <1>0, ThingRows, OneRule DEF LevelOf
  <1>2. \A o \in Persons : VisibleSQL(v, o, level[o]) <=> CanSee(v, o, "inherit")
    <2>1. \A o : Effective("inherit", o) = level[o]
      BY DEF Effective
    <2>. QED  BY <1>0, <2>1, OneRule
  <1>3. Things = Reviews \cup Lists
    BY DEF Reviews, Lists
  <1>4. ReviewsShown(v) \cup ListsShown(v) =
          {x \in Things : CanSee(v, things[x].by, things[x].level) /\ (things[x].hidden => things[x].by = v)}
    BY <1>1, <1>3 DEF ReviewsShown, ListsShown
  <1>5. FeedThings(v) = {x \in Things : /\ Follows(v, things[x].by) /\ ~things[x].hidden
                                        /\ CanSee(v, things[x].by, "inherit")
                                        /\ CanSee(v, things[x].by, things[x].level)}
    BY <1>1, <1>2 DEF FeedThings, FeedOf
  <1>6. \A o \in Persons : o # v =>
          (VisibleSQL(v, o, level[o]) <=> /\ ~BlockedEitherWay(o, v) /\ ~disabled[o]
                                          /\ level[o] = "instance" \/ (level[o] = "followers" /\ Follows(v, o)))
    BY DEF VisibleSQL, BlockedEitherWay
  <1>7. \A o : Follows(v, o) => o # v
    BY DEF Follows
  <1>8. FeedOf(v) = Friends(v)
    BY <1>6, <1>7 DEF FeedOf, Friends
  <1>9. Friends(v) \subseteq Community(v)
    BY <1>8 DEF FeedOf, Community
  <1>10. FriendReviews(v) \subseteq ReviewsShown(v)
    <2>1. SUFFICES ASSUME NEW x \in FriendReviews(v) PROVE VisibleSQL(v, things[x].by, LevelOf(x))
      BY DEF FriendReviews, ReviewsShown
    <2> DEFINE o == things[x].by
    <2>2. Follows(v, o) /\ ~disabled[o] /\ ~BlockedEitherWay(o, v) /\ LevelOf(x) \in {"followers", "instance"}
      BY <2>1 DEF FriendReviews, Friends
    <2>. QED  BY <2>2 DEF VisibleSQL, BlockedEitherWay
  <1>11. ASSUME NEW o \in Persons \ {v}
         PROVE  /\ (o \in Community(v)) = CanSee(v, o, "inherit")
                /\ ProfileOpen(v, o) = CanSee(v, o, "inherit")
                /\ o \in SearchPeople(v) =>
                     ProfileFound(v, o) /\ v \notin {b[2] : b \in {c \in blocks : c[1] = o}}
    <2>1. (o \in Community(v)) = CanSee(v, o, "inherit")
      <3>1. CanSee(v, o, "inherit") \in BOOLEAN
        BY DEF CanSee
      <3>2. o \in Community(v) <=> CanSee(v, o, "inherit")
        BY <1>2 DEF Community
      <3>. QED  BY <3>1, <3>2
    <2>2. ProfileOpen(v, o) = CanSee(v, o, "inherit")
      BY DEF ProfileOpen, ProfileFound, CanSee, BlockedEitherWay
    <2>3. ASSUME o \in SearchPeople(v)
          PROVE  ProfileFound(v, o) /\ v \notin {b[2] : b \in {c \in blocks : c[1] = o}}
      <3>1. ~disabled[o] /\ ~BlockedEitherWay(o, v)
        BY <2>3 DEF SearchPeople, Active
      <3>2. \A c \in blocks : c[1] = o => c[2] # v
        <4>1. \A c \in Pairs : c = <<c[1], c[2]>>
          BY DEF Pairs
        <4>2. blocks \subseteq Pairs
          BY DEF PeopleTypeOK
        <4>. QED  BY <3>1, <4>1, <4>2 DEF BlockedEitherWay
      <3>. QED  BY <3>1, <3>2 DEF ProfileFound, BlockedEitherWay
    <2>. QED  BY <2>1, <2>2, <2>3
  <1>. QED  BY <1>4, <1>5, <1>8, <1>9, <1>10, <1>11

\* In every state the graph reaches, the reads with SQL of their own show a
\* viewer exactly what the rule in Go allows.
THEOREM ReadsAreOneRule == PeopleSpec => []ReadsAgree
  BY PeopleTyped, ReadsFollowTheRule, PTL
=============================================================================
