---------------------------- MODULE DeviceStore ----------------------------
(***************************************************************************)
(* The library on a device (web/static/js/core/store.js): a copy kept in   *)
(* IndexedDB, an outbox of optimistic writes, a flush that sends them one  *)
(* at a time and syncs, and the syncs the app asks for besides.  A step    *)
(* runs from one await to the next.  The server answers from LibraryIndex; *)
(* requests and answers may be late or lost, and the page may be reloaded. *)
(***************************************************************************)
EXTENDS LibraryIndex, Sequences, SequencesExt, FiniteSets, Functions

CONSTANTS
  Writes,      \* the writes a person makes: [kind, game, content]
  MaxWrites,   \* bound: writes made
  MaxOther,    \* bound: writes by the person's other devices
  MaxLost,     \* bound: requests that fail and can be retried
  MaxReloads,  \* bound: page loads after the first
  Boots,       \* whether a page load thinks it is online (navigator.onLine)
  MaxSyncs,    \* bound: syncs (visibilitychange) and 'online' events
  MaxCancels   \* bound: undos of a write still queued

Kinds == {"put", "patch", "remove"}
Fitting(w) == w.kind = "remove" <=> w.content = Absent
WriteType == {w \in [kind : Kinds, game : Games, content : Contents \cup {Absent}] : Fitting(w)}
ASSUME WritesAssumption == Writes \subseteq WriteType
ASSUME BootsAssumption == Boots \subseteq BOOLEAN
ASSUME BoundsAssumption ==
  {MaxWrites, MaxOther, MaxLost, MaxReloads, MaxSyncs, MaxCancels} \subseteq Nat

VARIABLES
  srv,        \* the server's tables
  wire,       \* writes on their way to the server: [try, op]
  applied,    \* keys of the writes the server carried out, in order
  refused,    \* keys of the writes the server turned down
  base,       \* the confirmed entries in memory
  rev,        \* the revision they are synced to
  etag,       \* the tag of the last index
  outbox,     \* the writes waiting: [key, kind, game, content, persisted, sending]
  flush,      \* the flush: where it waits and for what
  syncs,      \* the sync a flush runs and the one the app asked for
  timer,      \* whether a retry is scheduled
  kv,         \* IndexedDB: items, meta (the revision) and outbox
  kvq,        \* its transactions under way; those of one store run in order
  cancelled,  \* keys of the writes the person was told are taken back
  spent       \* how much of each bound is used, and the last write before a reload

server == <<srv, wire, applied, refused>>
memory == <<base, rev, etag, outbox, flush, syncs, timer>>
vars == <<server, memory, kv, kvq, cancelled, spent>>

NoTag == [rev |-> -1, since |-> -1]
Tag(r, s) == [rev |-> r, since |-> s]
NoOp == [key |-> 0]
SyncNames == {"flush", "app"}   \* the two syncs
NoSync == [at |-> "none", boot |-> FALSE]
IdleFlush == [at |-> "idle", again |-> FALSE, op |-> NoOp, answer |-> "none", try |-> 0]
NoTxs == [items |-> <<>>, meta |-> <<>>, outbox |-> <<>>]

\* A write as it goes over the wire and to disk, and the same in the outbox.
Plain(o) == [key |-> o.key, kind |-> o.kind, game |-> o.game, content |-> o.content]
Waiting(op, persisted) ==
  [key |-> op.key, kind |-> op.kind, game |-> op.game, content |-> op.content,
   persisted |-> persisted, sending |-> FALSE]

Keys(ops) == {op.key : op \in ops}
Spend(what) == spent' = [spent EXCEPT ![what] = @ + 1]

Init ==
  /\ srv = EmptyTables /\ wire = {} /\ applied = <<>> /\ refused = {}
  /\ base = EmptyLibrary /\ rev = 0 /\ etag = NoTag /\ outbox = <<>>
  /\ flush = IdleFlush /\ syncs = [w \in SyncNames |-> NoSync] /\ timer = FALSE
  /\ kv = [items |-> EmptyLibrary, rev |-> 0, outbox |-> {}]
  /\ kvq = NoTxs
  /\ cancelled = {}
  /\ spent = [writes |-> 0, other |-> 0, lost |-> 0, reloads |-> 0, syncs |-> 0,
              cancels |-> 0, tries |-> 0, loaded |-> 0]

----------------------------------------------------------------------------
(* What the screens show.                                                  *)

\* applyEffect: an add sets the entry, a patch needs it, a remove drops it.
ApplyEffect(entries, op) ==
  IF op.kind = "patch" /\ entries[op.game] = Absent THEN entries
  ELSE [entries EXCEPT ![op.game] = op.content]

View == FoldLeft(ApplyEffect, base, outbox)

----------------------------------------------------------------------------
(* The server.                                                             *)

\* PUT creates or updates; PATCH and DELETE need the item.
Refuses(op) == op.kind # "put" /\ ~Present(srv, op.game)

Carry(t, op) ==
  IF op.kind = "remove" THEN DeleteRow(t, op.game)
  ELSE IF Present(t, op.game) THEN UpdateRow(t, op.game, op.content)
  ELSE InsertRow(t, op.game, op.content)

Live(m) == flush.at = "post" /\ m.try = flush.try

Handle(m) ==
  /\ wire' = wire \ {m}
  /\ IF Refuses(m.op)
     THEN /\ refused' = refused \cup {m.op.key}
          /\ UNCHANGED <<srv, applied>>
     ELSE /\ srv' = Carry(srv, m.op)
          /\ applied' = Append(applied, m.op.key)
          /\ UNCHANGED refused
  /\ flush' = IF Live(m)
              THEN [flush EXCEPT !.answer = IF Refuses(m.op) THEN "refused" ELSE "ok"]
              ELSE flush
  /\ UNCHANGED <<base, rev, etag, outbox, syncs, timer, kv, kvq, cancelled, spent>>

Matches(s) == s.etag = Tag(srv.rev, s.since)

\* notModified, then Index (LibraryRev has a commit between the two).
Read(w) ==
  LET s == syncs[w]
  IN  /\ s.at = "sent"
      /\ syncs' = [syncs EXCEPT ![w] =
           IF Matches(s)
           THEN [at |-> "unchanged", boot |-> s.boot]
           ELSE [at |-> "back", boot |-> s.boot, idx |-> Index(srv, s.since),
                 tag |-> Tag(srv.rev, s.since)]]
      /\ UNCHANGED <<server, base, rev, etag, outbox, flush, timer, kv, kvq, cancelled, spent>>

\* Another device of the same person.
OtherWrite(op) ==
  /\ spent.other < MaxOther /\ Spend("other")
  /\ ~Refuses(op)
  /\ srv' = Carry(srv, op)
  /\ UNCHANGED <<wire, applied, refused, memory, kv, kvq, cancelled>>

----------------------------------------------------------------------------
(* Writes.                                                                 *)

\* Slips: a second call starts over beside the running flush; a flush that
\* ends forgets that another pass was asked for, or keeps the last answer.
CalledAgain(f) == [f EXCEPT !.at = "begin"]
FinishedForGood(f) ==
  [f EXCEPT !.at = "idle", !.again = FALSE, !.op = NoOp, !.answer = "none"]
FinishedUncleared(f) ==
  [f EXCEPT !.at = IF f.again THEN "begin" ELSE "idle", !.again = FALSE, !.op = NoOp]

\* flush(): a second call only asks the running one for another pass.
Called(f) == IF f.at = "idle" THEN [f EXCEPT !.at = "begin"] ELSE [f EXCEPT !.again = TRUE]
Finished(f) ==
  [f EXCEPT !.at = IF f.again THEN "begin" ELSE "idle", !.again = FALSE,
            !.op = NoOp, !.answer = "none"]

\* send: shown at once; sent once it is on disk.
Send(w) ==
  LET op == [key |-> spent.writes + 1, kind |-> w.kind, game |-> w.game, content |-> w.content]
  IN  /\ spent.writes < MaxWrites /\ Spend("writes")
      /\ w.kind = "put" \/ View[w.game] # Absent
      /\ outbox' = Append(outbox, Waiting(op, FALSE))
      /\ kvq' = [kvq EXCEPT !.outbox = Append(@, [do |-> "put", by |-> "send", op |-> op])]
      /\ UNCHANGED <<server, base, rev, etag, flush, syncs, timer, kv, cancelled>>

\* A slip: a write being sent can be taken back.
MayCancelAny(op) == op.key > spent.loaded

MayCancel(op) == op.key > spent.loaded /\ ~op.sending

\* cancel: the undo of a write that is not being sent.  The toast that offers
\* it does not survive a reload.
Cancel(i) ==
  /\ spent.cancels < MaxCancels /\ Spend("cancels")
  /\ MayCancel(outbox[i])
  /\ outbox' = RemoveAt(outbox, i)
  /\ kvq' = [kvq EXCEPT !.outbox = Append(@, [do |-> "del", by |-> "cancel", op |-> Plain(outbox[i])])]
  /\ UNCHANGED <<server, base, rev, etag, flush, syncs, timer, kv, cancelled>>

\* The head of flush's loop.
StartSync(boot) == [at |-> "sent", boot |-> boot, since |-> rev, etag |-> etag]

\* A slip: a write is sent before it is on disk.
SendableAtOnce(op) == op.key > 0

Sendable(op) == op.persisted

Loop ==
  /\ flush.at = "begin"
  /\ IF outbox = <<>>
     THEN /\ flush' = [flush EXCEPT !.at = "sync"]
          /\ syncs' = [syncs EXCEPT !["flush"] = StartSync(FALSE)]
          /\ UNCHANGED <<wire, outbox, spent>>
     ELSE IF ~Sendable(Head(outbox))
     THEN /\ flush' = Finished(flush)
          /\ UNCHANGED <<wire, outbox, syncs, spent>>
     ELSE LET op == Plain(Head(outbox))
          IN  /\ outbox' = [outbox EXCEPT ![1].sending = TRUE]
              /\ wire' = wire \cup {[try |-> spent.tries + 1, op |-> op]}
              /\ flush' = [flush EXCEPT !.at = "post", !.op = op, !.try = spent.tries + 1]
              /\ Spend("tries")
              /\ UNCHANGED syncs
  /\ UNCHANGED <<srv, applied, refused, base, rev, etag, timer, kv, kvq, cancelled>>

\* A slip: a write that failed goes to the back of the queue.
PutLast(ops) == Append(Tail(ops), [Head(ops) EXCEPT !.sending = FALSE])

PutBack(ops) == [ops EXCEPT ![1].sending = FALSE]

\* The request or its answer is lost, late, or refused for now; it may still
\* reach the server.
Fail ==
  /\ flush.at = "post"
  /\ spent.lost < MaxLost /\ Spend("lost")
  /\ \E late \in BOOLEAN :
       wire' = IF late THEN wire ELSE {m \in wire : ~Live(m)}
  /\ outbox' = PutBack(outbox)
  /\ timer' = TRUE
  /\ flush' = Finished(flush)
  /\ UNCHANGED <<srv, applied, refused, base, rev, etag, syncs, kv, kvq, cancelled>>

\* An answer, good or bad, takes the write out of the outbox.
Answered ==
  /\ flush.at = "post" /\ flush.answer # "none"
  /\ outbox' = SubSeq(outbox, 2, Len(outbox))
  /\ kvq' = [kvq EXCEPT !.outbox = Append(@, [do |-> "del", by |-> "flush", op |-> flush.op])]
  /\ flush' = [flush EXCEPT !.at = "del"]
  /\ UNCHANGED <<server, base, rev, etag, syncs, timer, kv, cancelled, spent>>

----------------------------------------------------------------------------
(* IndexedDB.                                                              *)

\* Slips: the deletion of a write does nothing, or takes the later ones too.
ErasedNothing(ops, key) == ops
ErasedAfter(ops, key) == {op \in ops : op.key < key}

Erased(ops, key) == {op \in ops : op.key # key}

\* The write's transaction is over (op.persisted = true).
Persisted(ops, key) ==
  [i \in DOMAIN ops |-> IF ops[i].key = key THEN [ops[i] EXCEPT !.persisted = TRUE] ELSE ops[i]]

\* Once a write is off the disk, what the server confirmed goes into the copy.
Removed(tx) ==
  IF tx.by = "flush" /\ flush.answer = "ok"
  THEN /\ base' = [base EXCEPT ![flush.op.game] = flush.op.content]
       /\ flush' = [flush EXCEPT !.at = "put"]
       /\ kvq' = [kvq EXCEPT !.outbox = Tail(@),
                    !.items = Append(@, [by |-> "put", rev |-> 0, set |->
                                [g \in {flush.op.game} |-> flush.op.content]])]
  ELSE /\ flush' = IF tx.by = "flush" THEN [flush EXCEPT !.at = "begin", !.answer = "none"]
                   ELSE flush
       /\ kvq' = [kvq EXCEPT !.outbox = Tail(@)]
       /\ UNCHANGED base

OutboxDone ==
  LET tx == Head(kvq.outbox)
  IN  /\ kvq.outbox # <<>>
      /\ IF tx.do = "put"
         THEN /\ kv' = [kv EXCEPT !.outbox = @ \cup {tx.op}]
              /\ outbox' = Persisted(outbox, tx.op.key)
              /\ flush' = Called(flush)
              /\ kvq' = [kvq EXCEPT !.outbox = Tail(@)]
              /\ UNCHANGED <<base, cancelled>>
         ELSE /\ kv' = [kv EXCEPT !.outbox = Erased(@, tx.op.key)]
              /\ cancelled' = cancelled \cup IF tx.by = "cancel" THEN {tx.op.key} ELSE {}
              /\ Removed(tx)
              /\ UNCHANGED outbox
      /\ UNCHANGED <<server, rev, etag, syncs, timer, spent>>

ItemsDone ==
  LET tx == Head(kvq.items)
  IN  /\ kvq.items # <<>>
      /\ kv' = [kv EXCEPT !.items = [g \in Games |->
                  IF g \in DOMAIN tx.set THEN tx.set[g] ELSE @[g]]]
      /\ IF tx.by = "put"
         THEN /\ flush' = [flush EXCEPT !.at = "begin", !.answer = "none"]
              /\ kvq' = [kvq EXCEPT !.items = Tail(@)]
              /\ UNCHANGED <<rev, syncs>>
         ELSE /\ rev' = tx.rev
              /\ syncs' = [syncs EXCEPT ![tx.by] = [at |-> "meta", boot |-> @.boot]]
              /\ kvq' = [kvq EXCEPT !.items = Tail(@),
                                    !.meta = Append(@, [by |-> tx.by, rev |-> tx.rev])]
              /\ UNCHANGED flush
      /\ UNCHANGED <<server, base, etag, outbox, timer, cancelled, spent>>

\* A sync is over: flush's own ends the flush, the one at boot starts it.
SyncOver(w, ok) ==
  /\ syncs' = [syncs EXCEPT ![w] = NoSync]
  /\ flush' = CASE w = "flush" -> Finished(flush)
                [] w # "flush" /\ ok /\ syncs[w].boot -> Called(flush)
                [] OTHER -> flush

MetaDone ==
  LET tx == Head(kvq.meta)
  IN  /\ kvq.meta # <<>>
      /\ kv' = [kv EXCEPT !.rev = tx.rev]
      /\ kvq' = [kvq EXCEPT !.meta = Tail(@)]
      /\ SyncOver(tx.by, TRUE)
      /\ UNCHANGED <<server, base, rev, etag, outbox, timer, cancelled, spent>>

----------------------------------------------------------------------------
(* Syncs.                                                                  *)

SyncUnchanged(w) ==
  /\ syncs[w].at = "unchanged"
  /\ SyncOver(w, TRUE)
  /\ UNCHANGED <<server, base, rev, etag, outbox, timer, kv, kvq, cancelled, spent>>

\* A slip: what was deleted stays on disk.
OnDiskUndeleted(idx, new) ==
  IF idx.full THEN new ELSE [g \in DOMAIN idx.items |-> new[g]]

\* What goes to disk: the whole store is replaced, or only what changed.
OnDisk(idx, new) ==
  IF idx.full THEN new ELSE [g \in DOMAIN idx.items \cup idx.deleted |-> new[g]]

SyncApply(w) ==
  LET idx == syncs[w].idx
      new == Apply(base, idx)
  IN  /\ syncs[w].at = "back"
      /\ base' = new
      /\ etag' = syncs[w].tag
      /\ kvq' = [kvq EXCEPT !.items = Append(@, [by |-> w, rev |-> idx.rev,
                                                set |-> OnDisk(idx, new)])]
      /\ syncs' = [syncs EXCEPT ![w] = [at |-> "items", boot |-> @.boot]]
      /\ UNCHANGED <<server, rev, outbox, flush, timer, kv, cancelled, spent>>

SyncFails(w) ==
  /\ syncs[w].at \in {"sent", "back", "unchanged"}
  /\ spent.lost < MaxLost /\ Spend("lost")
  /\ SyncOver(w, FALSE)
  /\ UNCHANGED <<server, base, rev, etag, outbox, timer, kv, kvq, cancelled>>

----------------------------------------------------------------------------
(* The app around the store.                                               *)

\* The page becomes visible.
Visible ==
  /\ spent.syncs < MaxSyncs /\ Spend("syncs")
  /\ syncs["app"] = NoSync
  /\ syncs' = [syncs EXCEPT !["app"] = StartSync(FALSE)]
  /\ UNCHANGED <<server, base, rev, etag, outbox, flush, timer, kv, kvq, cancelled>>

\* The browser says the network is back (retryNow).
Online ==
  /\ spent.syncs < MaxSyncs /\ Spend("syncs")
  /\ timer' = FALSE
  /\ flush' = Called(flush)
  /\ UNCHANGED <<server, base, rev, etag, outbox, syncs, kv, kvq, cancelled>>

RetryTimer ==
  /\ timer
  /\ timer' = FALSE
  /\ flush' = Called(flush)
  /\ UNCHANGED <<server, base, rev, etag, outbox, syncs, kv, kvq, cancelled, spent>>

\* all() on the outbox store, whose keys are assigned in increasing order.
ByKey(ops) == \A i, j \in DOMAIN ops : i < j => ops[i].key < ops[j].key

\* The page is closed at any point and loaded again: init, then, unless it
\* knows it is offline, the sync that a flush follows if it succeeds.
Reload ==
  /\ spent.reloads < MaxReloads
  /\ spent' = [spent EXCEPT !.reloads = @ + 1, !.loaded = spent.writes]
  /\ base' = kv.items /\ rev' = kv.rev /\ etag' = NoTag
  /\ \E ops \in [1..Cardinality(kv.outbox) -> kv.outbox] :
       /\ ByKey(ops) /\ Range(ops) = kv.outbox
       /\ outbox' = [i \in DOMAIN ops |-> Waiting(ops[i], TRUE)]
  /\ flush' = IdleFlush /\ timer' = FALSE
  /\ \E online \in Boots :
       syncs' = [w \in SyncNames |->
         IF w = "app" /\ online
         THEN [at |-> "sent", boot |-> TRUE, since |-> kv.rev, etag |-> NoTag]
         ELSE NoSync]
  /\ kvq' = NoTxs
  /\ UNCHANGED <<server, kv, cancelled>>

Wheels ==
  \/ \E m \in wire : Handle(m)
  \/ \E w \in SyncNames : Read(w) \/ SyncUnchanged(w) \/ SyncApply(w)
  \/ Loop \/ Answered \/ OutboxDone \/ ItemsDone \/ MetaDone \/ RetryTimer

Trouble == Fail \/ SyncFails("flush") \/ SyncFails("app") \/ Reload

People ==
  \/ \E w \in Writes : Send(w) \/ OtherWrite(w)
  \/ \E i \in DOMAIN outbox : Cancel(i)
  \/ Visible \/ Online

Next == Wheels \/ Trouble \/ People

Spec == Init /\ [][Next]_vars

\* Requests are answered, timers fire and disk writes end; what fails, fails
\* finitely often (MaxLost).
FairSpec == Spec /\ WF_vars(Wheels)
----------------------------------------------------------------------------
(* Properties.                                                             *)

OpType == {op \in [key : 1..MaxWrites, kind : Kinds, game : Games, content : Contents \cup {Absent}] :
             Fitting(op)}
QueuedType == {o \in [key : 1..MaxWrites, kind : Kinds, game : Games, content : Contents \cup {Absent},
                      persisted : BOOLEAN, sending : BOOLEAN] : Fitting(o)}
TagType == [rev : Int, since : Int]
FlushType == [at : {"idle", "begin", "post", "del", "put", "sync"}, again : BOOLEAN,
              op : OpType \cup {NoOp}, answer : {"none", "ok", "refused"}, try : Nat]
SyncType ==
  [at : {"none", "unchanged", "items", "meta"}, boot : BOOLEAN]
    \cup [at : {"sent"}, boot : BOOLEAN, since : Nat, etag : TagType]
    \cup [at : {"back"}, boot : BOOLEAN, idx : IndexType, tag : TagType]
OutboxTx == [do : {"put", "del"}, by : {"send", "cancel", "flush"}, op : OpType]
ItemsTx == [by : SyncNames \cup {"put"}, rev : Nat, set : SomeEntries]
MetaTx == [by : SyncNames, rev : Nat]
KvType == [items : Library, rev : Nat, outbox : SUBSET OpType]
KvqType == [items : Seq(ItemsTx), meta : Seq(MetaTx), outbox : Seq(OutboxTx)]
SpentType == [writes : 0..MaxWrites, other : Nat, lost : Nat, reloads : Nat, syncs : Nat,
              cancels : Nat, tries : Nat, loaded : Nat]

\* Every variable holds values of its own shape; a write that is being sent or
\* taken off the disk is one, and no answer outlives its write.
TypeOK ==
  /\ srv \in Tables /\ wire \subseteq [try : Nat, op : OpType]
  /\ applied \in Seq(1..MaxWrites) /\ refused \cup cancelled \subseteq 1..MaxWrites
  /\ base \in Library /\ rev \in Nat /\ etag \in TagType
  /\ outbox \in Seq(QueuedType)
  /\ flush \in FlushType
  /\ flush.at \in {"idle", "begin", "sync"} => flush.answer = "none"
  /\ flush.at \in {"post", "del", "put"} => flush.op \in OpType
  /\ syncs \in [SyncNames -> SyncType] /\ timer \in BOOLEAN
  /\ kv \in KvType
  /\ kvq \in KvqType
  /\ spent \in SpentType

\* "The revision only moves with sync(), so nothing is skipped": one more
\* delta brings the copy in memory to exactly what the server has (an entry
\* without its platforms: LibraryRev).
CopyHeals == Apply(base, Index(srv, rev)) = srv.content

\* The same once everything under way has ended: nothing will correct it later.
AtRest ==
  /\ flush.at = "idle" /\ wire = {} /\ kvq = NoTxs
  /\ \A w \in DOMAIN syncs : syncs[w] = NoSync
CopyHealsAtRest == AtRest => CopyHeals

\* The same of what the next page load starts from, wherever this one stops.
DiskHeals == Apply(kv.items, Index(srv, kv.rev)) = srv.content

\* The server first carries the writes out in the order they were made,
\* retries and late requests notwithstanding, as long as it turned neither
\* down; and carries one out again only after a failure or a reload.
First(k) == Min({i \in DOMAIN applied : applied[i] = k})
InOrder ==
  /\ \A j, k \in Range(applied) \ (refused \cup cancelled) : j < k => First(j) < First(k)
  /\ \A k \in Range(applied) :
       Cardinality({i \in DOMAIN applied : applied[i] = k}) <= 1 + spent.lost + spent.reloads

\* What is on its way is on disk until its answer came, so that a reload sends
\* it again, and what left the outbox does not come back from the disk.
DiskFollowsOutbox ==
  /\ flush.at = "post" => flush.op \in kv.outbox
  /\ Keys(kv.outbox) \subseteq
       Keys(Range(outbox)) \cup {kvq.outbox[i].op.key : i \in DOMAIN kvq.outbox}

\* A write on disk leaves it only when it was carried out, refused or taken back.
NothingLost ==
  [][Keys(kv.outbox) \ Keys(kv'.outbox) \subseteq Range(applied) \cup refused \cup cancelled']_vars

\* "Not sent yet: just drop it": what the person took back is not carried out,
\* unless a request failed (one that was carried out may be queued again).
CancelDrops == spent.lost = 0 => cancelled \cap Range(applied) = {}

\* Every queued write leaves the outbox.
Queued(k) == k \in Keys(Range(outbox))
QueuedIsSent == \A k \in 1..MaxWrites : Queued(k) ~> ~Queued(k)

\* "Then the outbox (replayed when back online)" (docs/agents/frontend.md): a
\* write still queued when the page, loaded for the last time, hears from the
\* server again leaves the outbox.
HeardWhileQueued(k) ==
  Queued(k) /\ syncs["app"].at = "meta" /\ spent.reloads = MaxReloads
ReplayedWhenBackOnline == \A k \in 1..MaxWrites : HeardWhileQueued(k) ~> ~Queued(k)
----------------------------------------------------------------------------
(* What the outbox and its copy on disk need to be inductive.              *)

Queue == kvq.outbox
Waits(k) == \E i \in DOMAIN outbox : outbox[i].key = k
\* Its removal is under way, behind the first n transactions.
Leaves(k, n) == \E i \in DOMAIN Queue : i > n /\ Queue[i].do = "del" /\ Queue[i].op.key = k

\* Keys count up, so that no write is taken for another.
Numbered ==
  /\ ByKey(outbox)
  /\ \A i \in DOMAIN outbox : outbox[i].key <= spent.writes
  /\ \A i \in DOMAIN Queue : Queue[i].op.key <= spent.writes
  /\ \A op \in kv.outbox : op.key <= spent.writes
  /\ IsFiniteSet(kv.outbox)

\* What is marked as persisted is on disk; what is on disk, or is about to be,
\* is queued still or about to be removed, and what is about to be removed is
\* queued no longer.
Mirrored ==
  /\ \A i \in DOMAIN outbox : outbox[i].persisted => Plain(outbox[i]) \in kv.outbox
  /\ \A op \in kv.outbox : Waits(op.key) \/ Leaves(op.key, 0)
  /\ \A i \in DOMAIN Queue : Queue[i].do = "put" =>
       /\ Waits(Queue[i].op.key) \/ Leaves(Queue[i].op.key, i)
       /\ \A j \in DOMAIN outbox : outbox[j].key = Queue[i].op.key => Plain(outbox[j]) = Queue[i].op
  /\ \A i \in DOMAIN Queue : Queue[i].do = "del" => ~Waits(Queue[i].op.key)

\* The write being sent is the head of the outbox and on disk.
Posted ==
  flush.at = "post" =>
    outbox # <<>> /\ outbox[1].persisted /\ outbox[1].sending /\ flush.op = Plain(outbox[1])

OutboxInv == Numbered /\ Mirrored /\ Posted

\* A request belongs to the try the flush is at only when it carries its write,
\* and what was answered was carried out or refused.
Settled(k) == k \in Range(applied) \cup refused
AnswerInv ==
  /\ flush.at = "post" => flush.try <= spent.tries
  /\ \A m \in wire :
       m.try <= spent.tries /\ (flush.at = "post" /\ m.try = flush.try => m.op = flush.op)
  /\ flush.at = "post" /\ flush.answer # "none" => Settled(flush.op.key)
  /\ \A i \in DOMAIN Queue : Queue[i].do = "del" /\ Queue[i].by # "cancel" => Settled(Queue[i].op.key)

\* Nothing puts back what was taken out: the first transactions of a write
\* come first, and what the person took back is neither queued nor on disk.
Sent(k) == k \in Range(applied) \/ \E m \in wire : m.op.key = k
RemovedLast ==
  \A i, j \in DOMAIN Queue :
    i < j /\ Queue[i].do = "del" /\ Queue[j].do = "put" => Queue[i].op.key # Queue[j].op.key
TakenBack ==
  /\ \A k \in cancelled : ~Waits(k) /\ k <= spent.writes
  /\ \A op \in kv.outbox : op.key \notin cancelled
  /\ \A i \in DOMAIN Queue : Queue[i].do = "put" => Queue[i].op.key \notin cancelled
SentIsOld ==
  /\ \A m \in wire : m.op.key <= spent.writes
  /\ \A k \in Range(applied) : k <= spent.writes

\* While no request has failed, a write of this page load that was ever sent is
\* off the outbox or being sent, and what was taken back, or is about to be,
\* was not sent.
Unsent ==
  spent.lost = 0 =>
    /\ \A i \in DOMAIN outbox :
         outbox[i].key > spent.loaded /\ Sent(outbox[i].key) => outbox[i].sending
    /\ \A k \in cancelled : ~Sent(k)
    /\ \A i \in DOMAIN Queue : Queue[i].do = "del" /\ Queue[i].by = "cancel" => ~Sent(Queue[i].op.key)

CancelInv == RemovedLast /\ TakenBack /\ SentIsOld /\ Unsent
=============================================================================
