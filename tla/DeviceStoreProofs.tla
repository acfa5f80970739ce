------------------------- MODULE DeviceStoreProofs -------------------------
(***************************************************************************)
(* A device's outbox and its copy on disk, for any writes, any failures,   *)
(* any page loads and any number of syncs.                                 *)
(***************************************************************************)
EXTENDS DeviceStore, LibraryIndexProofs, SequenceTheorems, FiniteSetTheorems, TLAPS

-----------------------------------------------------------------------------
(* Sequences.                                                              *)

\* Taking the i-th element out moves the later ones up.
LEMMA Removal ==
  ASSUME NEW S, NEW s \in Seq(S), NEW i \in DOMAIN s
  PROVE  /\ RemoveAt(s, i) \in Seq(S)
         /\ Len(RemoveAt(s, i)) = Len(s) - 1
         /\ \A k \in 1..(Len(s) - 1) : RemoveAt(s, i)[k] = IF k < i THEN s[k] ELSE s[k + 1]
  <1> DEFINE front == SubSeq(s, 1, i - 1)
             back == SubSeq(s, i + 1, Len(s))
  <1>1. Len(s) \in Nat /\ i \in 1..Len(s) /\ \A k \in 1..Len(s) : s[k] \in S
    BY LenProperties
  <1>2. front \in Seq(S) /\ Len(front) = i - 1 /\ \A k \in 1..(i - 1) : front[k] = s[k]
    BY <1>1, SubSeqProperties
  <1>3. back \in Seq(S) /\ Len(back) = Len(s) - i /\ \A k \in 1..(Len(s) - i) : back[k] = s[i + k]
    <2>1. \A k \in (i + 1)..Len(s) : s[k] \in S
      BY <1>1
    <2>2. /\ back \in Seq(S)
          /\ Len(back) = IF i + 1 <= Len(s) THEN Len(s) - (i + 1) + 1 ELSE 0
          /\ \A k \in 1..(Len(s) - (i + 1) + 1) : back[k] = s[(i + 1) + k - 1]
      BY <1>1, <2>1, SubSeqProperties
    <2>. HIDE DEF back
    <2>. QED  BY <1>1, <2>2
  <1>4. RemoveAt(s, i) = front \o back
    BY DEF RemoveAt
  <1>. HIDE DEF front, back
  <1>5. /\ front \o back \in Seq(S) /\ Len(front \o back) = Len(front) + Len(back)
        /\ \A k \in 1..(Len(front) + Len(back)) :
             (front \o back)[k] = IF k <= Len(front) THEN front[k] ELSE back[k - Len(front)]
    BY <1>2, <1>3, ConcatProperties
  <1>6. Len(front) + Len(back) = Len(s) - 1
    BY <1>1, <1>2, <1>3
  <1>7. /\ RemoveAt(s, i) \in Seq(S) /\ Len(RemoveAt(s, i)) = Len(s) - 1
        /\ \A k \in 1..(Len(s) - 1) :
             RemoveAt(s, i)[k] = IF k <= i - 1 THEN front[k] ELSE back[k - (i - 1)]
    BY <1>2, <1>4, <1>5, <1>6
  <1>8. ASSUME NEW k \in 1..(Len(s) - 1)
        PROVE  RemoveAt(s, i)[k] = IF k < i THEN s[k] ELSE s[k + 1]
    <2>1. CASE k < i
      <3>1. k \in 1..(i - 1) /\ k <= i - 1
        BY <1>1, <2>1
      <3>. QED  BY <1>2, <1>7, <2>1, <3>1
    <2>2. CASE ~(k < i)
      <3>1. k - (i - 1) \in 1..(Len(s) - i) /\ i + (k - (i - 1)) = k + 1 /\ ~(k <= i - 1)
        BY <1>1, <2>2
      <3>2. back[k - (i - 1)] = s[k + 1]
        BY <1>3, <3>1
      <3>. QED  BY <1>7, <2>2, <3>1, <3>2
    <2>. QED  BY <2>1, <2>2
  <1>. QED  BY <1>7, <1>8

-----------------------------------------------------------------------------
(* Shapes.                                                                 *)

LEMMA DeleteIsTyped ==
  ASSUME NEW t \in Tables, NEW g \in Games
  PROVE  DeleteRow(t, g) \in Tables
  BY DEF DeleteRow, Tables, Library

\* What the server does with a write of this shape.
LEMMA CarryIsTyped ==
  ASSUME NEW t \in Tables, NEW op \in OpType
  PROVE  Carry(t, op) \in Tables
  <1>1. op.game \in Games /\ op.kind \in Kinds /\ (op.kind # "remove" => op.content \in Contents)
    BY DEF OpType, Fitting
  <1>2. CASE op.kind = "remove"
    BY <1>1, <1>2, DeleteIsTyped DEF Carry
  <1>3. CASE op.kind # "remove"
    BY <1>1, <1>3, StatementType DEF Carry
  <1>. QED  BY <1>2, <1>3

LEMMA PlainIsTyped ==
  ASSUME NEW o \in QueuedType
  PROVE  Plain(o) \in OpType
  BY DEF QueuedType, OpType, Plain, Fitting

LEMMA WaitingIsTyped ==
  ASSUME NEW op \in OpType, NEW b \in BOOLEAN
  PROVE  /\ Waiting(op, b) \in QueuedType
         /\ Plain(Waiting(op, b)) = op
  BY DEF QueuedType, OpType, Plain, Waiting, Fitting

\* One field of IndexedDB, or of its transactions, at a time.
LEMMA KvqUpdates ==
  ASSUME kvq \in KvqType, NEW a, NEW b, NEW c
  PROVE  /\ [kvq EXCEPT !.outbox = c] = [items |-> kvq.items, meta |-> kvq.meta, outbox |-> c]
         /\ [kvq EXCEPT !.outbox = c, !.items = a] = [items |-> a, meta |-> kvq.meta, outbox |-> c]
         /\ [kvq EXCEPT !.items = a] = [items |-> a, meta |-> kvq.meta, outbox |-> kvq.outbox]
         /\ [kvq EXCEPT !.items = a, !.meta = b] = [items |-> a, meta |-> b, outbox |-> kvq.outbox]
         /\ [kvq EXCEPT !.meta = b] = [items |-> kvq.items, meta |-> b, outbox |-> kvq.outbox]
  <1> USE DEF KvqType
  <1>1. [kvq EXCEPT !.outbox = c] = [items |-> kvq.items, meta |-> kvq.meta, outbox |-> c]
    OBVIOUS
  <1>2. [kvq EXCEPT !.outbox = c, !.items = a] = [items |-> a, meta |-> kvq.meta, outbox |-> c]
    <2> DEFINE k == [items |-> kvq.items, meta |-> kvq.meta, outbox |-> c]
    <2>1. [kvq EXCEPT !.outbox = c] = k
      OBVIOUS
    <2>2. [k EXCEPT !.items = a] = [items |-> a, meta |-> kvq.meta, outbox |-> c]
      OBVIOUS
    <2>3. [kvq EXCEPT !.outbox = c, !.items = a] = [[kvq EXCEPT !.outbox = c] EXCEPT !.items = a]
      OBVIOUS
    <2>. HIDE DEF k
    <2>. QED  BY <2>1, <2>2, <2>3
  <1>3. [kvq EXCEPT !.items = a] = [items |-> a, meta |-> kvq.meta, outbox |-> kvq.outbox]
    OBVIOUS
  <1>4. [kvq EXCEPT !.items = a, !.meta = b] = [items |-> a, meta |-> b, outbox |-> kvq.outbox]
    <2> DEFINE k == [items |-> a, meta |-> kvq.meta, outbox |-> kvq.outbox]
    <2>1. [kvq EXCEPT !.items = a] = k
      OBVIOUS
    <2>2. [k EXCEPT !.meta = b] = [items |-> a, meta |-> b, outbox |-> kvq.outbox]
      OBVIOUS
    <2>3. [kvq EXCEPT !.items = a, !.meta = b] = [[kvq EXCEPT !.items = a] EXCEPT !.meta = b]
      OBVIOUS
    <2>. HIDE DEF k
    <2>. QED  BY <2>1, <2>2, <2>3
  <1>5. [kvq EXCEPT !.meta = b] = [items |-> kvq.items, meta |-> b, outbox |-> kvq.outbox]
    OBVIOUS
  <1>. QED  BY <1>1, <1>2, <1>3, <1>4, <1>5

LEMMA KvUpdates ==
  ASSUME kv \in KvType, NEW a, NEW b, NEW c
  PROVE  /\ [kv EXCEPT !.outbox = c] = [items |-> kv.items, rev |-> kv.rev, outbox |-> c]
         /\ [kv EXCEPT !.items = a] = [items |-> a, rev |-> kv.rev, outbox |-> kv.outbox]
         /\ [kv EXCEPT !.rev = b] = [items |-> kv.items, rev |-> b, outbox |-> kv.outbox]
  BY DEF KvType

\* The flush as the callers leave it.
LEMMA FlushIsTyped ==
  ASSUME NEW f \in FlushType, f.at \in {"idle", "begin", "sync"} => f.answer = "none",
         f.at \in {"post", "del", "put"} => f.op \in OpType
  PROVE  /\ Called(f) \in FlushType /\ Finished(f) \in FlushType
         /\ Called(f).at = IF f.at = "idle" THEN "begin" ELSE f.at
         /\ Called(f).op = f.op /\ Called(f).answer = f.answer /\ Called(f).try = f.try
         /\ Finished(f).at \in {"begin", "idle"} /\ Finished(f).answer = "none"
         /\ Finished(f).op = NoOp
  BY DEF FlushType, Called, Finished

\* A transaction added to, or gone from, the queue of one store.
LEMMA QueuesAreTyped ==
  ASSUME TypeOK
  PROVE  /\ kvq.outbox \in Seq(OutboxTx) /\ kvq.items \in Seq(ItemsTx) /\ kvq.meta \in Seq(MetaTx)
         /\ \A tx \in OutboxTx : Append(kvq.outbox, tx) \in Seq(OutboxTx)
         /\ kvq.outbox # <<>> => Head(kvq.outbox) \in OutboxTx /\ Tail(kvq.outbox) \in Seq(OutboxTx)
         /\ \A tx \in ItemsTx : Append(kvq.items, tx) \in Seq(ItemsTx)
         /\ kvq.items # <<>> => Head(kvq.items) \in ItemsTx /\ Tail(kvq.items) \in Seq(ItemsTx)
         /\ \A tx \in MetaTx : Append(kvq.meta, tx) \in Seq(MetaTx)
         /\ kvq.meta # <<>> => Head(kvq.meta) \in MetaTx /\ Tail(kvq.meta) \in Seq(MetaTx)
  <1>1. kvq.outbox \in Seq(OutboxTx) /\ kvq.items \in Seq(ItemsTx) /\ kvq.meta \in Seq(MetaTx)
    BY DEF TypeOK, KvqType
  <1>. QED  BY <1>1, HeadTailProperties, AppendProperties

LEMMA InitTyped == Init => TypeOK
  <1> SUFFICES ASSUME Init PROVE TypeOK
    OBVIOUS
  <1>1. srv \in Tables /\ base \in Library /\ kv.items \in Library
    BY NothingYet DEF Init
  <1>2. outbox \in Seq(QueuedType) /\ applied \in Seq(1..MaxWrites)
    BY EmptySeq DEF Init
  <1>3. kvq \in KvqType
    BY EmptySeq DEF Init, NoTxs, KvqType
  <1>4. flush \in FlushType /\ flush.at = "idle" /\ flush.answer = "none"
    BY DEF Init, IdleFlush, FlushType
  <1>5. syncs \in [SyncNames -> SyncType]
    BY DEF Init, NoSync, SyncType
  <1>6. etag \in TagType
    BY DEF Init, NoTag, TagType
  <1>7. kv \in KvType
    BY NothingYet DEF Init, KvType
  <1>8. spent \in SpentType
    BY BoundsAssumption DEF Init, SpentType
  <1>9. wire \subseteq [try : Nat, op : OpType] /\ refused \cup cancelled \subseteq 1..MaxWrites
        /\ rev \in Nat /\ timer \in BOOLEAN
    BY DEF Init
  <1>. QED  BY <1>1, <1>2, <1>3, <1>4, <1>5, <1>6, <1>7, <1>8, <1>9 DEF TypeOK

LEMMA SpendIsTyped ==
  ASSUME TypeOK, NEW what \in {"other", "lost", "reloads", "syncs", "cancels", "tries"}, Spend(what)
  PROVE  /\ spent' \in SpentType
         /\ spent'.writes = spent.writes /\ spent'.loaded = spent.loaded
         /\ what # "tries" => spent'.tries = spent.tries
         /\ what # "lost" => spent'.lost = spent.lost
         /\ what = "tries" => spent'.tries = spent.tries + 1
         /\ what = "lost" => spent'.lost = spent.lost + 1
  <1>1. spent \in SpentType /\ spent' = [spent EXCEPT ![what] = @ + 1]
    BY DEF TypeOK, Spend
  <1>2. CASE what = "other"
    BY <1>1, <1>2 DEF SpentType
  <1>3. CASE what = "lost"
    BY <1>1, <1>3 DEF SpentType
  <1>4. CASE what = "reloads"
    BY <1>1, <1>4 DEF SpentType
  <1>5. CASE what = "syncs"
    BY <1>1, <1>5 DEF SpentType
  <1>6. CASE what = "cancels"
    BY <1>1, <1>6 DEF SpentType
  <1>7. CASE what = "tries"
    BY <1>1, <1>7 DEF SpentType
  <1>. QED  BY <1>2, <1>3, <1>4, <1>5, <1>6, <1>7

\* An answer for the flush.
LEMMA AnswerIsTyped ==
  ASSUME TypeOK, NEW a \in {"ok", "refused"}, flush.at = "post"
  PROVE  /\ [flush EXCEPT !.answer = a] \in FlushType
         /\ [flush EXCEPT !.answer = a].at = "post" /\ [flush EXCEPT !.answer = a].op = flush.op
         /\ [flush EXCEPT !.answer = a].try = flush.try /\ [flush EXCEPT !.answer = a].answer = a
  BY DEF TypeOK, FlushType

LEMMA HandleTyped ==
  ASSUME TypeOK, NEW m \in wire, Handle(m)
  PROVE  TypeOK'
  <1>1. m \in [try : Nat, op : OpType] /\ m.op \in OpType /\ m.op.key \in 1..MaxWrites
    BY DEF TypeOK, OpType
  <1>2. srv' \in Tables
    BY <1>1, CarryIsTyped DEF Handle, TypeOK
  <1>3. applied' \in Seq(1..MaxWrites)
    <2>1. applied \in Seq(1..MaxWrites)
      BY DEF TypeOK
    <2>2. Append(applied, m.op.key) \in Seq(1..MaxWrites)
      BY <1>1, <2>1, AppendProperties
    <2>3. applied' = Append(applied, m.op.key) \/ applied' = applied
      BY DEF Handle
    <2>. QED  BY <2>1, <2>2, <2>3
  <1>4. refused' \subseteq 1..MaxWrites /\ wire' \subseteq [try : Nat, op : OpType]
    BY <1>1 DEF Handle, TypeOK
  <1>5. /\ flush' \in FlushType /\ (flush'.at \in {"idle", "begin", "sync"} => flush'.answer = "none")
        /\ (flush'.at \in {"post", "del", "put"} => flush'.op \in OpType)
    <2>1. CASE Live(m)
      <3>1. flush.at = "post"
        BY <2>1 DEF Live
      <3>. QED  BY <2>1, <3>1, AnswerIsTyped DEF Handle, TypeOK
    <2>2. CASE ~Live(m)
      BY <2>2 DEF Handle, TypeOK
    <2>. QED  BY <2>1, <2>2
  <1>6. UNCHANGED <<base, rev, etag, outbox, syncs, timer, kv, kvq, cancelled, spent>>
    BY DEF Handle
  <1>. QED  BY <1>2, <1>3, <1>4, <1>5, <1>6 DEF TypeOK

LEMMA ReadTyped ==
  ASSUME TypeOK, NEW w \in SyncNames, Read(w)
  PROVE  TypeOK'
  <1>1. syncs[w] \in SyncType /\ syncs[w].at = "sent"
    BY DEF TypeOK, Read
  <1>2. syncs[w].since \in Nat /\ syncs[w].boot \in BOOLEAN
    BY <1>1 DEF SyncType
  <1>3. Index(srv, syncs[w].since) \in IndexType /\ Tag(srv.rev, syncs[w].since) \in TagType
    BY <1>2, IndexIsTyped DEF TypeOK, Tables, Tag, TagType
  <1>4. /\ [at |-> "unchanged", boot |-> syncs[w].boot] \in SyncType
        /\ [at |-> "back", boot |-> syncs[w].boot, idx |-> Index(srv, syncs[w].since),
            tag |-> Tag(srv.rev, syncs[w].since)] \in SyncType
    BY <1>2, <1>3 DEF SyncType
  <1>5. syncs' \in [SyncNames -> SyncType]
    BY <1>4 DEF Read, TypeOK
  <1>. QED  BY <1>5 DEF Read, TypeOK, server

LEMMA OtherWriteTyped ==
  ASSUME TypeOK, NEW w \in Writes, OtherWrite(w)
  PROVE  TypeOK'
  <1>1. w.game \in Games /\ w.kind \in Kinds /\ (w.kind # "remove" => w.content \in Contents)
    BY WritesAssumption DEF WriteType, Fitting
  <1>2. srv' \in Tables
    <2>1. CASE w.kind = "remove"
      BY <1>1, <2>1, DeleteIsTyped DEF OtherWrite, Carry, TypeOK
    <2>2. CASE w.kind # "remove"
      BY <1>1, <2>2, StatementType DEF OtherWrite, Carry, TypeOK
    <2>. QED  BY <2>1, <2>2
  <1>3. spent' \in SpentType
    BY SpendIsTyped DEF OtherWrite
  <1>. QED  BY <1>2, <1>3 DEF OtherWrite, TypeOK, memory

\* The head of the outbox starts or stops being sent.
LEMMA MarkIsTyped ==
  ASSUME NEW ops \in Seq(QueuedType), ops # <<>>, NEW b \in BOOLEAN
  PROVE  /\ [ops EXCEPT ![1].sending = b] \in Seq(QueuedType)
         /\ Len([ops EXCEPT ![1].sending = b]) = Len(ops)
         /\ \A i \in 1..Len(ops) :
              /\ Plain([ops EXCEPT ![1].sending = b][i]) = Plain(ops[i])
              /\ [ops EXCEPT ![1].sending = b][i].key = ops[i].key
              /\ [ops EXCEPT ![1].sending = b][i].persisted = ops[i].persisted
              /\ [ops EXCEPT ![1].sending = b][i].sending = IF i = 1 THEN b ELSE ops[i].sending
  <1> DEFINE head == [ops[1] EXCEPT !.sending = b]
  <1>1. Len(ops) \in Nat /\ 1 \in 1..Len(ops) /\ \A i \in 1..Len(ops) : ops[i] \in QueuedType
    BY EmptySeq, LenProperties
  <1>2. /\ head \in QueuedType /\ Plain(head) = Plain(ops[1]) /\ head.key = ops[1].key
        /\ head.persisted = ops[1].persisted /\ head.sending = b
    BY <1>1 DEF QueuedType, Plain, Fitting
  <1>3. [ops EXCEPT ![1].sending = b] = [ops EXCEPT ![1] = head]
    OBVIOUS
  <1>. HIDE DEF head
  <1>4. /\ [ops EXCEPT ![1] = head] \in Seq(QueuedType) /\ Len([ops EXCEPT ![1] = head]) = Len(ops)
        /\ \A i \in 1..Len(ops) : [ops EXCEPT ![1] = head][i] = IF i = 1 THEN head ELSE ops[i]
    BY <1>1, <1>2, ExceptSeq
  <1>. QED  BY <1>2, <1>3, <1>4

\* What is at the head of the outbox.
LEMMA HeadIsFirst ==
  ASSUME NEW S, NEW s \in Seq(S), s # <<>>
  PROVE  Head(s) = s[1] /\ 1 \in 1..Len(s) /\ Head(s) \in S /\ Len(s) \in Nat
  <1>1. 1 \in 1..Len(s) /\ Len(s) \in Nat
    BY EmptySeq
  <1>2. Head(s) \in S
    BY HeadTailProperties
  <1>3. Head(s) = s[1]
    OBVIOUS
  <1>. QED  BY <1>1, <1>2, <1>3

LEMMA SendTyped ==
  ASSUME TypeOK, NEW w \in Writes, Send(w)
  PROVE  TypeOK'
  <1> DEFINE op == [key |-> spent.writes + 1, kind |-> w.kind, game |-> w.game, content |-> w.content]
             tx == [do |-> "put", by |-> "send", op |-> op]
  <1>1. spent.writes \in Nat /\ spent.writes + 1 \in 1..MaxWrites /\ spent' \in SpentType
    <2>1. spent \in SpentType /\ spent.writes < MaxWrites /\ MaxWrites \in Nat
      BY BoundsAssumption DEF TypeOK, Send
    <2>2. spent' = [spent EXCEPT !["writes"] = @ + 1]
      BY DEF Send, Spend
    <2>. QED  BY <2>1, <2>2 DEF SpentType
  <1>2. op \in OpType
    BY <1>1, WritesAssumption DEF WriteType, OpType, Fitting
  <1>3. outbox' = Append(outbox, Waiting(op, FALSE)) /\ kvq' = [kvq EXCEPT !.outbox = Append(@, tx)]
    BY DEF Send
  <1>. HIDE DEF op
  <1>4. outbox' \in Seq(QueuedType)
    BY <1>2, <1>3, WaitingIsTyped, AppendProperties DEF TypeOK
  <1>5. tx \in OutboxTx
    BY <1>2 DEF OutboxTx
  <1>. HIDE DEF tx
  <1>6. kvq' \in KvqType
    BY <1>3, <1>5, QueuesAreTyped, KvqUpdates DEF TypeOK, KvqType
  <1>. QED  BY <1>1, <1>4, <1>6 DEF Send, TypeOK, server

LEMMA CancelTyped ==
  ASSUME TypeOK, NEW i \in DOMAIN outbox, Cancel(i)
  PROVE  TypeOK'
  <1> DEFINE tx == [do |-> "del", by |-> "cancel", op |-> Plain(outbox[i])]
  <1>1. outbox \in Seq(QueuedType) /\ outbox[i] \in QueuedType
    BY LenProperties DEF TypeOK
  <1>2. outbox' \in Seq(QueuedType)
    BY <1>1, Removal DEF Cancel
  <1>3. tx \in OutboxTx
    BY <1>1, PlainIsTyped DEF OutboxTx
  <1>4. kvq' = [kvq EXCEPT !.outbox = Append(@, tx)]
    BY DEF Cancel
  <1>. HIDE DEF tx
  <1>5. kvq' \in KvqType
    BY <1>3, <1>4, QueuesAreTyped, KvqUpdates DEF TypeOK, KvqType
  <1>6. spent' \in SpentType
    BY SpendIsTyped DEF Cancel
  <1>. QED  BY <1>2, <1>5, <1>6 DEF Cancel, TypeOK, server

LEMMA StartIsTyped ==
  ASSUME TypeOK, NEW w \in SyncNames, NEW b \in BOOLEAN
  PROVE  [syncs EXCEPT ![w] = StartSync(b)] \in [SyncNames -> SyncType]
  <1>1. StartSync(b) \in SyncType
    BY DEF StartSync, SyncType, TypeOK
  <1>. QED  BY <1>1 DEF TypeOK

LEMMA LoopTyped ==
  ASSUME TypeOK, Loop
  PROVE  TypeOK'
  <1>1. /\ flush \in FlushType /\ flush.at = "begin" /\ flush.answer = "none"
        /\ outbox \in Seq(QueuedType)
    BY DEF Loop, TypeOK
  <1>2. CASE outbox = <<>>
    <2>1. flush' \in FlushType /\ flush'.at = "sync" /\ flush'.answer = "none"
      BY <1>1, <1>2 DEF Loop, FlushType
    <2>2. syncs' \in [SyncNames -> SyncType]
      BY <1>2, StartIsTyped DEF Loop, SyncNames
    <2>. QED  BY <1>2, <2>1, <2>2 DEF Loop, TypeOK
  <1>3. CASE outbox # <<>> /\ ~Sendable(Head(outbox))
    <2>1. flush' = Finished(flush)
      BY <1>3 DEF Loop
    <2>2. flush' \in FlushType /\ flush'.at \in {"begin", "idle"} /\ flush'.answer = "none"
      BY <1>1, <2>1, FlushIsTyped
    <2>. QED  BY <1>3, <2>2 DEF Loop, TypeOK
  <1>4. CASE outbox # <<>> /\ Sendable(Head(outbox))
    <2> DEFINE op == Plain(Head(outbox))
    <2>1. op \in OpType
      BY <1>1, <1>4, HeadIsFirst, PlainIsTyped
    <2>. HIDE DEF op
    <2>2. spent.tries + 1 \in Nat /\ spent' \in SpentType
      BY <1>4, SpendIsTyped DEF Loop, TypeOK, SpentType
    <2>3. flush' = [flush EXCEPT !.at = "post", !.op = op, !.try = spent.tries + 1]
      BY <1>4 DEF Loop, op
    <2>4. flush' \in FlushType /\ flush'.at = "post" /\ flush'.op = op
      BY <1>1, <2>1, <2>2, <2>3 DEF FlushType
    <2>5. outbox' \in Seq(QueuedType)
      BY <1>1, <1>4, MarkIsTyped DEF Loop
    <2>6. wire' \subseteq [try : Nat, op : OpType]
      BY <1>4, <2>1, <2>2 DEF Loop, TypeOK, op
    <2>. QED  BY <1>4, <2>1, <2>2, <2>4, <2>5, <2>6 DEF Loop, TypeOK
  <1>. QED  BY <1>2, <1>3, <1>4

LEMMA FailTyped ==
  ASSUME TypeOK, Fail, outbox # <<>>
  PROVE  TypeOK'
  <1>1. flush \in FlushType /\ flush.at = "post" /\ flush.op \in OpType /\ outbox \in Seq(QueuedType)
    BY DEF Fail, TypeOK
  <1>2. flush' \in FlushType /\ flush'.at \in {"begin", "idle"} /\ flush'.answer = "none"
    BY <1>1, FlushIsTyped DEF Fail
  <1>3. outbox' \in Seq(QueuedType)
    BY <1>1, MarkIsTyped DEF Fail, PutBack
  <1>4. wire' \subseteq [try : Nat, op : OpType]
    BY DEF Fail, TypeOK
  <1>5. spent' \in SpentType
    BY SpendIsTyped DEF Fail
  <1>. QED  BY <1>2, <1>3, <1>4, <1>5 DEF Fail, TypeOK

\* What is left of the outbox once its head is off it.
LEMMA RestIsTyped ==
  ASSUME NEW S, NEW s \in Seq(S), s # <<>>
  PROVE  /\ SubSeq(s, 2, Len(s)) \in Seq(S)
         /\ Len(SubSeq(s, 2, Len(s))) = Len(s) - 1
         /\ \A i \in 1..(Len(s) - 1) : SubSeq(s, 2, Len(s))[i] = s[i + 1]
  BY HeadTailProperties, TailIsSubSeq

LEMMA AnsweredTyped ==
  ASSUME TypeOK, Answered, outbox # <<>>
  PROVE  TypeOK'
  <1> DEFINE tx == [do |-> "del", by |-> "flush", op |-> flush.op]
  <1>1. flush \in FlushType /\ flush.at = "post" /\ flush.op \in OpType /\ outbox \in Seq(QueuedType)
    BY DEF Answered, TypeOK
  <1>2. outbox' \in Seq(QueuedType)
    BY <1>1, RestIsTyped DEF Answered
  <1>3. tx \in OutboxTx
    BY <1>1 DEF OutboxTx
  <1>4. kvq' = [kvq EXCEPT !.outbox = Append(@, tx)]
    BY DEF Answered
  <1>. HIDE DEF tx
  <1>5. kvq' \in KvqType
    BY <1>3, <1>4, QueuesAreTyped, KvqUpdates DEF TypeOK, KvqType
  <1>6. flush' \in FlushType /\ flush'.at = "del" /\ flush'.op = flush.op
    BY <1>1 DEF Answered, FlushType
  <1>. QED  BY <1>1, <1>2, <1>5, <1>6 DEF Answered, TypeOK, server

\* flush goes on once its write is off the disk, or in the copy on disk.
LEMMA ResumeIsTyped ==
  ASSUME flush \in FlushType
  PROVE  /\ [flush EXCEPT !.at = "begin", !.answer = "none"] \in FlushType
         /\ [flush EXCEPT !.at = "begin", !.answer = "none"].at = "begin"
         /\ [flush EXCEPT !.at = "begin", !.answer = "none"].answer = "none"
         /\ [flush EXCEPT !.at = "put"] \in FlushType
         /\ [flush EXCEPT !.at = "put"].at = "put"
         /\ [flush EXCEPT !.at = "put"].op = flush.op
  BY DEF FlushType

\* A transaction on the outbox store, by what it does.
LEMMA OutboxDoneCases ==
  ASSUME TypeOK, OutboxDone
  PROVE  \E tx \in OutboxTx :
           /\ kvq.outbox # <<>> /\ tx = Head(kvq.outbox)
           /\ \/ /\ tx.do = "put"
                 /\ kv' = [kv EXCEPT !.outbox = kv.outbox \cup {tx.op}]
                 /\ outbox' = Persisted(outbox, tx.op.key)
                 /\ flush' = Called(flush)
                 /\ kvq' = [kvq EXCEPT !.outbox = Tail(kvq.outbox)]
                 /\ UNCHANGED <<base, cancelled>>
              \/ /\ tx.do = "del"
                 /\ kv' = [kv EXCEPT !.outbox = Erased(kv.outbox, tx.op.key)]
                 /\ cancelled' = cancelled \cup IF tx.by = "cancel" THEN {tx.op.key} ELSE {}
                 /\ Removed(tx) /\ outbox' = outbox
  <1>1. kvq.outbox # <<>> /\ Head(kvq.outbox) \in OutboxTx
    BY QueuesAreTyped DEF OutboxDone
  <1>2. Head(kvq.outbox).do \in {"put", "del"}
    BY <1>1 DEF OutboxTx
  <1>3. CASE Head(kvq.outbox).do = "put"
    BY <1>1, <1>3 DEF OutboxDone
  <1>4. CASE Head(kvq.outbox).do = "del"
    BY <1>1, <1>4 DEF OutboxDone
  <1>. QED  BY <1>2, <1>3, <1>4

LEMMA PersistIsTyped ==
  ASSUME NEW ops \in Seq(QueuedType), NEW k
  PROVE  /\ Persisted(ops, k) \in Seq(QueuedType) /\ Len(Persisted(ops, k)) = Len(ops)
         /\ \A i \in 1..Len(ops) :
              /\ Plain(Persisted(ops, k)[i]) = Plain(ops[i]) /\ Persisted(ops, k)[i].key = ops[i].key
              /\ Persisted(ops, k)[i].sending = ops[i].sending
              /\ Persisted(ops, k)[i].persisted => ops[i].persisted \/ ops[i].key = k
              /\ ops[i].persisted => Persisted(ops, k)[i].persisted
  <1> DEFINE at(i) == IF ops[i].key = k THEN [ops[i] EXCEPT !.persisted = TRUE] ELSE ops[i]
             marked == [i \in DOMAIN ops |-> at(i)]
  <1>1. Len(ops) \in Nat /\ DOMAIN ops = 1..Len(ops) /\ \A i \in 1..Len(ops) : ops[i] \in QueuedType
    BY LenProperties
  <1>2. ASSUME NEW i \in 1..Len(ops)
        PROVE  /\ at(i) \in QueuedType
               /\ Plain(at(i)) = Plain(ops[i]) /\ at(i).key = ops[i].key
               /\ at(i).sending = ops[i].sending
               /\ at(i).persisted => ops[i].persisted \/ ops[i].key = k
               /\ ops[i].persisted => at(i).persisted
    BY <1>1 DEF QueuedType, Plain, Fitting
  <1>. HIDE DEF at
  <1>3. marked \in [1..Len(ops) -> QueuedType]
    BY <1>1, <1>2
  <1>4. marked \in Seq(QueuedType) /\ Len(marked) = Len(ops)
    BY <1>1, <1>3, SeqDef
  <1>5. \A i \in 1..Len(ops) : marked[i] = at(i)
    BY <1>1
  <1>. HIDE DEF marked
  <1>6. /\ marked \in Seq(QueuedType) /\ Len(marked) = Len(ops)
        /\ \A i \in 1..Len(ops) :
             /\ Plain(marked[i]) = Plain(ops[i]) /\ marked[i].key = ops[i].key
             /\ marked[i].sending = ops[i].sending
             /\ marked[i].persisted => ops[i].persisted \/ ops[i].key = k
             /\ ops[i].persisted => marked[i].persisted
    BY <1>2, <1>4, <1>5
  <1>7. Persisted(ops, k) = marked
    BY DEF Persisted, marked, at
  <1>. QED  BY <1>6, <1>7

\* The confirmed entry, in the copy in memory and on its way to disk.
LEMMA ConfirmedIsTyped ==
  ASSUME NEW op \in OpType
  PROVE  /\ \A entries \in Library : [entries EXCEPT ![op.game] = op.content] \in Library
         /\ [by |-> "put", rev |-> 0, set |-> [g \in {op.game} |-> op.content]] \in ItemsTx
  <1>1. op.game \in Games /\ op.content \in Contents \cup {Absent}
    BY DEF OpType
  <1>2. \A entries \in Library : [entries EXCEPT ![op.game] = op.content] \in Library
    BY <1>1 DEF Library
  <1>3. [g \in {op.game} |-> op.content] \in [{op.game} -> Contents \cup {Absent}]
    BY <1>1
  <1>4. {op.game} \in SUBSET Games
    BY <1>1
  <1>5. [g \in {op.game} |-> op.content] \in SomeEntries
    BY <1>3, <1>4 DEF SomeEntries
  <1>6. [by |-> "put", rev |-> 0, set |-> [g \in {op.game} |-> op.content]] \in ItemsTx
    BY <1>5 DEF ItemsTx
  <1>. QED  BY <1>2, <1>6

\* What a write going off the disk does to the flush.
LEMMA RemovedCases ==
  ASSUME NEW tx \in OutboxTx, Removed(tx)
  PROVE  \/ /\ tx.by = "flush" /\ flush.answer = "ok"
            /\ base' = [base EXCEPT ![flush.op.game] = flush.op.content]
            /\ flush' = [flush EXCEPT !.at = "put"]
            /\ kvq' = [kvq EXCEPT !.outbox = Tail(kvq.outbox),
                         !.items = Append(kvq.items, [by |-> "put", rev |-> 0, set |->
                                     [g \in {flush.op.game} |-> flush.op.content]])]
         \/ /\ tx.by = "flush" /\ flush.answer # "ok"
            /\ flush' = [flush EXCEPT !.at = "begin", !.answer = "none"]
            /\ kvq' = [kvq EXCEPT !.outbox = Tail(kvq.outbox)] /\ base' = base
         \/ /\ tx.by # "flush" /\ flush' = flush
            /\ kvq' = [kvq EXCEPT !.outbox = Tail(kvq.outbox)] /\ base' = base
  <1>1. CASE tx.by = "flush" /\ flush.answer = "ok"
    BY <1>1 DEF Removed
  <1>2. CASE tx.by = "flush" /\ flush.answer # "ok"
    BY <1>2 DEF Removed
  <1>3. CASE tx.by # "flush"
    BY <1>3 DEF Removed
  <1>. QED  BY <1>1, <1>2, <1>3

LEMMA OutboxDoneTyped ==
  ASSUME TypeOK, OutboxDone
  PROVE  TypeOK'
  <1>0. /\ flush \in FlushType /\ (flush.at \in {"idle", "begin", "sync"} => flush.answer = "none")
        /\ (flush.at \in {"post", "del", "put"} => flush.op \in OpType)
        /\ kv \in KvType /\ kvq \in KvqType /\ kv.outbox \subseteq OpType
    BY DEF TypeOK, KvType
  <1>1. PICK tx \in OutboxTx :
           /\ kvq.outbox # <<>> /\ tx = Head(kvq.outbox)
           /\ \/ /\ tx.do = "put"
                 /\ kv' = [kv EXCEPT !.outbox = kv.outbox \cup {tx.op}]
                 /\ outbox' = Persisted(outbox, tx.op.key)
                 /\ flush' = Called(flush)
                 /\ kvq' = [kvq EXCEPT !.outbox = Tail(kvq.outbox)]
                 /\ UNCHANGED <<base, cancelled>>
              \/ /\ tx.do = "del"
                 /\ kv' = [kv EXCEPT !.outbox = Erased(kv.outbox, tx.op.key)]
                 /\ cancelled' = cancelled \cup IF tx.by = "cancel" THEN {tx.op.key} ELSE {}
                 /\ Removed(tx) /\ outbox' = outbox
    BY OutboxDoneCases
  <1>2. tx.op \in OpType /\ tx.op.key \in 1..MaxWrites
    BY DEF OutboxTx, OpType
  <1>3. UNCHANGED <<server, rev, etag, syncs, timer, spent>>
    BY DEF OutboxDone
  <1>4. [kvq EXCEPT !.outbox = Tail(kvq.outbox)] \in KvqType
    BY <1>0, <1>1, QueuesAreTyped, KvqUpdates DEF KvqType
  <1>5. \A some \in SUBSET OpType : [kv EXCEPT !.outbox = some] \in KvType
    BY <1>0 DEF KvType
  <1>6. CASE tx.do = "put"
    <2>1. kv' \in KvType /\ kvq' \in KvqType
      <3>1. kv.outbox \cup {tx.op} \in SUBSET OpType
        BY <1>0, <1>2
      <3>. QED  BY <1>1, <1>4, <1>5, <1>6, <3>1
    <2>2. outbox' \in Seq(QueuedType)
      BY <1>1, <1>6, PersistIsTyped DEF TypeOK
    <2>3. /\ flush' \in FlushType /\ (flush'.at \in {"idle", "begin", "sync"} => flush'.answer = "none")
          /\ (flush'.at \in {"post", "del", "put"} => flush'.op \in OpType)
      BY <1>0, <1>1, <1>6, FlushIsTyped
    <2>4. UNCHANGED <<base, cancelled>>
      BY <1>1, <1>6
    <2>. QED  BY <1>3, <2>1, <2>2, <2>3, <2>4 DEF TypeOK, server
  <1>7. CASE tx.do = "del"
    <2>1. kv' \in KvType
      <3>1. Erased(kv.outbox, tx.op.key) \in SUBSET OpType
        BY <1>0 DEF Erased
      <3>. QED  BY <1>1, <1>5, <1>7, <3>1
    <2>2. refused' \cup cancelled' \subseteq 1..MaxWrites
      BY <1>1, <1>2, <1>3, <1>7 DEF TypeOK, server
    <2>3. outbox' \in Seq(QueuedType) /\ Removed(tx)
      BY <1>1, <1>7 DEF TypeOK
    <2>4. /\ flush' \in FlushType /\ (flush'.at \in {"idle", "begin", "sync"} => flush'.answer = "none")
          /\ (flush'.at \in {"post", "del", "put"} => flush'.op \in OpType)
          /\ base' \in Library /\ kvq' \in KvqType
      <3>1. CASE tx.by = "flush" /\ flush.answer = "ok"
        <4>1. /\ base' = [base EXCEPT ![flush.op.game] = flush.op.content]
              /\ flush' = [flush EXCEPT !.at = "put"]
              /\ kvq' = [kvq EXCEPT !.outbox = Tail(kvq.outbox),
                           !.items = Append(kvq.items, [by |-> "put", rev |-> 0, set |->
                                       [g \in {flush.op.game} |-> flush.op.content]])]
          BY <2>3, <3>1, RemovedCases
        <4>2. flush.op \in OpType
          BY <1>0, <3>1 DEF FlushType
        <4>3. base' \in Library
          BY <4>1, <4>2, ConfirmedIsTyped DEF TypeOK
        <4>4. flush' \in FlushType /\ flush'.at = "put" /\ flush'.op = flush.op
          BY <1>0, <4>1, ResumeIsTyped
        <4>5. kvq' \in KvqType
          BY <1>0, <1>1, <4>1, <4>2, ConfirmedIsTyped, QueuesAreTyped, KvqUpdates DEF KvqType
        <4>. QED  BY <4>2, <4>3, <4>4, <4>5
      <3>2. CASE ~(tx.by = "flush" /\ flush.answer = "ok")
        <4>1. /\ flush' = flush \/ flush' = [flush EXCEPT !.at = "begin", !.answer = "none"]
              /\ kvq' = [kvq EXCEPT !.outbox = Tail(kvq.outbox)] /\ base' = base
          BY <2>3, <3>2, RemovedCases
        <4>. QED  BY <1>0, <1>4, <4>1, ResumeIsTyped DEF TypeOK
      <3>. QED  BY <3>1, <3>2
    <2>. QED  BY <1>3, <2>1, <2>2, <2>3, <2>4 DEF TypeOK, server
  <1>8. tx.do \in {"put", "del"}
    BY DEF OutboxTx
  <1>. QED  BY <1>6, <1>7, <1>8

\* The end of a sync.
LEMMA SyncOverTyped ==
  ASSUME TypeOK, NEW w \in SyncNames, NEW ok \in BOOLEAN, SyncOver(w, ok)
  PROVE  /\ syncs' \in [SyncNames -> SyncType]
         /\ flush' \in {flush, Called(flush), Finished(flush)}
         /\ flush' \in FlushType /\ (flush'.at \in {"idle", "begin", "sync"} => flush'.answer = "none")
         /\ (flush'.at \in {"post", "del", "put"} => flush'.op \in OpType)
  <1>1. NoSync \in SyncType
    BY DEF NoSync, SyncType
  <1>2. syncs' \in [SyncNames -> SyncType]
    BY <1>1 DEF SyncOver, TypeOK
  <1>3. flush' \in {flush, Called(flush), Finished(flush)}
    BY DEF SyncOver
  <1>4. /\ flush \in FlushType /\ (flush.at \in {"idle", "begin", "sync"} => flush.answer = "none")
        /\ (flush.at \in {"post", "del", "put"} => flush.op \in OpType)
    BY DEF TypeOK
  <1>5. /\ flush' \in FlushType /\ (flush'.at \in {"idle", "begin", "sync"} => flush'.answer = "none")
        /\ (flush'.at \in {"post", "del", "put"} => flush'.op \in OpType)
    BY <1>3, <1>4, FlushIsTyped
  <1>. QED  BY <1>2, <1>3, <1>5

LEMMA ItemsDoneTyped ==
  ASSUME TypeOK, ItemsDone
  PROVE  TypeOK'
  <1> DEFINE tx == Head(kvq.items)
             kept == [g \in Games |-> IF g \in DOMAIN tx.set THEN tx.set[g] ELSE kv.items[g]]
  <1>1. kvq \in KvqType /\ kv \in KvType /\ kv.items \in Library /\ flush \in FlushType
    BY DEF TypeOK, KvType
  <1>2. tx \in ItemsTx /\ kvq.items # <<>>
    BY QueuesAreTyped DEF ItemsDone
  <1>3. kv' = [kv EXCEPT !.items = kept]
    BY DEF ItemsDone
  <1>4. kept \in Library
    <2>1. \A g \in DOMAIN tx.set : tx.set[g] \in Contents \cup {Absent}
      BY <1>2 DEF ItemsTx, SomeEntries
    <2>. QED  BY <1>1, <2>1 DEF Library
  <1>. HIDE DEF kept
  <1>5. kv' \in KvType
    BY <1>1, <1>3, <1>4 DEF KvType
  <1>6. CASE tx.by = "put"
    <2>1. flush' \in FlushType /\ flush'.at = "begin" /\ flush'.answer = "none"
      BY <1>1, <1>6, ResumeIsTyped DEF ItemsDone
    <2>2. kvq' = [kvq EXCEPT !.items = Tail(kvq.items)]
      BY <1>6 DEF ItemsDone
    <2>3. kvq' \in KvqType
      BY <1>1, <1>2, <2>2, QueuesAreTyped, KvqUpdates DEF KvqType
    <2>. QED  BY <1>5, <1>6, <2>1, <2>3 DEF ItemsDone, TypeOK, server
  <1>7. CASE tx.by # "put"
    <2> DEFINE next == [by |-> tx.by, rev |-> tx.rev]
    <2>1. tx.by \in SyncNames /\ tx.rev \in Nat
      BY <1>2, <1>7 DEF ItemsTx
    <2>2. next \in MetaTx
      BY <2>1 DEF MetaTx
    <2>3. kvq' = [kvq EXCEPT !.items = Tail(kvq.items), !.meta = Append(kvq.meta, next)]
      BY <1>7 DEF ItemsDone
    <2>. HIDE DEF next
    <2>4. kvq' \in KvqType
      BY <1>1, <1>2, <2>2, <2>3, QueuesAreTyped, KvqUpdates DEF KvqType
    <2>5. /\ syncs' = [syncs EXCEPT ![tx.by] = [at |-> "meta", boot |-> syncs[tx.by].boot]]
          /\ rev' = tx.rev /\ flush' = flush
      BY <1>7 DEF ItemsDone
    <2>6. syncs' \in [SyncNames -> SyncType]
      BY <2>1, <2>5 DEF TypeOK, SyncType
    <2>. QED  BY <1>5, <2>1, <2>4, <2>5, <2>6 DEF ItemsDone, TypeOK, server
  <1>. QED  BY <1>6, <1>7

LEMMA MetaDoneTyped ==
  ASSUME TypeOK, MetaDone
  PROVE  TypeOK'
  <1>1. kvq.meta # <<>> /\ Head(kvq.meta) \in MetaTx
    BY QueuesAreTyped DEF MetaDone
  <1>2. Head(kvq.meta).by \in SyncNames /\ Head(kvq.meta).rev \in Nat
    BY <1>1 DEF MetaTx
  <1>3. kv' \in KvType
    BY <1>2 DEF MetaDone, TypeOK, KvType
  <1>4. kvq' \in KvqType
    BY <1>1, QueuesAreTyped, KvqUpdates DEF MetaDone, TypeOK, KvqType
  <1>5. SyncOver(Head(kvq.meta).by, TRUE)
    BY DEF MetaDone
  <1>6. /\ syncs' \in [SyncNames -> SyncType]
        /\ flush' \in FlushType /\ (flush'.at \in {"idle", "begin", "sync"} => flush'.answer = "none")
        /\ (flush'.at \in {"post", "del", "put"} => flush'.op \in OpType)
    BY <1>2, <1>5, SyncOverTyped
  <1>. QED  BY <1>3, <1>4, <1>6 DEF MetaDone, TypeOK, server

LEMMA SyncEndsTyped ==
  ASSUME TypeOK, NEW w \in SyncNames, SyncUnchanged(w) \/ SyncFails(w)
  PROVE  TypeOK'
  <1>1. SyncOver(w, TRUE) \/ SyncOver(w, FALSE)
    BY DEF SyncUnchanged, SyncFails
  <1>2. /\ syncs' \in [SyncNames -> SyncType]
        /\ flush' \in FlushType /\ (flush'.at \in {"idle", "begin", "sync"} => flush'.answer = "none")
        /\ (flush'.at \in {"post", "del", "put"} => flush'.op \in OpType)
    BY <1>1, SyncOverTyped
  <1>3. spent' \in SpentType
    <2>1. CASE SyncUnchanged(w)
      BY <2>1 DEF SyncUnchanged, TypeOK
    <2>2. CASE SyncFails(w)
      BY <2>2, SpendIsTyped DEF SyncFails
    <2>. QED  BY <2>1, <2>2
  <1>4. UNCHANGED <<server, base, rev, etag, outbox, timer, kv, kvq, cancelled>>
    BY DEF SyncUnchanged, SyncFails
  <1>. QED  BY <1>2, <1>3, <1>4 DEF TypeOK, server

LEMMA SyncApplyTyped ==
  ASSUME TypeOK, NEW w \in SyncNames, SyncApply(w)
  PROVE  TypeOK'
  <1> DEFINE idx == syncs[w].idx
             new == Apply(base, idx)
             tx == [by |-> w, rev |-> idx.rev, set |-> OnDisk(idx, new)]
  <1>1. syncs[w] \in SyncType /\ syncs[w].at = "back"
    BY DEF TypeOK, SyncApply
  <1>2. idx \in IndexType /\ syncs[w].tag \in TagType /\ syncs[w].boot \in BOOLEAN
    BY <1>1 DEF SyncType
  <1>3. /\ base' = new /\ etag' = syncs[w].tag /\ kvq' = [kvq EXCEPT !.items = Append(kvq.items, tx)]
        /\ syncs' = [syncs EXCEPT ![w] = [at |-> "items", boot |-> syncs[w].boot]]
    BY DEF SyncApply
  <1>. HIDE DEF idx
  <1>4. new \in Library
    BY <1>2, ApplyIsTyped DEF TypeOK
  <1>. HIDE DEF new
  <1>5. OnDisk(idx, new) \in SomeEntries
    <2>1. DOMAIN idx.items \cup idx.deleted \in SUBSET Games /\ Games \in SUBSET Games
      BY <1>2 DEF IndexType, SomeEntries
    <2>2. \A some \in SUBSET Games : [g \in some |-> new[g]] \in [some -> Contents \cup {Absent}]
      BY <1>4 DEF Library
    <2>3. OnDisk(idx, new) = new \/ OnDisk(idx, new) = [g \in DOMAIN idx.items \cup idx.deleted |-> new[g]]
      BY DEF OnDisk
    <2>4. new \in [Games -> Contents \cup {Absent}]
      BY <1>4 DEF Library
    <2>. QED  BY <2>1, <2>2, <2>3, <2>4 DEF SomeEntries
  <1>6. tx \in ItemsTx
    BY <1>2, <1>5 DEF ItemsTx, IndexType
  <1>. HIDE DEF tx
  <1>7. kvq' \in KvqType
    BY <1>3, <1>6, QueuesAreTyped, KvqUpdates DEF TypeOK, KvqType
  <1>8. syncs' \in [SyncNames -> SyncType]
    BY <1>2, <1>3 DEF TypeOK, SyncType
  <1>. QED  BY <1>2, <1>3, <1>4, <1>7, <1>8 DEF SyncApply, TypeOK, server

LEMMA AppTyped ==
  ASSUME TypeOK, Visible \/ Online \/ RetryTimer
  PROVE  TypeOK'
  <1>1. CASE Visible
    <2>1. syncs' \in [SyncNames -> SyncType] /\ spent' \in SpentType
      BY <1>1, StartIsTyped, SpendIsTyped DEF Visible, SyncNames
    <2>. QED  BY <1>1, <2>1 DEF Visible, TypeOK, server
  <1>2. CASE Online \/ RetryTimer
    <2>1. spent' \in SpentType
      <3>1. CASE Online
        BY <3>1, SpendIsTyped DEF Online
      <3>2. CASE RetryTimer
        BY <3>2 DEF RetryTimer, TypeOK
      <3>. QED  BY <1>2, <3>1, <3>2
    <2>2. flush' = Called(flush) /\ timer' = FALSE
      BY <1>2 DEF Online, RetryTimer
    <2>3. /\ flush' \in FlushType /\ (flush'.at \in {"idle", "begin", "sync"} => flush'.answer = "none")
          /\ (flush'.at \in {"post", "del", "put"} => flush'.op \in OpType)
      BY <2>2, FlushIsTyped DEF TypeOK
    <2>4. UNCHANGED <<server, base, rev, etag, outbox, syncs, kv, kvq, cancelled>>
      BY <1>2 DEF Online, RetryTimer
    <2>. QED  BY <2>1, <2>2, <2>3, <2>4 DEF TypeOK, server
  <1>. QED  BY <1>1, <1>2

\* A page load finds what is on disk, in the order of the keys.
LEMMA ReloadCases ==
  ASSUME TypeOK, Numbered, Reload
  PROVE  \E ops \in Seq(OpType) :
           /\ ByKey(ops)
           /\ \A i \in 1..Len(ops) : ops[i] \in kv.outbox
           /\ \A op \in kv.outbox : \E i \in 1..Len(ops) : ops[i] = op
           /\ outbox' \in Seq(QueuedType) /\ Len(outbox') = Len(ops)
           /\ \A i \in 1..Len(ops) : outbox'[i] = Waiting(ops[i], TRUE)
  <1>1. Cardinality(kv.outbox) \in Nat /\ kv.outbox \subseteq OpType
    BY FS_CardinalityType DEF TypeOK, KvType, Numbered
  <1>2. PICK ops \in [1..Cardinality(kv.outbox) -> kv.outbox] :
          /\ ByKey(ops) /\ Range(ops) = kv.outbox
          /\ outbox' = [i \in DOMAIN ops |-> Waiting(ops[i], TRUE)]
    BY DEF Reload
  <1> DEFINE n == Cardinality(kv.outbox)
             queued == [i \in 1..n |-> Waiting(ops[i], TRUE)]
  <1>. HIDE DEF n
  <1>3. n \in Nat /\ ops \in [1..n -> OpType] /\ \A i \in 1..n : ops[i] \in kv.outbox
    BY <1>1, <1>2 DEF n
  <1>4. ops \in Seq(OpType) /\ Len(ops) = n
    BY <1>3, SeqDef
  <1>5. \A i \in 1..n : Waiting(ops[i], TRUE) \in QueuedType
    BY <1>3, WaitingIsTyped
  <1>6. queued \in [1..n -> QueuedType]
    BY <1>5
  <1>7. queued \in Seq(QueuedType) /\ Len(queued) = n
    <2>. HIDE DEF queued
    <2>. QED  BY <1>3, <1>6, SeqDef
  <1>8. outbox' = queued
    BY <1>2, <1>3
  <1>9. \A op \in kv.outbox : \E i \in 1..n : ops[i] = op
    BY <1>2, <1>3 DEF Range
  <1>. QED  BY <1>2, <1>3, <1>4, <1>7, <1>8, <1>9

LEMMA ReloadTyped ==
  ASSUME TypeOK, Numbered, Reload
  PROVE  TypeOK'
  <1>1. outbox' \in Seq(QueuedType)
    BY ReloadCases
  <1>2. spent' \in SpentType
    <2>1. spent \in SpentType
      BY DEF TypeOK
    <2>2. spent' = [spent EXCEPT !["reloads"] = @ + 1, !["loaded"] = spent.writes]
      BY DEF Reload
    <2>. QED  BY <2>1, <2>2 DEF SpentType
  <1>3. flush' \in FlushType /\ flush'.at = "idle" /\ flush'.answer = "none"
    BY DEF Reload, IdleFlush, FlushType
  <1>4. kvq' \in KvqType
    BY EmptySeq DEF Reload, NoTxs, KvqType
  <1>5. kv.items \in Library /\ kv.rev \in Nat /\ NoTag \in TagType
    BY DEF TypeOK, KvType, NoTag, TagType
  <1>6. syncs' \in [SyncNames -> SyncType]
    <2>1. NoSync \in SyncType /\ [at |-> "sent", boot |-> TRUE, since |-> kv.rev, etag |-> NoTag] \in SyncType
      BY <1>5 DEF NoSync, SyncType
    <2>. QED  BY <2>1 DEF Reload
  <1>. QED  BY <1>1, <1>2, <1>3, <1>4, <1>5, <1>6 DEF Reload, TypeOK, server

-----------------------------------------------------------------------------
(* The outbox and its copy on disk.                                        *)

LEMMA Shapes ==
  ASSUME TypeOK
  PROVE  /\ outbox \in Seq(QueuedType) /\ Len(outbox) \in Nat /\ DOMAIN outbox = 1..Len(outbox)
         /\ \A i \in 1..Len(outbox) : outbox[i] \in QueuedType /\ outbox[i].key \in Nat
         /\ Queue \in Seq(OutboxTx) /\ Len(Queue) \in Nat /\ DOMAIN Queue = 1..Len(Queue)
         /\ \A i \in 1..Len(Queue) : Queue[i] \in OutboxTx /\ Queue[i].op \in OpType /\ Queue[i].op.key \in Nat
         /\ \A op \in kv.outbox : op \in OpType /\ op.key \in Nat
         /\ spent.writes \in Nat /\ spent.tries \in Nat /\ spent.loaded \in Nat /\ spent.lost \in Nat
  <1>1. outbox \in Seq(QueuedType) /\ Queue \in Seq(OutboxTx) /\ kv.outbox \subseteq OpType
    BY DEF TypeOK, KvqType, KvType, Queue
  <1>2. \A o \in QueuedType : o.key \in Nat
    BY DEF QueuedType
  <1>3. \A op \in OpType : op.key \in Nat
    BY DEF OpType
  <1>4. \A tx \in OutboxTx : tx.op \in OpType
    BY DEF OutboxTx
  <1>5. spent.writes \in Nat /\ spent.tries \in Nat /\ spent.loaded \in Nat /\ spent.lost \in Nat
    BY DEF TypeOK, SpentType
  <1>. QED  BY <1>1, <1>2, <1>3, <1>4, <1>5, LenProperties

\* A transaction at the end of the queue of the outbox store.
LEMMA AddedTx ==
  ASSUME TypeOK, NEW tx \in OutboxTx, Queue' = Append(Queue, tx)
  PROVE  /\ DOMAIN Queue = 1..Len(Queue) /\ Len(Queue) \in Nat
         /\ DOMAIN Queue' = 1..(Len(Queue) + 1) /\ Queue'[Len(Queue) + 1] = tx
         /\ \A i \in 1..Len(Queue) : Queue'[i] = Queue[i]
         /\ \A i \in DOMAIN Queue' : (i \in DOMAIN Queue /\ Queue'[i] = Queue[i]) \/ Queue'[i] = tx
  <1>1. Queue \in Seq(OutboxTx) /\ Len(Queue) \in Nat /\ DOMAIN Queue = 1..Len(Queue)
    BY Shapes
  <1>2. /\ Len(Queue') = Len(Queue) + 1 /\ DOMAIN Queue' = 1..(Len(Queue) + 1)
        /\ \A i \in 1..Len(Queue) : Queue'[i] = Queue[i]
        /\ Queue'[Len(Queue) + 1] = tx
    <2>1. Append(Queue, tx) \in Seq(OutboxTx)
      BY <1>1, AppendProperties
    <2>. QED  BY <1>1, <2>1, AppendProperties, LenProperties
  <1>3. \A i \in 1..(Len(Queue) + 1) : i \in 1..Len(Queue) \/ i = Len(Queue) + 1
    BY <1>1
  <1>. QED  BY <1>1, <1>2, <1>3

\* What a write, an undo and an answer put into the queue.
LEMMA SendCases ==
  ASSUME TypeOK, NEW w \in Writes, Send(w)
  PROVE  /\ \E op \in OpType :
              /\ op.key = spent.writes + 1
              /\ outbox' = Append(outbox, Waiting(op, FALSE)) /\ Waiting(op, FALSE) \in QueuedType
              /\ Waiting(op, FALSE).key = op.key
              /\ Queue' = Append(Queue, [do |-> "put", by |-> "send", op |-> op])
              /\ [do |-> "put", by |-> "send", op |-> op] \in OutboxTx
         /\ spent'.writes = spent.writes + 1 /\ spent'.loaded = spent.loaded
         /\ spent'.lost = spent.lost /\ spent'.tries = spent.tries
  <1> DEFINE op == [key |-> spent.writes + 1, kind |-> w.kind, game |-> w.game, content |-> w.content]
             tx == [do |-> "put", by |-> "send", op |-> op]
  <1>1. /\ spent.writes + 1 \in 1..MaxWrites
        /\ spent'.writes = spent.writes + 1 /\ spent'.loaded = spent.loaded
        /\ spent'.lost = spent.lost /\ spent'.tries = spent.tries
    <2>1. spent \in SpentType /\ spent.writes < MaxWrites /\ MaxWrites \in Nat
      BY BoundsAssumption DEF TypeOK, Send
    <2>2. spent' = [spent EXCEPT !["writes"] = @ + 1]
      BY DEF Send, Spend
    <2>. QED  BY <2>1, <2>2 DEF SpentType
  <1>2. op \in OpType /\ op.key = spent.writes + 1
    BY <1>1, WritesAssumption DEF WriteType, OpType, Fitting
  <1>3. outbox' = Append(outbox, Waiting(op, FALSE)) /\ kvq' = [kvq EXCEPT !.outbox = Append(@, tx)]
    BY DEF Send
  <1>. HIDE DEF op
  <1>4. tx \in OutboxTx /\ tx = [do |-> "put", by |-> "send", op |-> op]
    BY <1>2 DEF OutboxTx
  <1>. HIDE DEF tx
  <1>5. Queue' = Append(Queue, tx)
    BY <1>3, KvqUpdates DEF TypeOK, Queue
  <1>6. Waiting(op, FALSE) \in QueuedType /\ Waiting(op, FALSE).key = op.key
    <2>1. Waiting(op, FALSE).key = op.key
      BY DEF Waiting
    <2>. QED  BY <1>2, <2>1, WaitingIsTyped
  <1>. QED  BY <1>1, <1>2, <1>3, <1>4, <1>5, <1>6

LEMMA CancelCases ==
  ASSUME TypeOK, NEW i \in DOMAIN outbox, Cancel(i)
  PROVE  /\ i \in 1..Len(outbox) /\ outbox[i] \in QueuedType
         /\ Plain(outbox[i]) \in OpType /\ Plain(outbox[i]).key = outbox[i].key
         /\ Queue' = Append(Queue, [do |-> "del", by |-> "cancel", op |-> Plain(outbox[i])])
         /\ [do |-> "del", by |-> "cancel", op |-> Plain(outbox[i])] \in OutboxTx
         /\ outbox' \in Seq(QueuedType) /\ Len(outbox') = Len(outbox) - 1
         /\ \A k \in 1..(Len(outbox) - 1) : outbox'[k] = IF k < i THEN outbox[k] ELSE outbox[k + 1]
         /\ spent'.writes = spent.writes /\ spent'.loaded = spent.loaded
         /\ spent'.lost = spent.lost /\ spent'.tries = spent.tries
  <1> DEFINE tx == [do |-> "del", by |-> "cancel", op |-> Plain(outbox[i])]
  <1>1. i \in 1..Len(outbox) /\ outbox \in Seq(QueuedType) /\ outbox[i] \in QueuedType
    BY Shapes
  <1>2. Plain(outbox[i]) \in OpType /\ Plain(outbox[i]).key = outbox[i].key
    BY <1>1, PlainIsTyped DEF Plain
  <1>3. tx \in OutboxTx
    BY <1>2 DEF OutboxTx
  <1>4. kvq' = [kvq EXCEPT !.outbox = Append(@, tx)] /\ outbox' = RemoveAt(outbox, i)
    BY DEF Cancel
  <1>5. Queue' = Append(Queue, tx)
    <2>. HIDE DEF tx
    <2>. QED  BY <1>4, KvqUpdates DEF TypeOK, Queue
  <1>6. /\ spent'.writes = spent.writes /\ spent'.loaded = spent.loaded
        /\ spent'.lost = spent.lost /\ spent'.tries = spent.tries
    BY SpendIsTyped DEF Cancel
  <1>. QED  BY <1>1, <1>2, <1>3, <1>4, <1>5, <1>6, Removal

LEMMA AnsweredCases ==
  ASSUME TypeOK, OutboxInv, Answered
  PROVE  /\ outbox # <<>> /\ flush.op = Plain(outbox[1]) /\ flush.op \in OpType
         /\ flush.op.key = outbox[1].key
         /\ Queue' = Append(Queue, [do |-> "del", by |-> "flush", op |-> flush.op])
         /\ [do |-> "del", by |-> "flush", op |-> flush.op] \in OutboxTx
         /\ outbox' \in Seq(QueuedType) /\ Len(outbox') = Len(outbox) - 1
         /\ \A k \in 1..(Len(outbox) - 1) : outbox'[k] = outbox[k + 1]
         /\ flush'.at = "del"
  <1> DEFINE tx == [do |-> "del", by |-> "flush", op |-> flush.op]
  <1>1. flush \in FlushType /\ flush.at = "post" /\ flush.op \in OpType /\ outbox \in Seq(QueuedType)
    BY Shapes DEF Answered, TypeOK
  <1>2. outbox # <<>> /\ flush.op = Plain(outbox[1])
    BY <1>1 DEF OutboxInv, Posted
  <1>3. tx \in OutboxTx
    BY <1>1 DEF OutboxTx
  <1>4. /\ kvq' = [kvq EXCEPT !.outbox = Append(@, tx)] /\ outbox' = SubSeq(outbox, 2, Len(outbox))
        /\ flush' = [flush EXCEPT !.at = "del"]
    BY DEF Answered
  <1>5. Queue' = Append(Queue, tx)
    <2>. HIDE DEF tx
    <2>. QED  BY <1>4, KvqUpdates DEF TypeOK, Queue
  <1>6. flush'.at = "del"
    BY <1>1, <1>4 DEF FlushType
  <1>7. flush.op.key = outbox[1].key
    BY <1>2 DEF Plain
  <1>. QED  BY <1>1, <1>2, <1>3, <1>4, <1>5, <1>6, <1>7, RestIsTyped

\* The first transaction of the outbox store ends; the flush goes on.
LEMMA OutboxDoneMoves ==
  ASSUME TypeOK, OutboxDone
  PROVE  /\ Queue # <<>> /\ Queue' = Tail(Queue) /\ Queue[1] \in OutboxTx
         /\ flush' \in {flush, Called(flush)} \/ flush'.at # "post"
         /\ \/ /\ Queue[1].do = "put" /\ kv'.outbox = kv.outbox \cup {Queue[1].op}
               /\ outbox' = Persisted(outbox, Queue[1].op.key) /\ cancelled' = cancelled
            \/ /\ Queue[1].do = "del" /\ kv'.outbox = Erased(kv.outbox, Queue[1].op.key)
               /\ outbox' = outbox
               /\ cancelled' = cancelled \cup IF Queue[1].by = "cancel" THEN {Queue[1].op.key} ELSE {}
  <1>1. PICK tx \in OutboxTx :
           /\ kvq.outbox # <<>> /\ tx = Head(kvq.outbox)
           /\ \/ /\ tx.do = "put"
                 /\ kv' = [kv EXCEPT !.outbox = kv.outbox \cup {tx.op}]
                 /\ outbox' = Persisted(outbox, tx.op.key)
                 /\ flush' = Called(flush)
                 /\ kvq' = [kvq EXCEPT !.outbox = Tail(kvq.outbox)]
                 /\ UNCHANGED <<base, cancelled>>
              \/ /\ tx.do = "del"
                 /\ kv' = [kv EXCEPT !.outbox = Erased(kv.outbox, tx.op.key)]
                 /\ cancelled' = cancelled \cup IF tx.by = "cancel" THEN {tx.op.key} ELSE {}
                 /\ Removed(tx) /\ outbox' = outbox
    BY OutboxDoneCases
  <1>2. Queue # <<>> /\ tx = Queue[1] /\ kvq \in KvqType /\ kv \in KvType /\ flush \in FlushType
    BY <1>1, Shapes, HeadIsFirst DEF Queue, OutboxDone, TypeOK
  <1>3. CASE tx.do = "put"
    <2> DEFINE some == kv.outbox \cup {tx.op}
    <2>1. kv' = [kv EXCEPT !.outbox = some]
      BY <1>1, <1>3
    <2>. HIDE DEF some
    <2>2. kv'.outbox = some
      BY <1>2, <2>1, KvUpdates
    <2>3. Queue' = Tail(Queue)
      BY <1>1, <1>2, <1>3, KvqUpdates DEF Queue
    <2>. QED  BY <1>1, <1>2, <1>3, <2>2, <2>3 DEF some
  <1>4. CASE tx.do = "del"
    <2>1. kv'.outbox = Erased(kv.outbox, tx.op.key)
      BY <1>1, <1>2, <1>4, KvUpdates
    <2>2. Queue' = Tail(Queue) /\ (flush' = flush \/ flush'.at # "post")
      <3>1. Removed(tx)
        BY <1>1, <1>4
      <3>2. /\ [flush EXCEPT !.at = "put"].at = "put"
            /\ [flush EXCEPT !.at = "begin", !.answer = "none"].at = "begin"
        BY <1>2, ResumeIsTyped
      <3>. QED  BY <1>2, <3>1, <3>2, RemovedCases, KvqUpdates DEF Queue
    <2>. QED  BY <1>1, <1>2, <1>4, <2>1, <2>2
  <1>5. tx.do \in {"put", "del"}
    BY DEF OutboxTx
  <1>. QED  BY <1>3, <1>4, <1>5

\* The steps of the other stores, of the syncs and of the app leave the outbox
\* and its copy on disk alone.
LEMMA RestMoves ==
  ASSUME TypeOK,
         \/ \E w \in SyncNames : Read(w) \/ SyncUnchanged(w) \/ SyncApply(w) \/ SyncFails(w)
         \/ ItemsDone \/ MetaDone \/ RetryTimer \/ Visible \/ Online
         \/ \E w \in Writes : OtherWrite(w)
         \/ UNCHANGED vars
  PROVE  /\ wire' = wire /\ applied' = applied /\ refused' = refused
         /\ outbox' = outbox /\ Queue' = Queue /\ kv'.outbox = kv.outbox /\ cancelled' = cancelled
         /\ flush' \in {flush, Called(flush), Finished(flush)} \/ flush'.at # "post"
         /\ spent'.writes = spent.writes /\ spent'.loaded = spent.loaded
         /\ spent'.tries = spent.tries /\ (spent'.lost = 0 => spent.lost = 0)
  <1>1. flush \in FlushType /\ kv \in KvType /\ kvq \in KvqType /\ spent.lost \in Nat
    BY Shapes DEF TypeOK
  <1>2. ASSUME NEW what \in {"other", "lost", "syncs"}, Spend(what)
        PROVE  /\ spent'.writes = spent.writes /\ spent'.loaded = spent.loaded
               /\ spent'.tries = spent.tries /\ (spent'.lost = 0 => spent.lost = 0)
    BY <1>1, <1>2, SpendIsTyped
  <1>3. ASSUME NEW w \in SyncNames, NEW ok \in BOOLEAN, SyncOver(w, ok)
        PROVE  flush' \in {flush, Called(flush), Finished(flush)}
    BY <1>3, SyncOverTyped
  <1>4. ASSUME NEW w \in SyncNames, Read(w) \/ SyncUnchanged(w) \/ SyncApply(w) \/ SyncFails(w)
        PROVE  /\ wire' = wire /\ applied' = applied /\ refused' = refused
               /\ outbox' = outbox /\ Queue' = Queue /\ kv'.outbox = kv.outbox /\ cancelled' = cancelled
               /\ flush' \in {flush, Called(flush), Finished(flush)}
               /\ spent'.writes = spent.writes /\ spent'.loaded = spent.loaded
               /\ spent'.tries = spent.tries /\ (spent'.lost = 0 => spent.lost = 0)
    <2>1. CASE Read(w)
      BY <2>1 DEF Read, Queue, server
    <2>2. CASE SyncUnchanged(w)
      BY <1>3, <2>2 DEF SyncUnchanged, Queue, server
    <2>3. CASE SyncFails(w)
      BY <1>2, <1>3, <2>3 DEF SyncFails, Queue, server
    <2>4. CASE SyncApply(w)
      <3>1. Queue' = Queue
        BY <1>1, <2>4, KvqUpdates DEF SyncApply, Queue
      <3>. QED  BY <2>4, <3>1 DEF SyncApply, server
    <2>. QED  BY <1>4, <2>1, <2>2, <2>3, <2>4
  <1>5. CASE ItemsDone
    <2>1. Queue' = Queue /\ kv'.outbox = kv.outbox
      BY <1>1, <1>5, KvqUpdates, KvUpdates DEF ItemsDone, Queue
    <2>2. flush' = flush \/ flush'.at # "post"
      BY <1>1, <1>5, ResumeIsTyped DEF ItemsDone
    <2>. QED  BY <1>5, <2>1, <2>2 DEF ItemsDone, server
  <1>6. CASE MetaDone
    <2>1. Queue' = Queue /\ kv'.outbox = kv.outbox
      BY <1>1, <1>6, KvqUpdates, KvUpdates DEF MetaDone, Queue
    <2>2. Head(kvq.meta).by \in SyncNames
      BY <1>6, QueuesAreTyped DEF MetaDone, MetaTx
    <2>3. flush' \in {flush, Called(flush), Finished(flush)}
      BY <1>3, <1>6, <2>2 DEF MetaDone
    <2>. QED  BY <1>6, <2>1, <2>3 DEF MetaDone, server
  <1>7. CASE RetryTimer
    BY <1>7 DEF RetryTimer, Queue, server
  <1>8. CASE Visible
    BY <1>2, <1>8 DEF Visible, Queue, server
  <1>9. CASE Online
    BY <1>2, <1>9 DEF Online, Queue, server
  <1>10. ASSUME NEW w \in Writes, OtherWrite(w)
         PROVE  /\ wire' = wire /\ applied' = applied /\ refused' = refused
                /\ outbox' = outbox /\ Queue' = Queue /\ kv'.outbox = kv.outbox /\ cancelled' = cancelled
                /\ flush' = flush
                /\ spent'.writes = spent.writes /\ spent'.loaded = spent.loaded
                /\ spent'.tries = spent.tries /\ (spent'.lost = 0 => spent.lost = 0)
    BY <1>2, <1>10 DEF OtherWrite, memory, Queue
  <1>11. CASE UNCHANGED vars
    BY <1>11 DEF vars, server, memory, Queue
  <1>. QED  BY <1>4, <1>5, <1>6, <1>7, <1>8, <1>9, <1>10, <1>11

\* The flush waits on for the same answer, or no longer for one.
LEMMA FlushWaitsOn ==
  ASSUME TypeOK, flush' \in {flush, Called(flush), Finished(flush)} \/ flush'.at # "post"
  PROVE  flush'.at = "post" =>
           /\ flush.at = "post" /\ flush'.op = flush.op /\ flush'.try = flush.try
           /\ flush'.answer = flush.answer
  <1>1. flush \in FlushType
    BY DEF TypeOK
  <1>2. /\ Called(flush).at = IF flush.at = "idle" THEN "begin" ELSE flush.at
        /\ Called(flush).op = flush.op /\ Called(flush).answer = flush.answer
        /\ Called(flush).try = flush.try /\ Finished(flush).at \in {"begin", "idle"}
    BY <1>1 DEF Called, Finished, FlushType
  <1>. QED  BY <1>2

\* A step that leaves the outbox, its disk and its transactions alone.
LEMMA Unmoved ==
  ASSUME OutboxInv, outbox' = outbox, Queue' = Queue, kv'.outbox = kv.outbox,
         spent'.writes = spent.writes,
         flush'.at = "post" => flush.at = "post" /\ flush'.op = flush.op
  PROVE  OutboxInv'
  <1>1. Numbered'
    BY DEF OutboxInv, Numbered, ByKey
  <1>2. Mirrored'
    BY DEF OutboxInv, Mirrored, Waits, Leaves, Plain
  <1>3. Posted'
    BY DEF OutboxInv, Posted, Plain
  <1>. QED  BY <1>1, <1>2, <1>3 DEF OutboxInv

LEMMA InitOutbox == Init => OutboxInv
  <1> SUFFICES ASSUME Init PROVE OutboxInv
    OBVIOUS
  <1>1. DOMAIN outbox = {} /\ DOMAIN Queue = {} /\ kv.outbox = {} /\ flush.at = "idle"
    BY DEF Init, Queue, NoTxs, IdleFlush
  <1>. QED  BY <1>1, FS_EmptySet DEF OutboxInv, Numbered, Mirrored, Posted, ByKey

\* Two numbered entries with one key are the same.
LEMMA OneEntry ==
  ASSUME TypeOK, Numbered, NEW i \in 1..Len(outbox), NEW j \in 1..Len(outbox),
         outbox[i].key = outbox[j].key
  PROVE  i = j
  <1>1. outbox[i].key \in Nat /\ outbox[j].key \in Nat /\ i \in Int /\ j \in Int
    BY Shapes
  <1>2. (i < j => outbox[i].key < outbox[j].key) /\ (j < i => outbox[j].key < outbox[i].key)
    BY Shapes DEF Numbered, ByKey
  <1>. QED  BY <1>1, <1>2

LEMMA SendKeepsOutbox ==
  ASSUME TypeOK, OutboxInv, NEW w \in Writes, Send(w)
  PROVE  OutboxInv'
  <1> DEFINE k == spent.writes + 1
             op == [key |-> k, kind |-> w.kind, game |-> w.game, content |-> w.content]
             o  == Waiting(op, FALSE)
             tx == [do |-> "put", by |-> "send", op |-> op]
             n  == Len(outbox)
             q  == Len(Queue)
  <1>1. n \in Nat /\ q \in Nat /\ spent.writes \in Nat /\ DOMAIN outbox = 1..n /\ DOMAIN Queue = 1..q
    BY Shapes
  <1>2. op \in OpType
    <2>1. k \in 1..MaxWrites
      <3>1. spent.writes < MaxWrites /\ MaxWrites \in Nat
        BY BoundsAssumption DEF Send
      <3>. QED  BY <1>1, <3>1
    <2>. HIDE DEF k
    <2>. QED  BY <2>1, WritesAssumption DEF WriteType, OpType, Fitting
  <1>3. o \in QueuedType /\ Plain(o) = op /\ o.key = k /\ ~o.persisted /\ tx \in OutboxTx /\ tx.op = op /\ op.key = k
    <2>1. o.key = op.key /\ ~o.persisted
      BY DEF Waiting
    <2>2. op.key = k
      OBVIOUS
    <2>3. tx.do = "put" /\ tx.op = op
      OBVIOUS
    <2>. HIDE DEF op
    <2>. QED  BY <1>2, <2>1, <2>2, <2>3, WaitingIsTyped DEF OutboxTx
  <1>4. /\ outbox' = Append(outbox, o) /\ kvq' = [kvq EXCEPT !.outbox = Append(kvq.outbox, tx)]
        /\ kv' = kv /\ flush' = flush /\ tx.do = "put"
    BY DEF Send
  <1>5. spent'.writes = k
    <2>1. spent \in SpentType /\ spent' = [spent EXCEPT !["writes"] = @ + 1]
      BY DEF TypeOK, Send, Spend
    <2>. QED  BY <2>1 DEF SpentType
  <1>. HIDE DEF o, tx, op
  <1>6. Queue' = Append(Queue, tx)
    BY <1>4, KvqUpdates DEF TypeOK, Queue
  <1>7. /\ DOMAIN outbox' = 1..(n + 1) /\ outbox'[n + 1] = o
        /\ \A i \in 1..n : outbox'[i] = outbox[i]
    BY <1>1, <1>3, <1>4, Shapes, AppendProperties, LenProperties
  <1>8. /\ DOMAIN Queue' = 1..(q + 1) /\ Queue'[q + 1] = tx
        /\ \A i \in 1..q : Queue'[i] = Queue[i]
    BY <1>1, <1>3, <1>6, Shapes, AppendProperties, LenProperties
  <1>. HIDE DEF n, q
  <1>9. Numbered'
    <2>1. ByKey(outbox)'
      <3>1. ASSUME NEW i \in DOMAIN outbox', NEW j \in DOMAIN outbox', i < j
            PROVE  outbox'[i].key < outbox'[j].key
        <4>1. i \in 1..n
          BY <1>1, <1>7, <3>1
        <4>2. CASE j \in 1..n
          BY <1>1, <1>7, <3>1, <4>1, <4>2 DEF OutboxInv, Numbered, ByKey
        <4>3. CASE j = n + 1
          <5>1. outbox[i].key <= spent.writes /\ outbox[i].key \in Nat
            BY <1>1, <4>1, Shapes DEF OutboxInv, Numbered, n
          <5>2. outbox'[i].key = outbox[i].key /\ outbox'[j].key = spent.writes + 1
            BY <1>3, <1>7, <4>1, <4>3
          <5>. QED  BY <1>1, <5>1, <5>2
        <4>. QED  BY <1>1, <1>7, <4>2, <4>3
      <3>. QED  BY <3>1 DEF ByKey
    <2>2. \A i \in DOMAIN outbox' : outbox'[i].key <= k
      BY <1>1, <1>3, <1>7, Shapes DEF OutboxInv, Numbered, n
    <2>3. \A i \in DOMAIN Queue' : Queue'[i].op.key <= k
      BY <1>1, <1>3, <1>8, Shapes DEF OutboxInv, Numbered, q
    <2>4. \A p \in kv.outbox : p.key <= k
      BY <1>1, Shapes DEF OutboxInv, Numbered
    <2>. QED  BY <1>4, <1>5, <2>1, <2>2, <2>3, <2>4 DEF OutboxInv, Numbered
  <1>10. \A x : Waits(x)' <=> Waits(x) \/ x = k
    BY <1>1, <1>3, <1>7 DEF Waits
  <1>11. \A x, i : Leaves(x, i) => Leaves(x, i)'
    BY <1>1, <1>8 DEF Leaves
  <1>12. Mirrored'
    <2>1. \A i \in DOMAIN outbox' : outbox'[i].persisted => Plain(outbox'[i]) \in kv'.outbox
      BY <1>1, <1>3, <1>4, <1>7 DEF OutboxInv, Mirrored
    <2>2. \A p \in kv.outbox : Waits(p.key)' \/ Leaves(p.key, 0)'
      BY <1>4, <1>10, <1>11 DEF OutboxInv, Mirrored
    <2>3. ASSUME NEW i \in DOMAIN Queue', Queue'[i].do = "put"
          PROVE  /\ Waits(Queue[i].op.key)' \/ Leaves(Queue[i].op.key, i)'
                 /\ \A j \in DOMAIN outbox' : outbox'[j].key = Queue'[i].op.key => Plain(outbox'[j]) = Queue'[i].op
      <3>1. CASE i = q + 1
        <4>1. Queue'[i].op = op /\ op.key = k
          BY <1>3, <1>8, <3>1
        <4>2. \A j \in 1..n : outbox[j].key # k
          BY <1>1, Shapes DEF OutboxInv, Numbered, n
        <4>. QED  BY <1>1, <1>3, <1>7, <1>10, <4>1, <4>2
      <3>2. CASE i \in 1..q
        <4>1. Queue'[i] = Queue[i] /\ Queue[i].op.key # k
          BY <1>1, <1>8, <3>2, Shapes DEF OutboxInv, Numbered, q
        <4>. QED  BY <1>1, <1>3, <1>7, <1>10, <1>11, <2>3, <3>2, <4>1 DEF OutboxInv, Mirrored
      <3>. QED  BY <1>1, <1>8, <3>1, <3>2
    <2>4. ASSUME NEW i \in DOMAIN Queue', Queue'[i].do = "del"
          PROVE  ~Waits(Queue[i].op.key)'
      <3>1. i \in 1..q /\ Queue'[i] = Queue[i] /\ Queue[i].op.key # k
        BY <1>1, <1>4, <1>8, <2>4, Shapes DEF OutboxInv, Numbered, q
      <3>. QED  BY <1>1, <1>10, <2>4, <3>1 DEF OutboxInv, Mirrored
    <2>. QED  BY <1>4, <2>1, <2>2, <2>3, <2>4 DEF Mirrored
  <1>13. Posted'
    <2>1. outbox # <<>> => outbox' # <<>> /\ outbox'[1] = outbox[1]
      <3>1. outbox # <<>> => 1 \in 1..n
        BY EmptySeq, Shapes DEF n
      <3>2. 1 \in DOMAIN outbox' /\ DOMAIN <<>> = {}
        BY <1>1, <1>7
      <3>. QED  BY <1>7, <3>1, <3>2
    <2>. QED  BY <1>4, <2>1 DEF OutboxInv, Posted
  <1>. QED  BY <1>9, <1>12, <1>13 DEF OutboxInv

\* A write leaves the outbox and its removal from the disk is queued.
LEMMA LeavingKeepsOutbox ==
  ASSUME TypeOK, OutboxInv, NEW i \in 1..Len(outbox), NEW tx \in OutboxTx,
         tx.do = "del", tx.op.key = outbox[i].key,
         outbox' \in Seq(QueuedType), Len(outbox') = Len(outbox) - 1,
         \A k \in 1..(Len(outbox) - 1) : outbox'[k] = IF k < i THEN outbox[k] ELSE outbox[k + 1],
         Queue' = Append(Queue, tx), kv'.outbox = kv.outbox, spent'.writes = spent.writes
  PROVE  Numbered' /\ Mirrored'
  <1> DEFINE n == Len(outbox)
             q == Len(Queue)
             key == outbox[i].key
             old(k) == IF k < i THEN k ELSE k + 1
  <1>1. n \in Nat /\ q \in Nat /\ DOMAIN outbox = 1..n /\ DOMAIN Queue = 1..q /\ i \in 1..n /\ key \in Nat
    BY Shapes
  <1>2. DOMAIN outbox' = 1..(n - 1)
    BY LenProperties
  <1>3. /\ DOMAIN Queue' = 1..(q + 1) /\ Queue'[q + 1] = tx
        /\ \A m \in 1..q : Queue'[m] = Queue[m]
    BY <1>1, Shapes, AppendProperties, LenProperties
  <1>. HIDE DEF n, q
  <1>4. \A k \in 1..(n - 1) : old(k) \in 1..n /\ old(k) # i
    BY <1>1
  <1>5. \A k \in 1..(n - 1), l \in 1..(n - 1) : k < l => old(k) < old(l)
    BY <1>1
  <1>6. \A j \in 1..n : j # i => \E k \in 1..(n - 1) : old(k) = j
    <2>1. ASSUME NEW j \in 1..n, j # i
          PROVE  \E k \in 1..(n - 1) : old(k) = j
      <3>1. CASE j < i
        <4>1. j \in 1..(n - 1) /\ old(j) = j
          BY <1>1, <2>1, <3>1
        <4>. QED  BY <4>1
      <3>2. CASE j > i
        <4>1. j - 1 \in 1..(n - 1) /\ old(j - 1) = j
          BY <1>1, <2>1, <3>2
        <4>. QED  BY <4>1
      <3>. QED  BY <1>1, <2>1, <3>1, <3>2
    <2>. QED  BY <2>1
  <1>7. \A k \in 1..(n - 1) : outbox'[k] = outbox[old(k)]
    BY DEF n
  <1>. HIDE DEF old
  <1>8. \A j \in 1..n : j # i => outbox[j].key # key
    BY <1>1, OneEntry DEF OutboxInv, n
  <1>. HIDE DEF key
  <1>9. \A x : Waits(x)' <=> Waits(x) /\ x # key
    <2>1. ASSUME NEW x, Waits(x)'
          PROVE  Waits(x) /\ x # key
      <3>1. PICK k \in 1..(n - 1) : outbox'[k].key = x
        BY <1>2, <2>1 DEF Waits
      <3>. QED  BY <1>1, <1>4, <1>7, <1>8, <3>1 DEF Waits
    <2>2. ASSUME NEW x, Waits(x), x # key
          PROVE  Waits(x)'
      <3>1. PICK j \in 1..n : outbox[j].key = x
        BY <1>1, <2>2 DEF Waits
      <3>2. j # i
        BY <2>2, <3>1 DEF key
      <3>3. PICK k \in 1..(n - 1) : old(k) = j
        BY <1>6, <3>2
      <3>. QED  BY <1>2, <1>7, <3>1, <3>3 DEF Waits
    <2>. QED  BY <2>1, <2>2
  <1>10. \A x, m : Leaves(x, m) => Leaves(x, m)'
    BY <1>1, <1>3 DEF Leaves
  <1>11. \A x, m : x = key /\ m \in 0..q => Leaves(x, m)'
    <2>1. Queue'[q + 1].do = "del" /\ Queue'[q + 1].op.key = key
      BY <1>3 DEF key
    <2>2. ASSUME NEW m \in 0..q
          PROVE  q + 1 \in DOMAIN Queue' /\ q + 1 > m
      BY <1>1, <1>3
    <2>. QED  BY <2>1, <2>2 DEF Leaves
  <1>12. Numbered'
    <2>1. ByKey(outbox)'
      <3>1. ASSUME NEW k \in 1..(n - 1), NEW l \in 1..(n - 1), k < l
            PROVE  outbox'[k].key < outbox'[l].key
        <4>1. old(k) \in 1..n /\ old(l) \in 1..n /\ old(k) < old(l)
          BY <1>4, <1>5, <3>1
        <4>. QED  BY <1>1, <1>7, <4>1 DEF OutboxInv, Numbered, ByKey
      <3>. QED  BY <1>2, <3>1 DEF ByKey
    <2>2. \A k \in DOMAIN outbox' : outbox'[k].key <= spent.writes
      BY <1>1, <1>2, <1>4, <1>7 DEF OutboxInv, Numbered
    <2>3. \A m \in DOMAIN Queue' : Queue'[m].op.key <= spent.writes
      <3>1. Queue'[q + 1].op.key <= spent.writes
        BY <1>1, <1>3 DEF OutboxInv, Numbered
      <3>2. \A m \in 1..q : Queue'[m].op.key <= spent.writes
        BY <1>1, <1>3 DEF OutboxInv, Numbered
      <3>. QED  BY <1>1, <1>3, <3>1, <3>2
    <2>. QED  BY <2>1, <2>2, <2>3 DEF OutboxInv, Numbered
  <1>13. Mirrored'
    <2>1. \A k \in DOMAIN outbox' : outbox'[k].persisted => Plain(outbox'[k]) \in kv.outbox
      BY <1>1, <1>2, <1>4, <1>7 DEF OutboxInv, Mirrored
    <2>2. ASSUME NEW p \in kv.outbox
          PROVE  Waits(p.key)' \/ Leaves(p.key, 0)'
      <3>1. CASE p.key = key
        BY <1>1, <1>11, <3>1
      <3>2. CASE p.key # key
        BY <1>9, <1>10, <3>2 DEF OutboxInv, Mirrored
      <3>. QED  BY <3>1, <3>2
    <2>3. ASSUME NEW m \in DOMAIN Queue', Queue'[m].do = "put"
          PROVE  /\ Waits(Queue[m].op.key)' \/ Leaves(Queue[m].op.key, m)'
                 /\ \A j \in DOMAIN outbox' : outbox'[j].key = Queue'[m].op.key => Plain(outbox'[j]) = Queue'[m].op
      <3>1. m \in 1..q /\ Queue'[m] = Queue[m]
        BY <1>1, <1>3, <2>3
      <3>2. /\ Waits(Queue[m].op.key) \/ Leaves(Queue[m].op.key, m)
            /\ \A j \in 1..n : outbox[j].key = Queue[m].op.key => Plain(outbox[j]) = Queue[m].op
        BY <1>1, <2>3, <3>1 DEF OutboxInv, Mirrored
      <3>3. \A j \in DOMAIN outbox' : outbox'[j].key = Queue[m].op.key => Plain(outbox'[j]) = Queue[m].op
        BY <1>2, <1>4, <1>7, <3>2
      <3>4. ASSUME NEW x, x = Queue[m].op.key
            PROVE  Waits(x)' \/ Leaves(x, m)'
        <4>1. CASE x = key
          BY <1>1, <1>11, <3>1, <4>1
        <4>2. CASE x # key
          BY <1>9, <1>10, <3>2, <3>4, <4>2
        <4>. QED  BY <4>1, <4>2
      <3>. QED  BY <3>1, <3>3, <3>4
    <2>4. ASSUME NEW m \in DOMAIN Queue', Queue'[m].do = "del"
          PROVE  ~Waits(Queue[m].op.key)'
      <3>1. CASE m = q + 1
        BY <1>3, <1>9, <3>1 DEF key
      <3>2. CASE m \in 1..q
        <4>1. Queue'[m] = Queue[m] /\ ~Waits(Queue[m].op.key)
          BY <1>1, <1>3, <2>4, <3>2 DEF OutboxInv, Mirrored
        <4>. QED  BY <1>9, <4>1
      <3>. QED  BY <1>1, <1>3, <3>1, <3>2
    <2>. QED  BY <2>1, <2>2, <2>3, <2>4 DEF Mirrored
  <1>. QED  BY <1>12, <1>13

LEMMA CancelKeepsOutbox ==
  ASSUME TypeOK, OutboxInv, NEW i \in DOMAIN outbox, Cancel(i)
  PROVE  OutboxInv'
  <1> DEFINE tx == [do |-> "del", by |-> "cancel", op |-> Plain(outbox[i])]
             n == Len(outbox)
  <1>1. /\ n \in Nat /\ DOMAIN outbox = 1..n /\ i \in 1..n /\ outbox \in Seq(QueuedType)
        /\ outbox[i] \in QueuedType
    BY Shapes
  <1>2. tx \in OutboxTx /\ tx.do = "del" /\ tx.op.key = outbox[i].key /\ Queue' = Append(Queue, tx)
    BY CancelCases
  <1>. HIDE DEF tx
  <1>3. kv' = kv /\ flush' = flush /\ ~outbox[i].sending
    BY DEF Cancel, MayCancel
  <1>4. spent'.writes = spent.writes
    BY CancelCases
  <1>5. /\ outbox' \in Seq(QueuedType) /\ Len(outbox') = n - 1
        /\ \A k \in 1..(n - 1) : outbox'[k] = IF k < i THEN outbox[k] ELSE outbox[k + 1]
    BY CancelCases
  <1>6. Numbered' /\ Mirrored'
    BY <1>1, <1>2, <1>3, <1>4, <1>5, LeavingKeepsOutbox
  <1>. HIDE DEF n
  <1>7. ASSUME flush.at = "post"
        PROVE  outbox' # <<>> /\ outbox'[1] = outbox[1]
    <2>1. outbox[1].sending
      BY <1>7 DEF OutboxInv, Posted
    <2>2. i # 1
      BY <1>3, <2>1
    <2>3. 1 \in 1..(n - 1) /\ 1 < i
      BY <1>1, <2>2
    <2>4. Len(<<>>) = 0
      BY EmptySeq
    <2>. QED  BY <1>1, <1>5, <2>3, <2>4
  <1>8. Posted'
    BY <1>3, <1>7 DEF OutboxInv, Posted
  <1>. QED  BY <1>6, <1>8 DEF OutboxInv

LEMMA AnsweredKeepsOutbox ==
  ASSUME TypeOK, OutboxInv, Answered
  PROVE  OutboxInv'
  <1> DEFINE tx == [do |-> "del", by |-> "flush", op |-> flush.op]
             n == Len(outbox)
  <1>1. /\ outbox # <<>> /\ tx \in OutboxTx /\ tx.do = "del" /\ tx.op.key = outbox[1].key
        /\ Queue' = Append(Queue, tx)
        /\ outbox' \in Seq(QueuedType) /\ Len(outbox') = n - 1
        /\ \A k \in 1..(n - 1) : outbox'[k] = outbox[k + 1]
        /\ flush'.at = "del"
    BY AnsweredCases
  <1>. HIDE DEF tx
  <1>2. n \in Nat /\ 1 \in 1..n
    BY <1>1, Shapes, EmptySeq
  <1>3. \A k \in 1..(n - 1) : outbox'[k] = IF k < 1 THEN outbox[k] ELSE outbox[k + 1]
    BY <1>1, <1>2
  <1>4. kv' = kv /\ spent' = spent
    BY DEF Answered
  <1>5. Numbered' /\ Mirrored'
    BY <1>1, <1>2, <1>3, <1>4, LeavingKeepsOutbox
  <1>6. Posted'
    BY <1>1 DEF Posted
  <1>. QED  BY <1>5, <1>6 DEF OutboxInv

\* The marks on the queued writes change, and nothing else.
LEMMA MarksKeepOutbox ==
  ASSUME TypeOK, OutboxInv, outbox' \in Seq(QueuedType), Len(outbox') = Len(outbox),
         \A i \in 1..Len(outbox) :
           /\ Plain(outbox'[i]) = Plain(outbox[i]) /\ outbox'[i].key = outbox[i].key
           /\ outbox'[i].persisted = outbox[i].persisted,
         Queue' = Queue, kv'.outbox = kv.outbox, spent'.writes = spent.writes
  PROVE  Numbered' /\ Mirrored'
  <1>1. DOMAIN outbox = 1..Len(outbox) /\ DOMAIN outbox' = 1..Len(outbox)
    BY Shapes, LenProperties
  <1>2. \A x : Waits(x)' <=> Waits(x)
    BY <1>1 DEF Waits
  <1>3. \A x, i : Leaves(x, i)' <=> Leaves(x, i)
    BY DEF Leaves
  <1>4. Numbered'
    BY <1>1 DEF OutboxInv, Numbered, ByKey
  <1>5. Mirrored'
    <2>1. \A i \in DOMAIN outbox' : outbox'[i].persisted => Plain(outbox'[i]) \in kv'.outbox
      BY <1>1 DEF OutboxInv, Mirrored
    <2>2. \A op \in kv.outbox : Waits(op.key)' \/ Leaves(op.key, 0)'
      BY <1>2, <1>3 DEF OutboxInv, Mirrored
    <2>3. ASSUME NEW i \in DOMAIN Queue, Queue[i].do = "put"
          PROVE  /\ Waits(Queue[i].op.key)' \/ Leaves(Queue[i].op.key, i)'
                 /\ \A j \in DOMAIN outbox' : outbox'[j].key = Queue[i].op.key => Plain(outbox'[j]) = Queue[i].op
      BY <1>1, <1>2, <1>3, <2>3 DEF OutboxInv, Mirrored
    <2>4. ASSUME NEW i \in DOMAIN Queue, Queue[i].do = "del"
          PROVE  ~Waits(Queue[i].op.key)'
      BY <1>2, <2>4 DEF OutboxInv, Mirrored
    <2>. QED  BY <2>1, <2>2, <2>3, <2>4 DEF Mirrored
  <1>. QED  BY <1>4, <1>5

LEMMA LoopKeepsOutbox ==
  ASSUME TypeOK, OutboxInv, Loop
  PROVE  OutboxInv'
  <1>1. flush \in FlushType /\ flush.at = "begin" /\ outbox \in Seq(QueuedType) /\ kv' = kv /\ kvq' = kvq
    BY DEF Loop, TypeOK
  <1>2. CASE outbox = <<>> \/ ~Sendable(Head(outbox))
    <2>1. outbox' = outbox /\ spent' = spent /\ (flush' = [flush EXCEPT !.at = "sync"] \/ flush' = Finished(flush))
      BY <1>2 DEF Loop
    <2>2. flush'.at # "post"
      <3>1. Finished(flush).at \in {"begin", "idle"}
        BY <1>1 DEF Finished, FlushType
      <3>2. [flush EXCEPT !.at = "sync"].at = "sync"
        BY <1>1 DEF FlushType
      <3>. QED  BY <2>1, <3>1, <3>2
    <2>. QED  BY <1>1, <2>1, <2>2, Unmoved DEF Queue
  <1>3. CASE outbox # <<>> /\ Sendable(Head(outbox))
    <2> DEFINE op == Plain(Head(outbox))
    <2>1. Head(outbox) = outbox[1] /\ 1 \in 1..Len(outbox)
      BY <1>1, <1>3, HeadIsFirst
    <2>2. /\ outbox' = [outbox EXCEPT ![1].sending = TRUE] /\ Spend("tries")
          /\ flush' = [flush EXCEPT !.at = "post", !.op = op, !.try = spent.tries + 1]
      BY <1>3 DEF Loop
    <2>. HIDE DEF op
    <2>3. flush'.at = "post" /\ flush'.op = op
      BY <1>1, <2>2 DEF FlushType
    <2>4. /\ outbox' \in Seq(QueuedType) /\ Len(outbox') = Len(outbox)
          /\ \A i \in 1..Len(outbox) :
               /\ Plain(outbox'[i]) = Plain(outbox[i]) /\ outbox'[i].key = outbox[i].key
               /\ outbox'[i].persisted = outbox[i].persisted
               /\ outbox'[i].sending = IF i = 1 THEN TRUE ELSE outbox[i].sending
      BY <1>1, <1>3, <2>2, MarkIsTyped
    <2>5. Numbered' /\ Mirrored'
      BY <1>1, <2>2, <2>4, MarksKeepOutbox, SpendIsTyped DEF Queue
    <2>6. outbox' # <<>>
      BY <1>3, <2>4, <2>1, EmptySeq
    <2>7. Posted'
      BY <1>3, <2>1, <2>3, <2>4, <2>6 DEF Posted, Sendable, op
    <2>. QED  BY <2>5, <2>7 DEF OutboxInv
  <1>. QED  BY <1>2, <1>3

LEMMA FailKeepsOutbox ==
  ASSUME TypeOK, OutboxInv, Fail
  PROVE  OutboxInv' /\ outbox # <<>>
  <1>1. flush \in FlushType /\ flush.at = "post" /\ outbox \in Seq(QueuedType) /\ kv' = kv /\ kvq' = kvq
    BY DEF Fail, TypeOK
  <1>2. outbox # <<>>
    BY <1>1 DEF OutboxInv, Posted
  <1>3. outbox' = [outbox EXCEPT ![1].sending = FALSE] /\ Spend("lost") /\ flush' = Finished(flush)
    BY DEF Fail, PutBack
  <1>4. flush'.at \in {"begin", "idle"}
    BY <1>1, <1>3 DEF Finished, FlushType
  <1>5. /\ outbox' \in Seq(QueuedType) /\ Len(outbox') = Len(outbox)
        /\ \A i \in 1..Len(outbox) :
             /\ Plain(outbox'[i]) = Plain(outbox[i]) /\ outbox'[i].key = outbox[i].key
             /\ outbox'[i].persisted = outbox[i].persisted
    BY <1>1, <1>2, <1>3, MarkIsTyped
  <1>6. Numbered' /\ Mirrored'
    BY <1>1, <1>3, <1>5, MarksKeepOutbox, SpendIsTyped DEF Queue
  <1>7. Posted'
    BY <1>4 DEF Posted
  <1>. QED  BY <1>2, <1>6, <1>7 DEF OutboxInv

\* The head of the queue is done.
LEMMA QueueMovesUp ==
  ASSUME TypeOK, Queue # <<>>, Queue' = Tail(Queue)
  PROVE  /\ Len(Queue) \in Nat /\ 1 \in 1..Len(Queue) /\ Head(Queue) = Queue[1]
         /\ DOMAIN Queue = 1..Len(Queue) /\ DOMAIN Queue' = 1..(Len(Queue) - 1)
         /\ \A i \in DOMAIN Queue' : i + 1 \in DOMAIN Queue /\ Queue'[i] = Queue[i + 1]
         /\ \A x, i : i \in Nat /\ Leaves(x, i + 1) => Leaves(x, i)'
         /\ \A x : Leaves(x, 0) /\ (Queue[1].do # "del" \/ Queue[1].op.key # x) => Leaves(x, 0)'
  <1> DEFINE q == Len(Queue)
  <1>1. /\ q \in Nat /\ 1 \in 1..q /\ Head(Queue) = Queue[1] /\ DOMAIN Queue = 1..q
        /\ Queue \in Seq(OutboxTx)
    BY Shapes, HeadIsFirst
  <1>2. Tail(Queue) \in Seq(OutboxTx) /\ Len(Tail(Queue)) = q - 1 /\ \A i \in 1..(q - 1) : Tail(Queue)[i] = Queue[i + 1]
    BY <1>1, HeadTailProperties
  <1>3. DOMAIN Queue' = 1..(q - 1) /\ \A i \in 1..(q - 1) : Queue'[i] = Queue[i + 1]
    BY <1>2, LenProperties
  <1>. HIDE DEF q
  <1>4. \A i \in DOMAIN Queue' : i + 1 \in DOMAIN Queue /\ Queue'[i] = Queue[i + 1]
    BY <1>1, <1>3
  <1>5. ASSUME NEW x, NEW i \in Nat, NEW j \in DOMAIN Queue, j > i + 1, Queue[j].do = "del", Queue[j].op.key = x
        PROVE  Leaves(x, i)'
    <2>1. j - 1 \in 1..(q - 1) /\ j - 1 > i /\ (j - 1) + 1 = j
      BY <1>1, <1>5
    <2>2. Queue'[j - 1] = Queue[j]
      BY <1>3, <2>1
    <2>. QED  BY <1>3, <1>5, <2>1, <2>2 DEF Leaves
  <1>6. \A x, i : i \in Nat /\ Leaves(x, i + 1) => Leaves(x, i)'
    BY <1>5 DEF Leaves
  <1>7. ASSUME NEW x, Leaves(x, 0), Queue[1].do # "del" \/ Queue[1].op.key # x
        PROVE  Leaves(x, 0)'
    <2>1. PICK j \in DOMAIN Queue : Queue[j].do = "del" /\ Queue[j].op.key = x
      BY <1>7 DEF Leaves
    <2>2. j # 1
      BY <1>7, <2>1
    <2>3. j > 0 + 1 /\ 0 \in Nat
      BY <1>1, <2>2
    <2>. QED  BY <1>5, <2>1, <2>3
  <1>. QED  BY <1>1, <1>3, <1>4, <1>6, <1>7 DEF q

LEMMA PutKeepsOutbox ==
  ASSUME TypeOK, OutboxInv, Queue # <<>>, Queue' = Tail(Queue), Queue[1].do = "put",
         kv'.outbox = kv.outbox \cup {Queue[1].op}, outbox' = Persisted(outbox, Queue[1].op.key),
         flush'.at = "post" => flush.at = "post" /\ flush'.op = flush.op,
         spent'.writes = spent.writes
  PROVE  OutboxInv'
  <1> DEFINE op == Queue[1].op
             n  == Len(outbox)
  <1>1. /\ n \in Nat /\ DOMAIN outbox = 1..n /\ outbox \in Seq(QueuedType)
        /\ spent.writes \in Nat
    BY Shapes
  <1>2. /\ 1 \in DOMAIN Queue
        /\ \A i \in DOMAIN Queue' : i \in Nat /\ i + 1 \in DOMAIN Queue /\ Queue'[i] = Queue[i + 1]
        /\ \A x, i : i \in Nat /\ Leaves(x, i + 1) => Leaves(x, i)'
        /\ \A x : Leaves(x, 0) => Leaves(x, 0)'
    BY QueueMovesUp
  <1>3. /\ outbox' \in Seq(QueuedType) /\ Len(outbox') = n
        /\ \A i \in 1..n : /\ Plain(outbox'[i]) = Plain(outbox[i]) /\ outbox'[i].key = outbox[i].key
                           /\ outbox'[i].sending = outbox[i].sending
                           /\ outbox'[i].persisted => outbox[i].persisted \/ outbox[i].key = op.key
                           /\ outbox[i].persisted => outbox'[i].persisted
    BY <1>1, PersistIsTyped
  <1>4. DOMAIN outbox' = 1..n
    BY <1>3, LenProperties
  <1>. HIDE DEF n
  <1>5. \A x : Waits(x)' <=> Waits(x)
    BY <1>1, <1>3, <1>4 DEF Waits
  <1>6. /\ Waits(op.key) \/ Leaves(op.key, 1)
        /\ \A j \in DOMAIN outbox : outbox[j].key = op.key => Plain(outbox[j]) = op
    BY <1>2 DEF OutboxInv, Mirrored
  <1>7. op.key <= spent.writes
    BY <1>2 DEF OutboxInv, Numbered
  <1>8. Numbered'
    <2>1. ByKey(outbox)' /\ \A i \in DOMAIN outbox' : outbox'[i].key <= spent.writes
      BY <1>1, <1>3, <1>4 DEF OutboxInv, Numbered, ByKey
    <2>2. \A i \in DOMAIN Queue' : Queue'[i].op.key <= spent.writes
      BY <1>2 DEF OutboxInv, Numbered
    <2>3. (\A p \in kv'.outbox : p.key <= spent.writes) /\ IsFiniteSet(kv'.outbox)
      BY <1>7, FS_AddElement DEF OutboxInv, Numbered
    <2>. QED  BY <2>1, <2>2, <2>3 DEF Numbered
  <1>9. Mirrored'
    <2>1. ASSUME NEW i \in DOMAIN outbox', outbox'[i].persisted
          PROVE  Plain(outbox'[i]) \in kv'.outbox
      <3>1. i \in DOMAIN outbox /\ Plain(outbox'[i]) = Plain(outbox[i])
        BY <1>1, <1>3, <1>4
      <3>2. outbox[i].persisted \/ outbox[i].key = op.key
        BY <1>3, <1>4, <2>1
      <3>. QED  BY <1>6, <3>1, <3>2 DEF OutboxInv, Mirrored
    <2>2. ASSUME NEW x, \E p \in kv'.outbox : p.key = x
          PROVE  Waits(x)' \/ Leaves(x, 0)'
      <3>1. CASE x = op.key
        <4>1. Waits(x) \/ Leaves(x, 0 + 1)
          BY <1>6, <3>1
        <4>. QED  BY <1>2, <1>5, <4>1
      <3>2. CASE x # op.key
        <4>1. Waits(x) \/ Leaves(x, 0)
          BY <2>2, <3>2 DEF OutboxInv, Mirrored
        <4>. QED  BY <1>2, <1>5, <4>1
      <3>. QED  BY <3>1, <3>2
    <2>3. ASSUME NEW i \in DOMAIN Queue', Queue'[i].do = "put", NEW x, x = Queue'[i].op.key
          PROVE  /\ Waits(x)' \/ Leaves(x, i)'
                 /\ \A j \in DOMAIN outbox' : outbox'[j].key = x => Plain(outbox'[j]) = Queue'[i].op
      <3>1. i \in Nat /\ i + 1 \in DOMAIN Queue /\ Queue'[i] = Queue[i + 1]
        BY <1>2
      <3>2. /\ Waits(x) \/ Leaves(x, i + 1)
            /\ \A j \in DOMAIN outbox : outbox[j].key = x => Plain(outbox[j]) = Queue'[i].op
        BY <2>3, <3>1 DEF OutboxInv, Mirrored
      <3>3. \A j \in DOMAIN outbox' : outbox'[j].key = x => Plain(outbox'[j]) = Queue'[i].op
        BY <1>1, <1>3, <1>4, <3>2
      <3>. QED  BY <1>2, <1>5, <3>1, <3>2, <3>3
    <2>4. ASSUME NEW i \in DOMAIN Queue', Queue'[i].do = "del", NEW x, x = Queue'[i].op.key
          PROVE  ~Waits(x)'
      <3>1. i + 1 \in DOMAIN Queue /\ Queue'[i] = Queue[i + 1]
        BY <1>2
      <3>. QED  BY <1>5, <2>4, <3>1 DEF OutboxInv, Mirrored
    <2>. QED  BY <2>1, <2>2, <2>3, <2>4 DEF Mirrored
  <1>10. Posted'
    <2>1. outbox # <<>> => outbox' # <<>> /\ 1 \in 1..n
      BY <1>1, <1>3, EmptySeq DEF n
    <2>. QED  BY <1>3, <2>1 DEF OutboxInv, Posted
  <1>. QED  BY <1>8, <1>9, <1>10 DEF OutboxInv

LEMMA DelKeepsOutbox ==
  ASSUME TypeOK, OutboxInv, Queue # <<>>, Queue' = Tail(Queue), Queue[1].do = "del",
         kv'.outbox = Erased(kv.outbox, Queue[1].op.key), outbox' = outbox,
         flush'.at = "post" => flush.at = "post" /\ flush'.op = flush.op,
         spent'.writes = spent.writes
  PROVE  OutboxInv'
  <1> DEFINE key == Queue[1].op.key
  <1>1. /\ 1 \in DOMAIN Queue
        /\ \A i \in DOMAIN Queue' : i \in Nat /\ i + 1 \in DOMAIN Queue /\ Queue'[i] = Queue[i + 1]
        /\ \A x, i : i \in Nat /\ Leaves(x, i + 1) => Leaves(x, i)'
        /\ \A x : Leaves(x, 0) /\ x # key => Leaves(x, 0)'
    BY QueueMovesUp
  <1>2. \A x : Waits(x)' <=> Waits(x)
    BY DEF Waits
  <1>3. ~Waits(key)
    BY <1>1 DEF OutboxInv, Mirrored
  <1>4. kv'.outbox = {op \in kv.outbox : op.key # key}
    BY DEF Erased
  <1>5. Numbered'
    <2>1. ByKey(outbox)' /\ \A i \in DOMAIN outbox' : outbox'[i].key <= spent.writes
      BY DEF OutboxInv, Numbered, ByKey
    <2>2. \A i \in DOMAIN Queue' : Queue'[i].op.key <= spent.writes
      BY <1>1 DEF OutboxInv, Numbered
    <2>3. (\A p \in kv'.outbox : p.key <= spent.writes) /\ IsFiniteSet(kv'.outbox)
      <3>1. kv'.outbox \subseteq kv.outbox
        BY <1>4
      <3>. QED  BY <3>1, FS_Subset DEF OutboxInv, Numbered
    <2>. QED  BY <2>1, <2>2, <2>3 DEF Numbered
  <1>6. Mirrored'
    <2>1. ASSUME NEW i \in DOMAIN outbox, outbox[i].persisted
          PROVE  Plain(outbox[i]) \in kv'.outbox
      <3>1. outbox[i].key # key
        BY <1>3 DEF Waits
      <3>2. Plain(outbox[i]) \in kv.outbox /\ Plain(outbox[i]).key = outbox[i].key
        BY <2>1 DEF OutboxInv, Mirrored, Plain
      <3>. QED  BY <1>4, <3>1, <3>2
    <2>2. ASSUME NEW x, \E p \in kv'.outbox : p.key = x
          PROVE  Waits(x)' \/ Leaves(x, 0)'
      <3>1. x # key /\ (Waits(x) \/ Leaves(x, 0))
        BY <1>4, <2>2 DEF OutboxInv, Mirrored
      <3>. QED  BY <1>1, <1>2, <3>1
    <2>3. ASSUME NEW i \in DOMAIN Queue', Queue'[i].do = "put", NEW x, x = Queue'[i].op.key
          PROVE  /\ Waits(x)' \/ Leaves(x, i)'
                 /\ \A j \in DOMAIN outbox : outbox[j].key = x => Plain(outbox[j]) = Queue'[i].op
      <3>1. i \in Nat /\ i + 1 \in DOMAIN Queue /\ Queue'[i] = Queue[i + 1]
        BY <1>1
      <3>2. /\ Waits(x) \/ Leaves(x, i + 1)
            /\ \A j \in DOMAIN outbox : outbox[j].key = x => Plain(outbox[j]) = Queue'[i].op
        BY <2>3, <3>1 DEF OutboxInv, Mirrored
      <3>. QED  BY <1>1, <1>2, <3>1, <3>2
    <2>4. ASSUME NEW i \in DOMAIN Queue', Queue'[i].do = "del", NEW x, x = Queue'[i].op.key
          PROVE  ~Waits(x)'
      <3>1. i + 1 \in DOMAIN Queue /\ Queue'[i] = Queue[i + 1]
        BY <1>1
      <3>. QED  BY <1>2, <2>4, <3>1 DEF OutboxInv, Mirrored
    <2>. QED  BY <2>1, <2>2, <2>3, <2>4 DEF Mirrored
  <1>7. Posted'
    BY DEF OutboxInv, Posted, Plain
  <1>. QED  BY <1>5, <1>6, <1>7 DEF OutboxInv

LEMMA OutboxDoneKeepsOutbox ==
  ASSUME TypeOK, OutboxInv, OutboxDone
  PROVE  OutboxInv'
  <1>1. /\ Queue # <<>> /\ Queue' = Tail(Queue)
        /\ flush'.at = "post" => flush.at = "post" /\ flush'.op = flush.op
        /\ \/ /\ Queue[1].do = "put" /\ kv'.outbox = kv.outbox \cup {Queue[1].op}
              /\ outbox' = Persisted(outbox, Queue[1].op.key)
           \/ /\ Queue[1].do = "del" /\ kv'.outbox = Erased(kv.outbox, Queue[1].op.key)
              /\ outbox' = outbox
    BY OutboxDoneMoves, FlushWaitsOn
  <1>2. spent'.writes = spent.writes
    BY DEF OutboxDone
  <1>3. CASE Queue[1].do = "put"
    BY <1>1, <1>2, <1>3, PutKeepsOutbox
  <1>4. CASE Queue[1].do = "del"
    BY <1>1, <1>2, <1>4, DelKeepsOutbox
  <1>. QED  BY <1>1, <1>3, <1>4

LEMMA ReloadKeepsOutbox ==
  ASSUME TypeOK, OutboxInv, Reload
  PROVE  OutboxInv'
  <1>0. Numbered
    BY DEF OutboxInv
  <1>1. PICK ops \in Seq(OpType) :
           /\ ByKey(ops)
           /\ \A i \in 1..Len(ops) : ops[i] \in kv.outbox
           /\ \A op \in kv.outbox : \E i \in 1..Len(ops) : ops[i] = op
           /\ outbox' \in Seq(QueuedType) /\ Len(outbox') = Len(ops)
           /\ \A i \in 1..Len(ops) : outbox'[i] = Waiting(ops[i], TRUE)
    BY <1>0, ReloadCases
  <1>2. /\ DOMAIN ops = 1..Len(ops) /\ DOMAIN outbox' = 1..Len(ops)
        /\ \A i \in 1..Len(ops) : ops[i] \in OpType
    BY <1>1, LenProperties
  <1>3. \A i \in 1..Len(ops) : Plain(outbox'[i]) = ops[i] /\ outbox'[i].key = ops[i].key
    <2>1. \A i \in 1..Len(ops) : Plain(Waiting(ops[i], TRUE)) = ops[i]
      BY <1>2, WaitingIsTyped
    <2>2. \A op : Waiting(op, TRUE).key = op.key
      BY DEF Waiting
    <2>. QED  BY <1>1, <2>1, <2>2
  <1>4. DOMAIN Queue' = {} /\ kv' = kv /\ flush'.at = "idle"
    BY DEF Reload, Queue, NoTxs, IdleFlush
  <1>5. spent'.writes = spent.writes
    <2>1. spent \in SpentType
      BY DEF TypeOK
    <2>2. spent' = [spent EXCEPT !["reloads"] = @ + 1, !["loaded"] = spent.writes]
      BY DEF Reload
    <2>. QED  BY <2>1, <2>2 DEF SpentType
  <1>6. Numbered'
    BY <1>0, <1>1, <1>2, <1>3, <1>4, <1>5 DEF Numbered, ByKey
  <1>7. Mirrored'
    <2>1. \A i \in DOMAIN outbox' : Plain(outbox'[i]) \in kv'.outbox
      BY <1>1, <1>2, <1>3, <1>4
    <2>2. \A x : (\E op \in kv'.outbox : op.key = x) => Waits(x)'
      BY <1>1, <1>2, <1>3, <1>4 DEF Waits
    <2>. QED  BY <1>4, <2>1, <2>2 DEF Mirrored
  <1>8. Posted'
    BY <1>4 DEF Posted
  <1>. QED  BY <1>6, <1>7, <1>8 DEF OutboxInv

\* The steps of the server, of the other stores and of the app.
LEMMA RestKeepsOutbox ==
  ASSUME TypeOK, OutboxInv,
         \/ \E m \in wire : Handle(m)
         \/ \E w \in SyncNames : Read(w) \/ SyncUnchanged(w) \/ SyncApply(w) \/ SyncFails(w)
         \/ ItemsDone \/ MetaDone \/ RetryTimer \/ Visible \/ Online
         \/ \E w \in Writes : OtherWrite(w)
         \/ UNCHANGED vars
  PROVE  OutboxInv'
  <1>1. CASE ~\E m \in wire : Handle(m)
    <2>1. /\ outbox' = outbox /\ Queue' = Queue /\ kv'.outbox = kv.outbox
          /\ flush' \in {flush, Called(flush), Finished(flush)} \/ flush'.at # "post"
          /\ spent'.writes = spent.writes
      BY <1>1, RestMoves
    <2>. QED  BY <2>1, FlushWaitsOn, Unmoved
  <1>2. ASSUME NEW m \in wire, Handle(m)
        PROVE  OutboxInv'
    <2>1. flush \in FlushType
      BY DEF TypeOK
    <2>2. \A a : [flush EXCEPT !.answer = a].at = flush.at /\ [flush EXCEPT !.answer = a].op = flush.op
      BY <2>1 DEF FlushType
    <2>. QED  BY <1>2, <2>2, Unmoved DEF Handle, Queue
  <1>. QED  BY <1>1, <1>2

\* Every step keeps the shapes of the variables and what the outbox needs.
LEMMA OutboxStep ==
  ASSUME TypeOK, OutboxInv, [Next]_vars
  PROVE  TypeOK' /\ OutboxInv'
  <1>1. CASE UNCHANGED vars
    <2>1. OutboxInv'
      BY <1>1, RestKeepsOutbox
    <2>. QED  BY <1>1, <2>1 DEF vars, server, memory, TypeOK
  <1>2. ASSUME NEW m \in wire, Handle(m)
        PROVE  TypeOK' /\ OutboxInv'
    BY <1>2, HandleTyped, RestKeepsOutbox
  <1>3. ASSUME NEW w \in SyncNames, Read(w) \/ SyncUnchanged(w) \/ SyncApply(w) \/ SyncFails(w)
        PROVE  TypeOK' /\ OutboxInv'
    BY <1>3, ReadTyped, SyncEndsTyped, SyncApplyTyped, RestKeepsOutbox
  <1>4. CASE Loop \/ Answered \/ Fail
    BY <1>4, LoopTyped, LoopKeepsOutbox, AnsweredTyped, AnsweredKeepsOutbox, FailTyped, FailKeepsOutbox
       DEF Answered, OutboxInv, Posted
  <1>5. CASE OutboxDone \/ ItemsDone \/ MetaDone
    BY <1>5, OutboxDoneTyped, OutboxDoneKeepsOutbox, ItemsDoneTyped, MetaDoneTyped, RestKeepsOutbox
  <1>6. CASE RetryTimer \/ Visible \/ Online
    BY <1>6, AppTyped, RestKeepsOutbox
  <1>7. CASE Reload
    BY <1>7, ReloadTyped, ReloadKeepsOutbox DEF OutboxInv
  <1>8. ASSUME NEW w \in Writes, Send(w) \/ OtherWrite(w)
        PROVE  TypeOK' /\ OutboxInv'
    BY <1>8, SendTyped, SendKeepsOutbox, OtherWriteTyped, RestKeepsOutbox
  <1>9. ASSUME NEW i \in DOMAIN outbox, Cancel(i)
        PROVE  TypeOK' /\ OutboxInv'
    BY <1>9, CancelTyped, CancelKeepsOutbox
  <1>. QED
    BY <1>1, <1>2, <1>3, <1>4, <1>5, <1>6, <1>7, <1>8, <1>9 DEF Next, Wheels, Trouble, People, SyncNames

LEMMA OutboxIsSound == Spec => [](TypeOK /\ OutboxInv)
  <1>1. Init => TypeOK /\ OutboxInv
    BY InitTyped, InitOutbox
  <1>2. (TypeOK /\ OutboxInv) /\ [Next]_vars => (TypeOK /\ OutboxInv)'
    BY OutboxStep
  <1>. QED  BY <1>1, <1>2, PTL DEF Spec

\* Every step keeps the shapes of the variables; no answer outlives its write
\* (TypeOK).
THEOREM DeviceTyped == Spec => []TypeOK
  BY OutboxIsSound, PTL

\* Whatever fails, is late or is cut off by a page load, what is on its way is
\* on disk and what left the outbox does not come back (DiskFollowsOutbox).
THEOREM OutboxIsOnDisk == Spec => []DiskFollowsOutbox
  <1>1. TypeOK /\ OutboxInv => DiskFollowsOutbox
    <2> SUFFICES ASSUME TypeOK, OutboxInv PROVE DiskFollowsOutbox
      OBVIOUS
    <2>1. flush.at = "post" => flush.op \in kv.outbox
      <3>1. ASSUME flush.at = "post"
            PROVE  flush.op \in kv.outbox
        <4>1. outbox # <<>> /\ outbox[1].persisted /\ flush.op = Plain(outbox[1])
          BY <3>1 DEF OutboxInv, Posted
        <4>2. 1 \in DOMAIN outbox
          BY <4>1, Shapes, EmptySeq
        <4>. QED  BY <4>1, <4>2 DEF OutboxInv, Mirrored
      <3>. QED  BY <3>1
    <2>2. ASSUME NEW op \in kv.outbox
          PROVE  op.key \in Keys(Range(outbox)) \cup {kvq.outbox[i].op.key : i \in DOMAIN kvq.outbox}
      <3>1. CASE Waits(op.key)
        BY <3>1 DEF Waits, Keys, Range
      <3>2. CASE Leaves(op.key, 0)
        BY <3>2 DEF Leaves, Queue
      <3>. QED  BY <3>1, <3>2 DEF OutboxInv, Mirrored
    <2>. QED  BY <2>1, <2>2 DEF DiskFollowsOutbox, Keys
  <1>. QED  BY <1>1, OutboxIsSound, PTL

-----------------------------------------------------------------------------
(* Answers.                                                                *)

LEMMA AnswersKept ==
  ASSUME AnswerInv, wire' \subseteq wire, spent'.tries = spent.tries,
         \A k : Settled(k) => Settled(k)',
         flush'.at = "post" =>
           /\ flush.at = "post" /\ flush'.op = flush.op /\ flush'.try = flush.try
           /\ flush'.answer # "none" =>
                flush.answer # "none" \/ \E k : Settled(k)' /\ flush'.op.key = k,
         \A i \in DOMAIN Queue' :
           \/ Queue'[i].do # "del" \/ Queue'[i].by = "cancel"
           \/ \E j \in DOMAIN Queue : Queue'[i] = Queue[j]
           \/ \E k : Settled(k) /\ Queue'[i].op.key = k
  PROVE  AnswerInv'
  <1>1. flush'.at = "post" => flush'.try <= spent'.tries
    BY DEF AnswerInv
  <1>2. \A m \in wire' :
          m.try <= spent'.tries /\ (flush'.at = "post" /\ m.try = flush'.try => m.op = flush'.op)
    BY DEF AnswerInv
  <1>3. ASSUME flush'.at = "post", flush'.answer # "none", NEW k, k = flush'.op.key
        PROVE  Settled(k)'
    BY <1>3 DEF AnswerInv
  <1>4. ASSUME NEW i \in DOMAIN Queue', Queue'[i].do = "del", Queue'[i].by # "cancel",
               NEW k, k = Queue'[i].op.key
        PROVE  Settled(k)'
    <2>1. CASE \E j \in DOMAIN Queue : Queue'[i] = Queue[j]
      BY <1>4, <2>1 DEF AnswerInv
    <2>2. CASE \E l : Settled(l) /\ Queue'[i].op.key = l
      BY <1>4, <2>2
    <2>. QED  BY <1>4, <2>1, <2>2
  <1>. QED  BY <1>1, <1>2, <1>3, <1>4 DEF AnswerInv

LEMMA InitAnswers == Init => AnswerInv
  <1> SUFFICES ASSUME Init PROVE AnswerInv
    OBVIOUS
  <1>1. DOMAIN Queue = {} /\ wire = {} /\ flush.at = "idle"
    BY DEF Init, Queue, NoTxs, IdleFlush
  <1>. QED  BY <1>1 DEF AnswerInv

LEMMA AddedToRange ==
  ASSUME NEW S, NEW s \in Seq(S), NEW x \in S
  PROVE  Range(Append(s, x)) = Range(s) \cup {x}
  <1>1. /\ DOMAIN s = 1..Len(s) /\ Len(s) \in Nat /\ DOMAIN Append(s, x) = 1..(Len(s) + 1)
        /\ \A i \in 1..Len(s) : Append(s, x)[i] = s[i]
        /\ Append(s, x)[Len(s) + 1] = x
    <2>1. /\ Append(s, x) \in Seq(S) /\ Len(Append(s, x)) = Len(s) + 1
          /\ \A i \in 1..Len(s) : Append(s, x)[i] = s[i]
          /\ Append(s, x)[Len(s) + 1] = x
      BY AppendProperties
    <2>. QED  BY <2>1, LenProperties
  <1>2. \A i \in 1..(Len(s) + 1) : i \in 1..Len(s) \/ i = Len(s) + 1
    BY <1>1
  <1>3. Len(s) + 1 \in 1..(Len(s) + 1) /\ 1..Len(s) \subseteq 1..(Len(s) + 1)
    BY <1>1
  <1>. QED  BY <1>1, <1>2, <1>3 DEF Range

\* What was settled stays settled.
LEMMA SettledStays ==
  ASSUME TypeOK, [Next]_vars, NEW k, Settled(k)
  PROVE  Settled(k)'
  <1>1. ASSUME NEW m \in wire, Handle(m)
        PROVE  Settled(k)'
    <2>1. applied' = applied \/ applied' = Append(applied, m.op.key)
      BY <1>1 DEF Handle
    <2>2. Range(applied) \subseteq Range(applied')
      <3>1. applied \in Seq(1..MaxWrites) /\ m.op.key \in 1..MaxWrites
        BY DEF TypeOK, OpType
      <3>2. Range(Append(applied, m.op.key)) = Range(applied) \cup {m.op.key}
        <4>. DEFINE AnyKey == 1..MaxWrites
        <4>1. applied \in Seq(AnyKey) /\ m.op.key \in AnyKey
          BY <3>1
        <4>. HIDE DEF AnyKey
        <4>. QED  BY <4>1, AddedToRange
      <3>3. CASE applied' = applied
        BY <3>3
      <3>4. CASE applied' = Append(applied, m.op.key)
        BY <3>2, <3>4
      <3>. QED  BY <2>1, <3>3, <3>4
    <2>3. refused \subseteq refused'
      BY <1>1 DEF Handle
    <2>. QED  BY <2>2, <2>3 DEF Settled
  <1>2. applied' = applied /\ refused' = refused => Settled(k)'
    BY DEF Settled
  <1>3. ASSUME \A m \in wire : ~Handle(m)
        PROVE  applied' = applied /\ refused' = refused
    <2>1. CASE UNCHANGED vars
      BY <2>1 DEF vars, server
    <2>2. CASE \E w \in SyncNames : Read(w) \/ SyncUnchanged(w) \/ SyncApply(w) \/ SyncFails(w)
      BY <2>2 DEF Read, SyncUnchanged, SyncApply, SyncFails, server
    <2>3. CASE Loop \/ Answered \/ OutboxDone \/ ItemsDone \/ MetaDone \/ RetryTimer \/ Fail \/ Reload \/ Visible \/ Online
      BY <2>3 DEF Loop, Answered, OutboxDone, ItemsDone, MetaDone, RetryTimer, Fail, Reload, Visible, Online, server
    <2>4. CASE (\E w \in Writes : Send(w) \/ OtherWrite(w)) \/ \E i \in DOMAIN outbox : Cancel(i)
      BY <2>4 DEF Send, OtherWrite, Cancel, server
    <2>. QED  BY <1>3, <2>1, <2>2, <2>3, <2>4 DEF Next, Wheels, Trouble, People, SyncNames
  <1>. QED  BY <1>1, <1>2, <1>3

\* A request that the flush waits for answers for its write.
LEMMA HandleKeepsAnswers ==
  ASSUME TypeOK, AnswerInv, NEW m \in wire, Handle(m)
  PROVE  AnswerInv'
  <1>1. flush \in FlushType /\ m.op.key \in 1..MaxWrites /\ applied \in Seq(1..MaxWrites)
    BY DEF TypeOK, OpType
  <1>2. \A k : Settled(k) => Settled(k)'
    BY SettledStays DEF Next, Wheels
  <1>3. Settled(m.op.key)'
    <2>1. CASE Refuses(m.op)
      BY <2>1 DEF Handle, Settled
    <2>2. CASE ~Refuses(m.op)
      <3> DEFINE AnyKey == 1..MaxWrites
      <3>1. applied \in Seq(AnyKey) /\ m.op.key \in AnyKey
        BY <1>1
      <3>. HIDE DEF AnyKey
      <3>2. Range(Append(applied, m.op.key)) = Range(applied) \cup {m.op.key}
        BY <3>1, AddedToRange
      <3>. QED  BY <2>2, <3>2 DEF Handle, Settled
    <2>. QED  BY <2>1, <2>2
  <1>4. /\ flush'.at = flush.at /\ flush'.op = flush.op /\ flush'.try = flush.try
        /\ flush'.answer = flush.answer \/ Live(m)
    <2>1. \A a : /\ [flush EXCEPT !.answer = a].at = flush.at
                 /\ [flush EXCEPT !.answer = a].op = flush.op
                 /\ [flush EXCEPT !.answer = a].try = flush.try
      BY <1>1 DEF FlushType
    <2>. QED  BY <2>1 DEF Handle
  <1>5. Live(m) => m.op = flush.op
    BY DEF Live, AnswerInv
  <1>6. wire' \subseteq wire /\ spent'.tries = spent.tries /\ Queue' = Queue
    BY DEF Handle, Queue
  <1>. QED  BY <1>2, <1>3, <1>4, <1>5, <1>6, AnswersKept

LEMMA LoopKeepsAnswers ==
  ASSUME TypeOK, AnswerInv, Loop
  PROVE  AnswerInv'
  <1>1. /\ flush \in FlushType /\ flush.at = "begin" /\ flush.answer = "none"
        /\ spent.tries \in Nat /\ \A m \in wire : m.try \in Nat
        /\ Queue' = Queue /\ applied' = applied /\ refused' = refused
    BY DEF Loop, TypeOK, Queue, SpentType
  <1>2. \A k : Settled(k) => Settled(k)'
    BY <1>1 DEF Settled
  <1>3. CASE outbox = <<>> \/ ~Sendable(Head(outbox))
    <2>1. wire' = wire /\ spent' = spent /\ (flush' = [flush EXCEPT !.at = "sync"] \/ flush' = Finished(flush))
      BY <1>3 DEF Loop
    <2>2. flush'.at # "post"
      BY <1>1, <2>1 DEF Finished, FlushType
    <2>. QED  BY <1>1, <1>2, <2>1, <2>2, AnswersKept
  <1>4. CASE outbox # <<>> /\ Sendable(Head(outbox))
    <2> DEFINE op == Plain(Head(outbox))
    <2>1. /\ wire' = wire \cup {[try |-> spent.tries + 1, op |-> op]} /\ Spend("tries")
          /\ flush' = [flush EXCEPT !.at = "post", !.op = op, !.try = spent.tries + 1]
      BY <1>4 DEF Loop
    <2>2. spent'.tries = spent.tries + 1
      BY <2>1, SpendIsTyped
    <2>. HIDE DEF op
    <2>3. flush'.at = "post" /\ flush'.op = op /\ flush'.answer = "none" /\ flush'.try = spent.tries + 1
      BY <1>1, <2>1 DEF FlushType
    <2>4. ASSUME NEW m \in wire'
          PROVE  m.try <= spent'.tries /\ (m.try = flush'.try => m.op = flush'.op)
      <3>1. CASE m \in wire
        BY <1>1, <2>2, <2>3, <3>1 DEF AnswerInv
      <3>2. CASE m = [try |-> spent.tries + 1, op |-> op]
        BY <1>1, <2>2, <2>3, <3>2
      <3>. QED  BY <2>1, <3>1, <3>2
    <2>5. flush'.try <= spent'.tries
      BY <1>1, <2>2, <2>3
    <2>6. ASSUME NEW i \in DOMAIN Queue', Queue'[i].do = "del", Queue'[i].by # "cancel",
                 NEW k, k = Queue'[i].op.key
          PROVE  Settled(k)'
      BY <1>1, <1>2, <2>6 DEF AnswerInv
    <2>. QED  BY <2>3, <2>4, <2>5, <2>6 DEF AnswerInv
  <1>. QED  BY <1>3, <1>4

\* Every step keeps what the answers need.
LEMMA AnswerStep ==
  ASSUME TypeOK, OutboxInv, AnswerInv, [Next]_vars
  PROVE  AnswerInv'
  <1>1. \A k : Settled(k) => Settled(k)'
    BY SettledStays
  <1>2. ASSUME NEW m \in wire, Handle(m)
        PROVE  AnswerInv'
    BY <1>2, HandleKeepsAnswers
  <1>3. CASE \/ \E w \in SyncNames : Read(w) \/ SyncUnchanged(w) \/ SyncApply(w) \/ SyncFails(w)
             \/ ItemsDone \/ MetaDone \/ RetryTimer \/ Visible \/ Online
             \/ \E w \in Writes : OtherWrite(w)
             \/ UNCHANGED vars
    <2>1. /\ wire' = wire /\ Queue' = Queue /\ spent'.tries = spent.tries
          /\ flush' \in {flush, Called(flush), Finished(flush)} \/ flush'.at # "post"
      BY <1>3, RestMoves
    <2>. QED  BY <1>1, <2>1, FlushWaitsOn, AnswersKept
  <1>4. CASE Loop
    BY <1>4, LoopKeepsAnswers
  <1>5. CASE Fail
    <2>1. /\ wire' \subseteq wire /\ Queue' = Queue /\ spent'.tries = spent.tries
          /\ flush' = Finished(flush)
      BY <1>5, SpendIsTyped DEF Fail, Queue
    <2>. QED  BY <1>1, <2>1, FlushWaitsOn, AnswersKept
  <1>6. CASE Answered
    <2> DEFINE tx == [do |-> "del", by |-> "flush", op |-> flush.op]
    <2>1. tx.op = flush.op /\ Settled(flush.op.key)
      BY <1>6 DEF Answered, AnswerInv
    <2>2. tx \in OutboxTx /\ Queue' = Append(Queue, tx) /\ flush'.at = "del"
      BY <1>6, AnsweredCases
    <2>. HIDE DEF tx
    <2>3. \A i \in DOMAIN Queue' : (i \in DOMAIN Queue /\ Queue'[i] = Queue[i]) \/ Queue'[i] = tx
      BY <2>2, AddedTx
    <2>4. wire' = wire /\ spent'.tries = spent.tries
      BY <1>6 DEF Answered, server
    <2>. QED  BY <1>1, <2>1, <2>2, <2>3, <2>4, AnswersKept
  <1>7. CASE OutboxDone
    <2>1. Queue # <<>> /\ Queue' = Tail(Queue) /\ (flush' \in {flush, Called(flush)} \/ flush'.at # "post")
      BY <1>7, OutboxDoneMoves
    <2>2. \A i \in DOMAIN Queue' : i + 1 \in DOMAIN Queue /\ Queue'[i] = Queue[i + 1]
      BY <2>1, QueueMovesUp
    <2>3. wire' = wire /\ spent'.tries = spent.tries
      BY <1>7 DEF OutboxDone, server
    <2>. QED  BY <1>1, <2>1, <2>2, <2>3, FlushWaitsOn, AnswersKept
  <1>8. CASE Reload
    <2>1. DOMAIN Queue' = {} /\ flush'.at = "idle" /\ wire' = wire
      BY <1>8 DEF Reload, Queue, NoTxs, IdleFlush, server
    <2>2. spent'.tries = spent.tries
      BY <1>8 DEF Reload, TypeOK, SpentType
    <2>. QED  BY <1>1, <2>1, <2>2, AnswersKept
  <1>9. ASSUME NEW w \in Writes, Send(w)
        PROVE  AnswerInv'
    <2>1. PICK op \in OpType :
            /\ Queue' = Append(Queue, [do |-> "put", by |-> "send", op |-> op])
            /\ [do |-> "put", by |-> "send", op |-> op] \in OutboxTx
      BY <1>9, SendCases
    <2>2. \A i \in DOMAIN Queue' : (i \in DOMAIN Queue /\ Queue'[i] = Queue[i]) \/ Queue'[i].do = "put"
      BY <2>1, AddedTx
    <2>3. wire' = wire /\ flush' = flush /\ spent'.tries = spent.tries
      BY <1>9, SendCases DEF Send, server
    <2>. QED  BY <1>1, <2>2, <2>3, AnswersKept
  <1>10. ASSUME NEW j \in DOMAIN outbox, Cancel(j)
         PROVE  AnswerInv'
    <2>1. /\ Queue' = Append(Queue, [do |-> "del", by |-> "cancel", op |-> Plain(outbox[j])])
          /\ [do |-> "del", by |-> "cancel", op |-> Plain(outbox[j])] \in OutboxTx
      BY <1>10, CancelCases
    <2>2. \A i \in DOMAIN Queue' : (i \in DOMAIN Queue /\ Queue'[i] = Queue[i]) \/ Queue'[i].by = "cancel"
      BY <2>1, AddedTx
    <2>3. wire' = wire /\ flush' = flush /\ spent'.tries = spent.tries
      BY <1>10, CancelCases DEF Cancel, server
    <2>. QED  BY <1>1, <2>2, <2>3, AnswersKept
  <1>. QED
    BY <1>2, <1>3, <1>4, <1>5, <1>6, <1>7, <1>8, <1>9, <1>10 DEF Next, Wheels, Trouble, People, SyncNames

\* A write leaves the disk only when its removal, asked for by an answer or by
\* an undo, comes up.
LEMMA OnlyRemovalsErase ==
  ASSUME TypeOK, OutboxInv, [Next]_vars, NEW op \in kv.outbox, op.key \notin Keys(kv'.outbox)
  PROVE  /\ Queue # <<>> /\ Queue[1].do = "del" /\ Queue[1].op.key = op.key
         /\ Queue[1].by = "cancel" => op.key \in cancelled'
  <1>1. kv'.outbox # kv.outbox
    BY DEF Keys
  <1>2. ASSUME NEW m \in wire, Handle(m)
        PROVE  kv'.outbox = kv.outbox
    BY <1>2 DEF Handle
  <1>3. \/ \E w \in SyncNames : Read(w) \/ SyncUnchanged(w) \/ SyncApply(w) \/ SyncFails(w)
        \/ ItemsDone \/ MetaDone \/ RetryTimer \/ Visible \/ Online
        \/ \E w \in Writes : OtherWrite(w)
        \/ UNCHANGED vars
        => kv'.outbox = kv.outbox
    BY RestMoves
  <1>4. CASE OutboxDone
    <2>1. /\ Queue # <<>>
          /\ \/ Queue[1].do = "put" /\ kv'.outbox = kv.outbox \cup {Queue[1].op}
             \/ /\ Queue[1].do = "del" /\ kv'.outbox = Erased(kv.outbox, Queue[1].op.key)
                /\ cancelled' = cancelled \cup IF Queue[1].by = "cancel" THEN {Queue[1].op.key} ELSE {}
      BY <1>4, OutboxDoneMoves
    <2>. QED  BY <2>1 DEF Keys, Erased
  <1>5. ASSUME Loop \/ Answered \/ Fail \/ Reload \/ \E w \in Writes : Send(w)
        PROVE  kv'.outbox = kv.outbox
    BY <1>5 DEF Loop, Answered, Fail, Reload, Send
  <1>6. ASSUME NEW i \in DOMAIN outbox, Cancel(i)
        PROVE  kv'.outbox = kv.outbox
    BY <1>6 DEF Cancel
  <1>. QED
    BY <1>1, <1>2, <1>3, <1>4, <1>5, <1>6 DEF Next, Wheels, Trouble, People, SyncNames

LEMMA AnswersAreSound == Spec => [](TypeOK /\ OutboxInv /\ AnswerInv)
  <1>1. Init => AnswerInv
    BY InitAnswers
  <1>2. (TypeOK /\ OutboxInv /\ AnswerInv) /\ [Next]_vars => AnswerInv'
    BY AnswerStep
  <1>. QED  BY <1>1, <1>2, OutboxIsSound, PTL DEF Spec

\* Whatever fails or is cut off, a write on disk leaves it only once it was
\* carried out, turned down or taken back (NothingLost).
THEOREM WritesAreKept == Spec => NothingLost
  <1>1. ASSUME TypeOK, OutboxInv, AnswerInv, [Next]_vars
        PROVE  Keys(kv.outbox) \ Keys(kv'.outbox) \subseteq Range(applied) \cup refused \cup cancelled'
    <2>1. ASSUME NEW op \in kv.outbox, op.key \notin Keys(kv'.outbox)
          PROVE  op.key \in Range(applied) \cup refused \cup cancelled'
      <3>1. /\ Queue # <<>> /\ Queue[1].do = "del" /\ Queue[1].op.key = op.key
            /\ Queue[1].by = "cancel" => op.key \in cancelled'
        BY <1>1, <2>1, OnlyRemovalsErase
      <3>2. 1 \in DOMAIN Queue
        BY <1>1, <3>1, Shapes, EmptySeq
      <3>. QED  BY <1>1, <3>1, <3>2 DEF AnswerInv, Settled
    <2>. QED  BY <2>1 DEF Keys
  <1>2. (TypeOK /\ OutboxInv /\ AnswerInv) /\ [Next]_vars =>
          [Keys(kv.outbox) \ Keys(kv'.outbox) \subseteq Range(applied) \cup refused \cup cancelled']_vars
    BY <1>1
  <1>. QED  BY <1>2, AnswersAreSound, PTL DEF Spec, NothingLost

-----------------------------------------------------------------------------
(* Undo.                                                                   *)

LEMMA InitCancels == Init => CancelInv
  <1> SUFFICES ASSUME Init PROVE CancelInv
    OBVIOUS
  <1>1. DOMAIN Queue = {} /\ wire = {} /\ DOMAIN applied = {} /\ DOMAIN outbox = {}
        /\ cancelled = {} /\ kv.outbox = {}
    BY DEF Init, Queue, NoTxs
  <1>. QED  BY <1>1 DEF CancelInv, RemovedLast, TakenBack, SentIsOld, Unsent, Range

LEMMA CancelsKept ==
  ASSUME CancelInv, spent'.writes = spent.writes, spent'.loaded = spent.loaded,
         spent'.lost = 0 => spent.lost = 0,
         RemovedLast',
         \A i \in DOMAIN outbox' : \E j \in DOMAIN outbox :
           /\ outbox'[i].key = outbox[j].key
           /\ spent'.lost = 0 /\ outbox[j].sending => outbox'[i].sending,
         \A k \in cancelled' :
           \/ k \in cancelled
           \/ /\ ~Waits(k) /\ k <= spent.writes /\ (spent.lost = 0 => ~Sent(k))
              /\ k \notin Keys(kv'.outbox)
              /\ \A i \in DOMAIN Queue' : Queue'[i].do = "put" => Queue'[i].op.key # k,
         \A op \in kv'.outbox : op \in kv.outbox \/ op.key \notin cancelled,
         \A i \in DOMAIN Queue' :
           \/ \E j \in DOMAIN Queue : Queue'[i] = Queue[j]
           \/ /\ Queue'[i].do = "del"
              /\ Queue'[i].by # "cancel" \/ \E k : k = Queue'[i].op.key /\ (spent.lost = 0 => ~Sent(k)),
         \A k : Sent(k)' => Sent(k)
  PROVE  CancelInv'
  <1>1. \A k : Waits(k)' => Waits(k)
    BY DEF Waits
  <1>2. TakenBack'
    <2>1. ASSUME NEW k \in cancelled'
          PROVE  ~Waits(k)' /\ k <= spent'.writes
      BY <1>1 DEF CancelInv, TakenBack
    <2>2. ASSUME NEW op \in kv'.outbox
          PROVE  op.key \notin cancelled'
      BY DEF CancelInv, TakenBack, Keys
    <2>3. ASSUME NEW i \in DOMAIN Queue', Queue'[i].do = "put"
          PROVE  Queue'[i].op.key \notin cancelled'
      BY <2>3 DEF CancelInv, TakenBack
    <2>. QED  BY <2>1, <2>2, <2>3 DEF TakenBack
  <1>3. SentIsOld'
    <2>1. \A k : Sent(k) => k <= spent.writes
      BY DEF CancelInv, SentIsOld, Sent
    <2>2. \A k : Sent(k)' => k <= spent'.writes
      BY <2>1
    <2>. QED  BY <2>2 DEF SentIsOld, Sent
  <1>4. ASSUME spent'.lost = 0
        PROVE  /\ \A i \in DOMAIN outbox' : \A k :
                    k = outbox'[i].key /\ k > spent'.loaded /\ Sent(k)' => outbox'[i].sending
               /\ \A k \in cancelled' : ~Sent(k)'
               /\ \A i \in DOMAIN Queue' : \A k :
                    k = Queue'[i].op.key /\ Queue'[i].do = "del" /\ Queue'[i].by = "cancel" => ~Sent(k)'
    <2>1. ASSUME NEW i \in DOMAIN outbox', NEW k, k = outbox'[i].key, k > spent'.loaded, Sent(k)'
          PROVE  outbox'[i].sending
      <3>1. PICK j \in DOMAIN outbox :
              outbox'[i].key = outbox[j].key /\ (outbox[j].sending => outbox'[i].sending)
        BY <1>4
      <3>2. Sent(k) /\ outbox[j].key = k /\ spent.lost = 0
        BY <1>4, <2>1, <3>1
      <3>. QED  BY <2>1, <3>1, <3>2 DEF CancelInv, Unsent
    <2>2. ASSUME NEW k \in cancelled'
          PROVE  ~Sent(k)'
      BY <1>4 DEF CancelInv, Unsent
    <2>3. ASSUME NEW i \in DOMAIN Queue', NEW k, k = Queue'[i].op.key,
                 Queue'[i].do = "del", Queue'[i].by = "cancel"
          PROVE  ~Sent(k)'
      <3>1. CASE \E j \in DOMAIN Queue : Queue'[i] = Queue[j]
        BY <1>4, <2>3, <3>1 DEF CancelInv, Unsent
      <3>2. CASE \E l : l = Queue'[i].op.key /\ (spent.lost = 0 => ~Sent(l))
        BY <1>4, <2>3, <3>2
      <3>. QED  BY <2>3, <3>1, <3>2
    <2>. QED  BY <2>1, <2>2, <2>3
  <1>5. Unsent'
    BY <1>4 DEF Unsent
  <1>. QED  BY <1>2, <1>3, <1>5 DEF CancelInv

\* The queue grows by a removal, moves up or stays: nothing is put after it is
\* removed.
LEMMA RemovedStayLast ==
  ASSUME TypeOK, RemovedLast,
         \/ Queue' = Queue
         \/ Queue # <<>> /\ Queue' = Tail(Queue)
         \/ \E tx \in OutboxTx : tx.do = "del" /\ Queue' = Append(Queue, tx)
         \/ DOMAIN Queue' = {}
  PROVE  RemovedLast'
  <1>1. CASE Queue' = Queue
    BY <1>1 DEF RemovedLast
  <1>2. CASE Queue # <<>> /\ Queue' = Tail(Queue)
    <2>1. /\ DOMAIN Queue' = 1..(Len(Queue) - 1) /\ Len(Queue) \in Nat
          /\ \A i \in DOMAIN Queue' : i + 1 \in DOMAIN Queue /\ Queue'[i] = Queue[i + 1]
      BY <1>2, QueueMovesUp
    <2>2. ASSUME NEW i \in DOMAIN Queue', NEW j \in DOMAIN Queue', i < j,
                 Queue'[i].do = "del", Queue'[j].do = "put"
          PROVE  Queue'[i].op.key # Queue'[j].op.key
      <3>1. i + 1 < j + 1 /\ i + 1 \in DOMAIN Queue /\ j + 1 \in DOMAIN Queue
        BY <2>1, <2>2
      <3>2. Queue'[i] = Queue[i + 1] /\ Queue'[j] = Queue[j + 1]
        BY <2>1
      <3>. QED  BY <2>2, <3>1, <3>2 DEF RemovedLast
    <2>. QED  BY <2>2 DEF RemovedLast
  <1>3. ASSUME NEW tx \in OutboxTx, tx.do = "del", Queue' = Append(Queue, tx)
        PROVE  RemovedLast'
    <2> DEFINE q == Len(Queue)
    <2>1. q \in Nat /\ DOMAIN Queue = 1..q
      BY Shapes
    <2>2. /\ DOMAIN Queue' = 1..(q + 1) /\ Queue'[q + 1] = tx
          /\ \A i \in 1..q : Queue'[i] = Queue[i]
      BY <1>3, AddedTx
    <2>. HIDE DEF q
    <2>3. ASSUME NEW i \in DOMAIN Queue', NEW j \in DOMAIN Queue', i < j,
                 Queue'[i].do = "del", Queue'[j].do = "put"
          PROVE  Queue'[i].op.key # Queue'[j].op.key
      <3>1. j # q + 1
        BY <1>3, <2>2, <2>3
      <3>2. i \in 1..q /\ j \in 1..q
        <4>1. i \in 1..(q + 1) /\ j \in 1..(q + 1)
          BY <2>2
        <4>. QED  BY <2>1, <2>3, <3>1, <4>1
      <3>3. Queue'[i] = Queue[i] /\ Queue'[j] = Queue[j]
        BY <2>1, <2>2, <3>2
      <3>. QED  BY <2>3, <3>2, <3>3 DEF RemovedLast
    <2>. QED  BY <2>3 DEF RemovedLast
  <1>4. CASE DOMAIN Queue' = {}
    BY <1>4 DEF RemovedLast
  <1>. QED  BY <1>1, <1>2, <1>3, <1>4

LEMMA HandleKeepsCancels ==
  ASSUME TypeOK, CancelInv, NEW m \in wire, Handle(m)
  PROVE  CancelInv'
  <1>1. \A k : Sent(k)' => Sent(k)
    <2>1. Range(applied') \subseteq Range(applied) \cup {m.op.key}
      <3> DEFINE AnyKey == 1..MaxWrites
      <3>1. applied \in Seq(AnyKey) /\ m.op.key \in AnyKey
        BY DEF TypeOK, OpType
      <3>. HIDE DEF AnyKey
      <3>2. Range(Append(applied, m.op.key)) = Range(applied) \cup {m.op.key}
        BY <3>1, AddedToRange
      <3>3. applied' = applied => Range(applied') = Range(applied)
        OBVIOUS
      <3>. QED  BY <3>2, <3>3 DEF Handle
    <2>2. wire' \subseteq wire
      BY DEF Handle
    <2>. QED  BY <2>1, <2>2 DEF Sent
  <1>2. /\ spent' = spent /\ outbox' = outbox /\ cancelled' = cancelled /\ kv' = kv /\ Queue' = Queue
    BY DEF Handle, Queue
  <1>3. RemovedLast'
    BY <1>2, RemovedStayLast DEF CancelInv
  <1>. QED  BY <1>1, <1>2, <1>3, CancelsKept

LEMMA RestKeepsCancels ==
  ASSUME TypeOK, CancelInv,
         \/ \E w \in SyncNames : Read(w) \/ SyncUnchanged(w) \/ SyncApply(w) \/ SyncFails(w)
         \/ ItemsDone \/ MetaDone \/ RetryTimer \/ Visible \/ Online
         \/ \E w \in Writes : OtherWrite(w)
         \/ UNCHANGED vars
  PROVE  CancelInv'
  <1>1. /\ wire' = wire /\ applied' = applied
        /\ outbox' = outbox /\ Queue' = Queue /\ kv'.outbox = kv.outbox /\ cancelled' = cancelled
        /\ spent'.writes = spent.writes /\ spent'.loaded = spent.loaded
        /\ (spent'.lost = 0 => spent.lost = 0)
    BY RestMoves
  <1>2. RemovedLast'
    BY <1>1, RemovedStayLast DEF CancelInv
  <1>3. \A k : Sent(k)' => Sent(k)
    BY <1>1 DEF Sent
  <1>. QED  BY <1>1, <1>2, <1>3, CancelsKept

\* A write starts being sent while it is queued, so it was not taken back.
LEMMA LoopKeepsCancels ==
  ASSUME TypeOK, OutboxInv, CancelInv, Loop
  PROVE  CancelInv'
  <1>1. /\ outbox \in Seq(QueuedType) /\ Queue' = Queue /\ applied' = applied
        /\ cancelled' = cancelled /\ kv' = kv
    BY DEF Loop, TypeOK, Queue
  <1>2. RemovedLast'
    BY <1>1, RemovedStayLast DEF CancelInv
  <1>3. CASE outbox = <<>> \/ ~Sendable(Head(outbox))
    <2>1. wire' = wire /\ spent' = spent /\ outbox' = outbox
      BY <1>3 DEF Loop
    <2>2. \A k : Sent(k)' => Sent(k)
      BY <1>1, <2>1 DEF Sent
    <2>. QED  BY <1>1, <1>2, <2>1, <2>2, CancelsKept
  <1>4. CASE outbox # <<>> /\ Sendable(Head(outbox))
    <2> DEFINE op == Plain(Head(outbox))
    <2>1. Head(outbox) = outbox[1] /\ 1 \in 1..Len(outbox) /\ 1 \in DOMAIN outbox
      BY <1>1, <1>4, HeadIsFirst, LenProperties
    <2>2. /\ outbox' = [outbox EXCEPT ![1].sending = TRUE] /\ Spend("tries")
          /\ wire' = wire \cup {[try |-> spent.tries + 1, op |-> op]}
      BY <1>4 DEF Loop
    <2>3. op.key = outbox[1].key /\ Waits(op.key) /\ op.key <= spent.writes
      BY <2>1 DEF Plain, Waits, OutboxInv, Numbered
    <2>. HIDE DEF op
    <2>4. /\ DOMAIN outbox' = 1..Len(outbox) /\ DOMAIN outbox = 1..Len(outbox)
          /\ \A i \in 1..Len(outbox) :
               /\ outbox'[i].key = outbox[i].key
               /\ outbox'[i].sending = IF i = 1 THEN TRUE ELSE outbox[i].sending
      BY <1>1, <1>4, <2>2, MarkIsTyped, LenProperties
    <2>5. spent'.writes = spent.writes /\ spent'.loaded = spent.loaded /\ spent'.lost = spent.lost
      BY <2>2, SpendIsTyped
    <2>6. \A k : Sent(k)' => Sent(k) \/ k = op.key
      BY <1>1, <2>2 DEF Sent
    <2>7. TakenBack'
      <3>1. \A k : Waits(k)' => Waits(k)
        BY <2>4 DEF Waits
      <3>. QED  BY <1>1, <2>5, <3>1 DEF CancelInv, TakenBack
    <2>8. SentIsOld'
      <3>1. \A k : Sent(k)' => k <= spent.writes
        BY <2>3, <2>6 DEF CancelInv, SentIsOld, Sent
      <3>. QED  BY <2>5, <3>1 DEF SentIsOld, Sent
    <2>9. Unsent'
      <3>1. ASSUME spent.lost = 0, NEW i \in DOMAIN outbox', NEW k, k = outbox'[i].key,
                   k > spent.loaded, Sent(k)'
            PROVE  outbox'[i].sending
        <4>1. CASE k = op.key
          <5>1. i \in 1..Len(outbox) /\ outbox[i].key = outbox[1].key
            BY <2>3, <2>4, <3>1, <4>1
          <5>2. Numbered
            BY DEF OutboxInv
          <5>3. i = 1
            BY <2>1, <5>1, <5>2, OneEntry
          <5>. QED  BY <2>1, <2>4, <5>3
        <4>2. CASE k # op.key
          <5>1. Sent(k) /\ k = outbox[i].key /\ i \in DOMAIN outbox
            BY <2>4, <2>6, <3>1, <4>2
          <5>2. outbox[i].sending
            BY <3>1, <5>1 DEF CancelInv, Unsent
          <5>. QED  BY <2>4, <3>1, <5>2
        <4>. QED  BY <4>1, <4>2
      <3>2. ASSUME spent.lost = 0, NEW k \in cancelled
            PROVE  ~Sent(k)'
        BY <2>3, <2>6, <3>2 DEF CancelInv, TakenBack, Unsent
      <3>3. ASSUME spent.lost = 0, NEW i \in DOMAIN Queue, NEW k, k = Queue[i].op.key,
                   Queue[i].do = "del", Queue[i].by = "cancel"
            PROVE  ~Sent(k)'
        BY <2>3, <2>6, <3>3 DEF CancelInv, Unsent, OutboxInv, Mirrored
      <3>. QED  BY <1>1, <2>5, <3>1, <3>2, <3>3 DEF Unsent
    <2>. QED  BY <1>2, <2>7, <2>8, <2>9 DEF CancelInv
  <1>. QED  BY <1>3, <1>4

\* A failure ends what the invariant promises of what was sent.
LEMMA FailKeepsCancels ==
  ASSUME TypeOK, OutboxInv, CancelInv, Fail
  PROVE  CancelInv'
  <1>1. /\ outbox \in Seq(QueuedType) /\ Queue' = Queue /\ applied' = applied /\ wire' \subseteq wire
        /\ cancelled' = cancelled /\ kv' = kv /\ outbox' = [outbox EXCEPT ![1].sending = FALSE]
    BY DEF Fail, TypeOK, Queue, PutBack
  <1>2. outbox # <<>>
    BY FailKeepsOutbox
  <1>3. /\ DOMAIN outbox' = 1..Len(outbox) /\ DOMAIN outbox = 1..Len(outbox)
        /\ \A i \in 1..Len(outbox) : outbox'[i].key = outbox[i].key
    BY <1>1, <1>2, MarkIsTyped, LenProperties
  <1>4. spent'.writes = spent.writes /\ spent'.loaded = spent.loaded /\ spent'.lost # 0
    <2>1. spent.lost \in Nat /\ Spend("lost")
      BY Shapes DEF Fail
    <2>. QED  BY <2>1, SpendIsTyped
  <1>5. RemovedLast'
    BY <1>1, RemovedStayLast DEF CancelInv
  <1>6. \A k : Sent(k)' => Sent(k)
    BY <1>1 DEF Sent
  <1>. QED  BY <1>1, <1>3, <1>4, <1>5, <1>6, CancelsKept

LEMMA AnsweredKeepsCancels ==
  ASSUME TypeOK, OutboxInv, CancelInv, Answered
  PROVE  CancelInv'
  <1> DEFINE tx == [do |-> "del", by |-> "flush", op |-> flush.op]
             n == Len(outbox)
  <1>1. /\ tx \in OutboxTx /\ tx.do = "del" /\ tx.by = "flush" /\ Queue' = Append(Queue, tx)
        /\ outbox' \in Seq(QueuedType) /\ Len(outbox') = n - 1
        /\ \A k \in 1..(n - 1) : outbox'[k] = outbox[k + 1]
    BY AnsweredCases
  <1>. HIDE DEF tx
  <1>2. n \in Nat /\ DOMAIN outbox = 1..n
    BY Shapes
  <1>3. DOMAIN outbox' = 1..(n - 1)
    BY <1>1, LenProperties
  <1>. HIDE DEF n
  <1>4. \A i \in DOMAIN outbox' : i + 1 \in DOMAIN outbox /\ outbox'[i] = outbox[i + 1]
    BY <1>1, <1>2, <1>3
  <1>5. /\ spent' = spent /\ wire' = wire /\ applied' = applied /\ cancelled' = cancelled /\ kv' = kv
    BY DEF Answered, server
  <1>6. RemovedLast'
    BY <1>1, RemovedStayLast DEF CancelInv
  <1>7. \A i \in DOMAIN Queue' : (i \in DOMAIN Queue /\ Queue'[i] = Queue[i]) \/ Queue'[i] = tx
    BY <1>1, AddedTx
  <1>8. \A k : Sent(k)' => Sent(k)
    BY <1>5 DEF Sent
  <1>. QED  BY <1>1, <1>4, <1>5, <1>6, <1>7, <1>8, CancelsKept

\* What is taken back was queued, of this page load and not being sent.
LEMMA CancelKeepsCancels ==
  ASSUME TypeOK, CancelInv, NEW c \in DOMAIN outbox, Cancel(c)
  PROVE  CancelInv'
  <1> DEFINE tx == [do |-> "del", by |-> "cancel", op |-> Plain(outbox[c])]
             n == Len(outbox)
  <1>1. /\ tx \in OutboxTx /\ tx.do = "del" /\ tx.by = "cancel" /\ tx.op.key = outbox[c].key
        /\ Queue' = Append(Queue, tx)
        /\ outbox' \in Seq(QueuedType) /\ Len(outbox') = n - 1
        /\ \A k \in 1..(n - 1) : outbox'[k] = IF k < c THEN outbox[k] ELSE outbox[k + 1]
        /\ spent'.writes = spent.writes /\ spent'.loaded = spent.loaded /\ spent'.lost = spent.lost
    BY CancelCases
  <1>2. spent.lost = 0 => ~Sent(tx.op.key)
    BY <1>1 DEF Cancel, MayCancel, CancelInv, Unsent
  <1>. HIDE DEF tx
  <1>3. n \in Nat /\ DOMAIN outbox = 1..n
    BY Shapes
  <1>4. DOMAIN outbox' = 1..(n - 1)
    BY <1>1, LenProperties
  <1>. HIDE DEF n
  <1>5. \A i \in DOMAIN outbox' : /\ i \in DOMAIN outbox /\ i + 1 \in DOMAIN outbox
                                  /\ outbox'[i] = outbox[i] \/ outbox'[i] = outbox[i + 1]
    BY <1>1, <1>3, <1>4
  <1>6. wire' = wire /\ applied' = applied /\ cancelled' = cancelled /\ kv' = kv
    BY DEF Cancel, server
  <1>7. RemovedLast'
    BY <1>1, RemovedStayLast DEF CancelInv
  <1>8. \A i \in DOMAIN Queue' : (i \in DOMAIN Queue /\ Queue'[i] = Queue[i]) \/ Queue'[i] = tx
    BY <1>1, AddedTx
  <1>9. \A k : Sent(k)' => Sent(k)
    BY <1>6 DEF Sent
  <1>. QED  BY <1>1, <1>2, <1>5, <1>6, <1>7, <1>8, <1>9, CancelsKept

\* A new write has a key of its own.
LEMMA SendKeepsCancels ==
  ASSUME TypeOK, OutboxInv, CancelInv, NEW w \in Writes, Send(w)
  PROVE  CancelInv'
  <1> DEFINE n == Len(outbox)
             q == Len(Queue)
  <1>1. PICK op \in OpType :
          /\ op.key = spent.writes + 1
          /\ outbox' = Append(outbox, Waiting(op, FALSE)) /\ Waiting(op, FALSE) \in QueuedType
          /\ Waiting(op, FALSE).key = op.key
          /\ Queue' = Append(Queue, [do |-> "put", by |-> "send", op |-> op])
          /\ [do |-> "put", by |-> "send", op |-> op] \in OutboxTx
    BY SendCases
  <1>2. /\ spent'.writes = spent.writes + 1 /\ spent'.loaded = spent.loaded /\ spent'.lost = spent.lost
        /\ wire' = wire /\ applied' = applied /\ cancelled' = cancelled /\ kv' = kv
    BY SendCases DEF Send, server
  <1>3. /\ outbox \in Seq(QueuedType) /\ n \in Nat /\ DOMAIN outbox = 1..n
        /\ spent.writes \in Nat
        /\ \A i \in 1..n : outbox[i].key \in Nat
        /\ \A i \in DOMAIN Queue : Queue[i].op.key \in Nat
    BY Shapes
  <1>4. /\ DOMAIN outbox' = 1..(n + 1) /\ outbox'[n + 1] = Waiting(op, FALSE)
        /\ \A i \in 1..n : outbox'[i] = outbox[i]
    <2> DEFINE o == Waiting(op, FALSE)
    <2>1. o \in QueuedType /\ outbox' = Append(outbox, o)
      BY <1>1
    <2>. HIDE DEF o
    <2>2. /\ Append(outbox, o) \in Seq(QueuedType) /\ Len(Append(outbox, o)) = n + 1
          /\ Append(outbox, o)[n + 1] = o
          /\ \A i \in 1..n : Append(outbox, o)[i] = outbox[i]
      BY <1>3, <2>1, AppendProperties
    <2>3. DOMAIN Append(outbox, o) = 1..(n + 1)
      BY <2>2, LenProperties
    <2>4. outbox'[n + 1] = o /\ DOMAIN outbox' = 1..(n + 1) /\ \A i \in 1..n : outbox'[i] = outbox[i]
      BY <2>1, <2>2, <2>3
    <2>. QED  BY <2>4 DEF o
  <1>5. \A i \in DOMAIN outbox' : \/ i \in DOMAIN outbox /\ outbox'[i] = outbox[i]
                                  \/ outbox'[i].key = op.key
    <2>1. \A i \in 1..(n + 1) : i \in 1..n \/ i = n + 1
      BY <1>3
    <2>. QED  BY <1>1, <1>3, <1>4, <2>1
  <1>6. /\ q \in Nat /\ DOMAIN Queue = 1..q /\ DOMAIN Queue' = 1..(q + 1)
        /\ \A i \in 1..q : Queue'[i] = Queue[i]
        /\ Queue'[q + 1] = [do |-> "put", by |-> "send", op |-> op]
    BY <1>1, AddedTx
  <1>. HIDE DEF n, q
  <1>7. \A i \in DOMAIN Queue : Queue[i].op.key # op.key
    BY <1>1, <1>3 DEF OutboxInv, Numbered
  <1>8. \A k : Sent(k)' <=> Sent(k)
    BY <1>2 DEF Sent
  <1>9. ~Sent(op.key) /\ op.key \notin cancelled
    <2>1. \A k : Sent(k) \/ k \in cancelled => k <= spent.writes
      BY DEF CancelInv, SentIsOld, TakenBack, Sent
    <2>. QED  BY <1>1, <1>3, <2>1
  <1>10. RemovedLast'
    <2>1. ASSUME NEW i \in DOMAIN Queue', NEW j \in DOMAIN Queue', i < j,
                 Queue'[i].do = "del", Queue'[j].do = "put"
          PROVE  Queue'[i].op.key # Queue'[j].op.key
      <3>1. i \in 1..(q + 1) /\ j \in 1..(q + 1) /\ i \in 1..q
        BY <1>6, <2>1
      <3>2. CASE j = q + 1
        BY <1>6, <1>7, <3>1, <3>2
      <3>3. CASE j # q + 1
        <4>1. j \in 1..q
          BY <1>6, <3>1, <3>3
        <4>. QED  BY <1>6, <2>1, <3>1, <4>1 DEF CancelInv, RemovedLast
      <3>. QED  BY <3>2, <3>3
    <2>. QED  BY <2>1 DEF RemovedLast
  <1>11. \A i \in DOMAIN Queue' : \/ i \in DOMAIN Queue /\ Queue'[i] = Queue[i]
                                  \/ Queue'[i].do = "put" /\ Queue'[i].op.key = op.key
    <2>1. \A i \in 1..(q + 1) : i \in 1..q \/ i = q + 1
      BY <1>6
    <2>. QED  BY <1>6, <2>1
  <1>12. TakenBack'
    <2>1. ASSUME NEW k \in cancelled
          PROVE  ~Waits(k)' /\ k <= spent'.writes
      <3>1. ~Waits(k) /\ k <= spent.writes /\ k # op.key
        BY <1>9 DEF CancelInv, TakenBack
      <3>2. ~Waits(k)'
        BY <1>5, <3>1 DEF Waits
      <3>3. spent.writes <= spent'.writes /\ k \in Int
        BY <1>2, <1>3 DEF TypeOK
      <3>. QED  BY <1>2, <1>3, <3>1, <3>2, <3>3
    <2>2. \A i \in DOMAIN Queue' : Queue'[i].do = "put" => Queue'[i].op.key \notin cancelled
      BY <1>9, <1>11 DEF CancelInv, TakenBack
    <2>3. \A p \in kv'.outbox : p.key \notin cancelled
      BY <1>2 DEF CancelInv, TakenBack
    <2>. QED  BY <1>2, <2>1, <2>2, <2>3 DEF TakenBack
  <1>13. SentIsOld'
    <2>1. ASSUME NEW m \in wire
          PROVE  m.op.key <= spent'.writes
      <3>1. m.op.key \in Nat /\ m.op.key <= spent.writes
        BY DEF CancelInv, SentIsOld, TypeOK, OpType
      <3>. QED  BY <1>2, <1>3, <3>1
    <2>2. ASSUME NEW k \in Range(applied)
          PROVE  k <= spent'.writes
      <3>1. k \in Nat /\ k <= spent.writes
        <4> DEFINE AnyKey == 1..MaxWrites
        <4>1. applied \in Seq(AnyKey)
          BY DEF TypeOK
        <4>. HIDE DEF AnyKey
        <4>2. k \in AnyKey
          BY <4>1, LenProperties DEF Range
        <4>. QED  BY <4>2 DEF AnyKey, CancelInv, SentIsOld
      <3>. QED  BY <1>2, <1>3, <3>1
    <2>. QED  BY <1>2, <2>1, <2>2 DEF SentIsOld
  <1>14. Unsent'
    <2>1. ASSUME spent.lost = 0, NEW i \in DOMAIN outbox', NEW k, k = outbox'[i].key,
                 k > spent.loaded, Sent(k)'
          PROVE  outbox'[i].sending
      BY <1>5, <1>8, <1>9, <2>1 DEF CancelInv, Unsent
    <2>2. ASSUME spent.lost = 0, NEW i \in DOMAIN Queue', NEW k, k = Queue'[i].op.key,
                 Queue'[i].do = "del", Queue'[i].by = "cancel"
          PROVE  ~Sent(k)'
      BY <1>8, <1>11, <2>2 DEF CancelInv, Unsent
    <2>3. ASSUME spent.lost = 0, NEW k \in cancelled
          PROVE  ~Sent(k)'
      BY <1>8, <2>3 DEF CancelInv, Unsent
    <2>. QED  BY <1>2, <2>1, <2>2, <2>3 DEF Unsent
  <1>. QED  BY <1>10, <1>12, <1>13, <1>14 DEF CancelInv

\* What is erased for good was queued no longer, and nothing behind its removal
\* puts it back.
LEMMA OutboxDoneKeepsCancels ==
  ASSUME TypeOK, OutboxInv, CancelInv, OutboxDone
  PROVE  CancelInv'
  <1>1. /\ Queue # <<>> /\ Queue' = Tail(Queue) /\ Queue[1] \in OutboxTx
        /\ \/ /\ Queue[1].do = "put" /\ kv'.outbox = kv.outbox \cup {Queue[1].op}
              /\ outbox' = Persisted(outbox, Queue[1].op.key) /\ cancelled' = cancelled
           \/ /\ Queue[1].do = "del" /\ kv'.outbox = Erased(kv.outbox, Queue[1].op.key)
              /\ outbox' = outbox
              /\ cancelled' = cancelled \cup IF Queue[1].by = "cancel" THEN {Queue[1].op.key} ELSE {}
    BY OutboxDoneMoves
  <1>2. /\ Len(Queue) \in Nat /\ 1 \in 1..Len(Queue) /\ DOMAIN Queue = 1..Len(Queue)
        /\ DOMAIN Queue' = 1..(Len(Queue) - 1)
        /\ \A i \in DOMAIN Queue' : i + 1 \in DOMAIN Queue /\ Queue'[i] = Queue[i + 1]
    BY <1>1, QueueMovesUp
  <1>3. /\ wire' = wire /\ applied' = applied /\ spent' = spent
        /\ outbox \in Seq(QueuedType) /\ DOMAIN outbox = 1..Len(outbox)
    BY Shapes DEF OutboxDone, server
  <1>4. RemovedLast'
    BY <1>1, RemovedStayLast DEF CancelInv
  <1>5. \A k : Sent(k)' => Sent(k)
    BY <1>3 DEF Sent
  <1>6. CASE Queue[1].do = "put"
    <2> DEFINE key == Queue[1].op.key
    <2>1. kv'.outbox = kv.outbox \cup {Queue[1].op} /\ outbox' = Persisted(outbox, key) /\ cancelled' = cancelled
      BY <1>1, <1>6
    <2>2. key \notin cancelled
      BY <1>2, <1>6 DEF CancelInv, TakenBack
    <2>3. \A op \in kv'.outbox : op \in kv.outbox \/ op.key \notin cancelled
      BY <2>1, <2>2
    <2>. HIDE DEF key
    <2>4. /\ DOMAIN outbox' = 1..Len(outbox)
          /\ \A i \in 1..Len(outbox) : outbox'[i].key = outbox[i].key /\ outbox'[i].sending = outbox[i].sending
      BY <1>3, <2>1, PersistIsTyped, LenProperties
    <2>. QED  BY <1>2, <1>3, <1>4, <1>5, <2>1, <2>3, <2>4, CancelsKept
  <1>7. CASE Queue[1].do = "del"
    <2> DEFINE key == Queue[1].op.key
    <2>1. /\ kv'.outbox = {op \in kv.outbox : op.key # key} /\ outbox' = outbox
          /\ cancelled' = cancelled \cup IF Queue[1].by = "cancel" THEN {key} ELSE {}
      BY <1>1, <1>7 DEF Erased
    <2>2. key \notin Keys(kv'.outbox) /\ \A op \in kv'.outbox : op \in kv.outbox
      BY <2>1 DEF Keys
    <2>3. ~Waits(key) /\ key <= spent.writes
      BY <1>2, <1>7 DEF OutboxInv, Mirrored, Numbered
    <2>4. ASSUME NEW i \in DOMAIN Queue', Queue'[i].do = "put"
          PROVE  Queue'[i].op.key # key
      <3>1. i + 1 \in DOMAIN Queue /\ Queue'[i] = Queue[i + 1] /\ 1 < i + 1
        BY <1>2
      <3>. QED  BY <1>2, <1>7, <2>4, <3>1 DEF CancelInv, RemovedLast
    <2>5. Queue[1].by = "cancel" /\ spent.lost = 0 => ~Sent(key)
      BY <1>2, <1>7 DEF CancelInv, Unsent
    <2>. HIDE DEF key
    <2>6. \A k \in cancelled' : k \in cancelled \/ (k = key /\ Queue[1].by = "cancel")
      BY <2>1
    <2>. QED  BY <1>2, <1>3, <1>4, <1>5, <2>1, <2>2, <2>3, <2>4, <2>5, <2>6, CancelsKept
  <1>. QED  BY <1>1, <1>6, <1>7

\* A page load queues what is on disk, and its undos do not survive it.
LEMMA ReloadKeepsCancels ==
  ASSUME TypeOK, OutboxInv, CancelInv, Reload
  PROVE  CancelInv'
  <1>0. Numbered
    BY DEF OutboxInv
  <1>1. PICK ops \in Seq(OpType) :
           /\ ByKey(ops)
           /\ \A i \in 1..Len(ops) : ops[i] \in kv.outbox
           /\ \A op \in kv.outbox : \E i \in 1..Len(ops) : ops[i] = op
           /\ outbox' \in Seq(QueuedType) /\ Len(outbox') = Len(ops)
           /\ \A i \in 1..Len(ops) : outbox'[i] = Waiting(ops[i], TRUE)
    BY <1>0, ReloadCases
  <1>2. /\ DOMAIN outbox' = 1..Len(ops)
        /\ \A i \in 1..Len(ops) : ops[i] \in kv.outbox /\ outbox'[i].key = ops[i].key
    <2>1. \A op : Waiting(op, TRUE).key = op.key
      BY DEF Waiting
    <2>. QED  BY <1>1, <2>1, LenProperties
  <1>3. DOMAIN Queue' = {} /\ kv' = kv /\ wire' = wire /\ applied' = applied /\ cancelled' = cancelled
    BY DEF Reload, Queue, NoTxs, server
  <1>4. /\ spent'.writes = spent.writes /\ spent'.loaded = spent.writes /\ spent'.lost = spent.lost
        /\ spent.writes \in Nat
    <2>1. spent \in SpentType
      BY DEF TypeOK
    <2>2. spent' = [spent EXCEPT !["reloads"] = @ + 1, !["loaded"] = spent.writes]
      BY DEF Reload
    <2>. QED  BY <2>1, <2>2 DEF SpentType
  <1>5. RemovedLast' /\ SentIsOld'
    BY <1>3, <1>4 DEF RemovedLast, CancelInv, SentIsOld
  <1>6. TakenBack'
    <2>1. ASSUME NEW k \in cancelled
          PROVE  ~Waits(k)' /\ k <= spent.writes
      BY <1>2, <2>1 DEF Waits, CancelInv, TakenBack
    <2>. QED  BY <1>3, <1>4, <2>1 DEF CancelInv, TakenBack
  <1>7. Unsent'
    <2>1. ASSUME NEW i \in DOMAIN outbox'
          PROVE  ~(outbox'[i].key > spent.writes)
      <3>1. ops[i] \in kv.outbox /\ outbox'[i].key = ops[i].key
        BY <1>2
      <3>2. ops[i].key \in Nat /\ ops[i].key <= spent.writes
        BY <1>0, <3>1, Shapes DEF Numbered
      <3>. QED  BY <1>4, <3>1, <3>2
    <2>2. \A k : Sent(k)' => Sent(k)
      BY <1>3 DEF Sent
    <2>. QED  BY <1>3, <1>4, <2>1, <2>2 DEF CancelInv, Unsent
  <1>. QED  BY <1>5, <1>6, <1>7 DEF CancelInv

LEMMA CancelStep ==
  ASSUME TypeOK, OutboxInv, CancelInv, [Next]_vars
  PROVE  CancelInv'
  <1>1. ASSUME NEW m \in wire, Handle(m)
        PROVE  CancelInv'
    BY <1>1, HandleKeepsCancels
  <1>2. CASE \/ \E w \in SyncNames : Read(w) \/ SyncUnchanged(w) \/ SyncApply(w) \/ SyncFails(w)
             \/ ItemsDone \/ MetaDone \/ RetryTimer \/ Visible \/ Online
             \/ \E w \in Writes : OtherWrite(w)
             \/ UNCHANGED vars
    BY <1>2, RestKeepsCancels
  <1>3. CASE Loop \/ Answered \/ Fail \/ OutboxDone \/ Reload
    BY <1>3, LoopKeepsCancels, AnsweredKeepsCancels, FailKeepsCancels, OutboxDoneKeepsCancels,
       ReloadKeepsCancels
  <1>4. ASSUME NEW w \in Writes, Send(w)
        PROVE  CancelInv'
    BY <1>4, SendKeepsCancels
  <1>5. ASSUME NEW i \in DOMAIN outbox, Cancel(i)
        PROVE  CancelInv'
    BY <1>5, CancelKeepsCancels
  <1>. QED
    BY <1>1, <1>2, <1>3, <1>4, <1>5 DEF Next, Wheels, Trouble, People, SyncNames

\* "Not sent yet: just drop it": as long as no request fails, what the person
\* took back is never carried out, however often the page is loaded (CancelDrops).
THEOREM UndoneIsDropped == Spec => []CancelDrops
  <1>1. Init => CancelInv
    BY InitCancels
  <1>2. (TypeOK /\ OutboxInv) /\ CancelInv /\ [Next]_vars => CancelInv'
    BY CancelStep
  <1>3. CancelInv => CancelDrops
    BY DEF CancelInv, Unsent, Sent, CancelDrops
  <1>. QED  BY <1>1, <1>2, <1>3, OutboxIsSound, PTL DEF Spec
=============================================================================
