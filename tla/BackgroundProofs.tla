------------------------- MODULE BackgroundProofs -------------------------
(***************************************************************************)
(* Proofs about what goes on behind the requests.  Each part has its       *)
(* invariant, at the end of its module; a section here proves that the     *)
(* part starts in it and keeps it, and that it gives the part's            *)
(* properties.  BackgroundParts tells which of v1 to v13 is which of a     *)
(* part's variables.  The last section puts the parts together.            *)
(***************************************************************************)
EXTENDS BackgroundParts, Sequences, FiniteSetTheorems, SequenceTheorems, WellFoundedInduction, TLAPS

-----------------------------------------------------------------------------
(* The IGDB client: v1 is accessToken, v2 expiring, v3 issued, v4 accepted, *)
(* v5 calls and v6 losses.                                                 *)

LEMMA IgdbStart == ASSUME I!IgdbInit PROVE I!IgdbInv
  <1>1. I!IgdbTypeOK
    <2>1. v1 \in 0..v3 /\ v3 \in 0..MaxTokens /\ v4 \subseteq 1..v3 /\ v6 \in 0..MaxLosses
      BY IgdbConstants DEF I!IgdbInit, I!None
    <2>2. v2 \in BOOLEAN
      BY DEF I!IgdbInit
    <2>. QED  BY <2>1, <2>2 DEF I!IgdbInit, I!IgdbTypeOK
  <1>2. v5 \in [Requests -> {I!Resting} \cup I!Calls] /\ \A r \in Requests : v5[r] = I!Resting
    BY DEF I!IgdbInit
  <1>3. v3 = 0 /\ v6 = 0 /\ ~I!Usable
    BY DEF I!IgdbInit, I!Usable, I!None
  <1>. QED  BY <1>1, <1>2, <1>3 DEF I!IgdbInv

\* A call takes the cached token, fetches one when there is none, or ends.
LEMMA IgdbAuth ==
  ASSUME I!IgdbInv, UNCHANGED v6,
         NEW r \in Requests, NEW a \in Nat, NEW b \in BOOLEAN,
         a <= Max429Retries + (IF b THEN 1 ELSE 0),
         I!Authenticate(r, a, b)
  PROVE  I!IgdbInv'
  <1>. DEFINE post(t) == [pc |-> "post", token |-> t, attempt |-> a, retried401 |-> b]
  <1>. USE DEF I!None
  <1>1. \A t \in Nat : post(t) \in I!Calls /\ post(t) # I!Resting
    BY DEF I!Calls, I!Resting
  <1>2. CASE v1 # 0 /\ ~v2
    <2>1. v5' = [v5 EXCEPT ![r] = post(v1)] /\ UNCHANGED <<v1, v2, v3, v4, v6>>
      BY <1>2 DEF I!Authenticate
    <2>2. v1 \in 1..v3 /\ v3 \in Nat
      BY <1>2, IgdbConstants DEF I!IgdbInv, I!IgdbTypeOK
    <2>. QED  BY <2>1, <2>2, <1>1, IgdbConstants DEF I!IgdbInv, I!IgdbTypeOK, I!Usable
  <1>3. CASE ~(v1 # 0 /\ ~v2) /\ v3' = v3 + 1
    <2>1. /\ v3 < MaxTokens /\ v1' = v3 + 1 /\ v4' = v4 \cup {v3 + 1} /\ v2' = FALSE
          /\ v5' = [v5 EXCEPT ![r] = post(v3 + 1)]
      BY <1>3, IgdbConstants DEF I!Authenticate, I!IgdbInv, I!IgdbTypeOK
    <2>2. I!IgdbTypeOK'
      <3>1. v1' \in 0..v3' /\ v3' \in 0..MaxTokens /\ v4' \subseteq 1..v3' /\ v6' \in 0..MaxLosses
        BY <1>3, <2>1, IgdbConstants DEF I!IgdbInv, I!IgdbTypeOK
      <3>2. \A x \in 1..v3 : x \in 1..v3'
        BY <1>3, <2>1, IgdbConstants DEF I!IgdbInv, I!IgdbTypeOK
      <3>3. v3 + 1 \in 1..v3' /\ v3 + 1 \in Nat /\ a \in 0..(Max429Retries + 1)
        BY <1>3, <2>1, IgdbConstants DEF I!IgdbInv, I!IgdbTypeOK
      <3>4. v2' \in BOOLEAN
        BY <2>1
      <3>. QED  BY <1>1, <2>1, <3>1, <3>2, <3>3, <3>4 DEF I!IgdbInv, I!IgdbTypeOK
    <2>3. v5' \in [Requests -> {I!Resting} \cup I!Calls]
      BY <1>1, <1>3, <2>1, IgdbConstants DEF I!IgdbInv, I!IgdbTypeOK
    <2>4. I!Usable' /\ v3 <= v6
      BY <1>3, <2>1, IgdbConstants DEF I!IgdbInv, I!IgdbTypeOK, I!Usable
    <2>. QED  BY <1>1, <1>3, <2>1, <2>2, <2>3, <2>4, IgdbConstants DEF I!IgdbInv, I!IgdbTypeOK
  <1>4. CASE v5' = [v5 EXCEPT ![r] = I!Resting] /\ UNCHANGED <<v1, v2, v3, v4>>
    BY <1>4, IgdbConstants DEF I!IgdbInv, I!IgdbTypeOK, I!Usable
  <1>. QED  BY <1>2, <1>3, <1>4 DEF I!Authenticate

\* An answer ends the call or sends it round again, and a 401 drops the token
\* only while it is the one that was refused.
LEMMA IgdbAnswer ==
  ASSUME I!IgdbInv, NEW r \in Requests, NEW answer \in I!Answers, I!Answer(r, answer)
  PROVE  I!IgdbInv'
  <1>. DEFINE c == v5[r]
              d == v5'[r]
  <1>1. /\ UNCHANGED <<v2, v3, v4, v6>> /\ c.pc = "post"
        /\ \/ answer # "denied" /\ v1' = v1
           \/ answer = "denied" /\ v1' = I!InvalidateToken(c.token) /\ c.token \notin v4
    BY DEF I!Answer
  <1>2. v1' = v1 \/ (v1' = 0 /\ v1 \notin v4)
    BY <1>1 DEF I!InvalidateToken, I!None
  <1>3. c # I!Resting /\ c \in I!Calls
    BY <1>1 DEF I!IgdbInv, I!Resting
  <1>4. /\ v5' \in [Requests -> {I!Resting} \cup I!Calls]
        /\ \A q \in Requests \ {r} : v5'[q] = v5[q]
        /\ \/ d = I!Resting
           \/ answer = "denied" /\ ~c.retried401 /\ d = [c EXCEPT !.pc = "again", !.retried401 = TRUE]
           \/ c.attempt < Max429Retries /\ d = [c EXCEPT !.pc = "again"]
    <2>1. v5' = [v5 EXCEPT ![r] = d] /\ v5' \in [Requests -> {I!Resting} \cup I!Calls]
      BY <1>3 DEF I!Answer, I!IgdbInv, I!Calls
    <2>2. \/ d = I!Resting
          \/ answer = "denied" /\ ~c.retried401 /\ d = [c EXCEPT !.pc = "again", !.retried401 = TRUE]
          \/ c.attempt < Max429Retries /\ d = [c EXCEPT !.pc = "again"]
      BY DEF I!Answer, I!IgdbInv, I!MayRetry
    <2>. QED  BY <2>1, <2>2 DEF I!IgdbInv
  <1>5. d # I!Resting =>
          /\ d.pc = "again" /\ d.token = c.token /\ d.attempt = c.attempt
          /\ d.retried401 = c.retried401 \/ (~c.retried401 /\ d.retried401)
          /\ c.attempt < Max429Retries \/ (~c.retried401 /\ d.retried401)
    <2>0. {"pc", "token", "attempt", "retried401"} \subseteq DOMAIN c
      BY <1>3 DEF I!Calls
    <2>1. CASE answer = "denied" /\ ~c.retried401 /\ d = [c EXCEPT !.pc = "again", !.retried401 = TRUE]
      BY <2>0, <2>1
    <2>2. CASE c.attempt < Max429Retries /\ d = [c EXCEPT !.pc = "again"]
      BY <2>0, <2>2
    <2>. QED  BY <1>4, <2>1, <2>2
  <1>6. /\ c.token \in 1..v3 /\ c.attempt \in Nat /\ c.retried401 \in BOOLEAN
        /\ c.attempt <= Max429Retries + (IF c.retried401 THEN 1 ELSE 0)
    BY <1>1, <1>3 DEF I!IgdbInv, I!IgdbTypeOK, I!Calls
  <1>7. d # I!Resting =>
          /\ d.pc = "again" /\ d.token \in 1..v3 /\ d.attempt \in 0..(Max429Retries + 1)
          /\ d.attempt + 1 <= Max429Retries + (IF d.retried401 THEN 1 ELSE 0)
    BY <1>5, <1>6, IgdbConstants
  <1>8. I!IgdbTypeOK'
    <2>1. v1' \in 0..v3
      BY <1>2, IgdbConstants DEF I!IgdbInv, I!IgdbTypeOK
    <2>. QED  BY <1>1, <1>4, <1>7, <2>1 DEF I!IgdbInv, I!IgdbTypeOK
  <1>9. (I!Usable <=> I!Usable')
    BY <1>1, <1>2 DEF I!Usable, I!None
  <1>. QED  BY <1>1, <1>4, <1>7, <1>8, <1>9 DEF I!IgdbInv

LEMMA IgdbStep ==
  ASSUME I!IgdbInv, I!IgdbNext PROVE I!IgdbInv'
  <1>1. CASE \E r \in Requests : I!Do(r)
    <2>. PICK r \in Requests : I!Do(r)
      BY <1>1
    <2>1. I!Authenticate(r, 0, FALSE) /\ UNCHANGED v6
      BY DEF I!Do
    <2>2. 0 <= Max429Retries + (IF FALSE THEN 1 ELSE 0) /\ 0 \in Nat /\ FALSE \in BOOLEAN
      BY IgdbConstants
    <2>. QED  BY <2>1, <2>2, IgdbAuth
  <1>2. CASE \E r \in Requests : I!Again(r)
    <2>. PICK r \in Requests : I!Again(r)
      BY <1>2
    <2>. DEFINE c == v5[r]
    <2>1. c # I!Resting /\ c.pc = "again" /\ c \in I!Calls
      BY DEF I!Again, I!Resting, I!IgdbInv
    <2>2. c.attempt \in Nat /\ c.retried401 \in BOOLEAN
      BY <2>1 DEF I!Calls
    <2>3. c.attempt + 1 <= Max429Retries + (IF c.retried401 THEN 1 ELSE 0)
      BY <2>1 DEF I!IgdbInv
    <2>. HIDE DEF c
    <2>4. I!Authenticate(r, c.attempt + 1, c.retried401) /\ UNCHANGED v6
      BY DEF I!Again, c
    <2>. QED  BY <2>2, <2>3, <2>4, IgdbAuth
  <1>3. CASE \E r \in Requests : I!GiveUp(r)
    BY <1>3 DEF I!GiveUp, I!IgdbInv, I!IgdbTypeOK, I!Usable
  <1>4. CASE \E r \in Requests, answer \in I!Answers : I!Answer(r, answer)
    BY <1>4, IgdbAnswer
  <1>5. CASE \E token \in 1..MaxTokens : I!Revoke(token)
    <2>. PICK token \in 1..MaxTokens : I!Revoke(token)
      BY <1>5
    <2>1. UNCHANGED <<v1, v2, v3, v5>> /\ v4' \subseteq v4 /\ v6' = v6 + 1 /\ v6 < MaxLosses
      BY DEF I!Revoke
    <2>2. v6 \in Nat /\ v3 \in Nat /\ v6' \in 0..MaxLosses
      BY <2>1, IgdbConstants DEF I!IgdbInv, I!IgdbTypeOK
    <2>3. v3 <= v6 + 1
      BY <2>2 DEF I!IgdbInv
    <2>. QED  BY <2>1, <2>2, <2>3 DEF I!IgdbInv, I!IgdbTypeOK
  <1>6. CASE I!Lapse
    <2>1. UNCHANGED <<v1, v3, v4, v5>> /\ v2' = TRUE /\ v6' = v6 + 1 /\ v6 < MaxLosses
      BY <1>6 DEF I!Lapse
    <2>2. v6 \in Nat /\ v3 \in Nat /\ v6' \in 0..MaxLosses
      BY <2>1, IgdbConstants DEF I!IgdbInv, I!IgdbTypeOK
    <2>3. v3 <= v6 + 1
      BY <2>2 DEF I!IgdbInv
    <2>. QED  BY <2>1, <2>2, <2>3 DEF I!IgdbInv, I!IgdbTypeOK
  <1>. QED  BY <1>1, <1>2, <1>3, <1>4, <1>5, <1>6 DEF I!IgdbNext

LEMMA IgdbSafe == ASSUME I!IgdbInv PROVE I!TokensAreShared
  <1>1. v3 <= v6 + (IF I!Usable THEN 1 ELSE 0) /\ v3 \in Int /\ v6 \in Int
    BY DEF I!IgdbInv, I!IgdbTypeOK
  <1>. QED  BY <1>1 DEF I!TokensAreShared

-----------------------------------------------------------------------------
(* An instance has the standard operators under names of its own.          *)

LEMMA CatalogCardinality == \A S : C!Cardinality(S) = Cardinality(S)
  BY DEF C!Cardinality, Cardinality

LEMMA DeltaCardinality == \A S : D!Cardinality(S) = Cardinality(S)
  BY DEF D!Cardinality, Cardinality

LEMMA LimiterCardinality == \A S : L!Cardinality(S) = Cardinality(S)
  BY DEF L!Cardinality, Cardinality

-----------------------------------------------------------------------------
(* The query cache: v1 is cache, v2 asking, v3 refreshing, v4 slots, v5     *)
(* workers, v6 sweep, v7 details, v8 stopping, v9 stopped and v10 hush.    *)

LEMMA CatalogStart == ASSUME C!CatalogInit PROVE C!CatalogInv
  <1>1. C!Busy = {} /\ C!Holding = {}
    BY DEF C!CatalogInit, C!Busy, C!Holding
  <1>2. v4 \in 0..Slots
    BY CatalogConstants DEF C!CatalogInit
  <1>3. v5 \in [Workers -> {C!Resting} \cup C!Refreshes] /\ \A w \in Workers : v5[w].pc = "idle"
    BY DEF C!CatalogInit, C!Resting
  <1>4. C!CatalogTypeOK
    BY <1>2, <1>3 DEF C!CatalogInit, C!CatalogTypeOK
  <1>5. v4 = Cardinality(C!Holding)
    BY <1>1, FS_EmptySet DEF C!CatalogInit
  <1>7. v4 = C!Cardinality(C!Holding)
    BY <1>5, CatalogCardinality
  <1>6. C!FailureBacksOff /\ v3 = {} /\ ~v9
    BY DEF C!CatalogInit, C!FailureBacksOff
  <1>. QED  BY <1>1, <1>3, <1>4, <1>6, <1>7 DEF C!CatalogInv

\* Who holds a slot is a worker, and there are finitely many.
LEMMA HoldingIsFinite == IsFiniteSet(C!Holding) /\ Cardinality(C!Holding) \in Nat
  <1>1. C!Holding \in SUBSET Workers
    BY DEF C!Holding, C!Busy
  <1>2. IsFiniteSet(C!Holding)
    BY <1>1, CatalogConstants, FS_Subset
  <1>. QED  BY <1>2, FS_CardinalityType

\* A query that is not reserved finds a worker: the others have a query each.
LEMMA IdleWorker ==
  ASSUME C!CatalogInv, NEW q \in Queries, q \notin v3
  PROVE  C!Idle \in Workers \ C!Busy
  <1>1. SUFFICES ASSUME C!Busy = Workers PROVE FALSE
    BY DEF C!Idle, C!Busy
  <1>. DEFINE key == [w \in Workers |-> v5[w].key]
              others == Queries \ {q}
  <1>2. /\ \A w \in Workers : v5[w].key \in v3
        /\ \A v, w \in Workers : v5[v].key = v5[w].key => v = w
        /\ v3 \subseteq others
    BY <1>1 DEF C!CatalogInv, C!CatalogTypeOK
  <1>3. key \in Injection(Workers, others)
    BY <1>2 DEF Injection, IsInjective
  <1>4. /\ IsFiniteSet(others) /\ Cardinality(others) = Cardinality(Queries) - 1
    BY CatalogConstants, FS_RemoveElement
  <1>. HIDE DEF key, others
  <1>5. Cardinality(Workers) <= Cardinality(others)
    BY <1>3, <1>4, FS_Injection
  <1>6. Cardinality(Workers) \in Nat /\ Cardinality(Queries) \in Nat
    BY CatalogConstants, FS_CardinalityType
  <1>. QED  BY <1>4, <1>5, <1>6, CatalogConstants

\* What only changes the cache's rows, the searches, the job and the details
\* leaves the refreshes as they are.
LEMMA RefreshesStay ==
  ASSUME C!CatalogInv, C!CatalogTypeOK', UNCHANGED <<v3, v4, v5>>, C!FailureBacksOff',
         v9' => v8' /\ C!Busy = {} /\ ~v7'
  PROVE  C!CatalogInv'
  BY DEF C!CatalogInv, C!Busy, C!Holding

LEMMA CatalogSafe == ASSUME C!CatalogInv PROVE C!CatalogSettles /\ C!FailureBacksOff
  <1>. DEFINE at(q) == {w \in C!Busy : v5[w].key = q}
  <1>1. ASSUME NEW q \in Queries PROVE Cardinality(at(q)) = IF q \in v3 THEN 1 ELSE 0
    <2>1. CASE q \in v3
      <3>1. PICK w \in C!Busy : v5[w].key = q
        BY <2>1 DEF C!CatalogInv
      <3>2. at(q) = {w}
        BY <3>1 DEF C!CatalogInv
      <3>. QED  BY <2>1, <3>2, FS_Singleton
    <2>2. CASE q \notin v3
      <3>1. at(q) = {}
        BY <2>2 DEF C!CatalogInv
      <3>. QED  BY <2>2, <3>1, FS_EmptySet
    <2>. QED  BY <2>1, <2>2
  <1>2. \A q \in Queries : C!Cardinality(at(q)) = IF q \in v3 THEN 1 ELSE 0
    BY <1>1, CatalogCardinality
  <1>. QED  BY <1>2 DEF C!CatalogInv, C!CatalogSettles, C!Holding

\* A worker that goes on with its query, its slot kept.
LEMMA WorkerGoesOn ==
  ASSUME C!CatalogInv, NEW w \in Workers, v5[w] \in C!Refreshes,
         NEW new \in C!Refreshes, new.key = v5[w].key, new.pc # "key", v5[w].pc # "key",
         v5' = [v5 EXCEPT ![w] = new],
         UNCHANGED <<v2, v3, v4, v7, v8, v9>>, C!FailureBacksOff',
         v1' \in [Queries -> {"none", "fresh", "expired"}], v10' \subseteq Queries
  PROVE  C!CatalogInv'
  <1>1. v5[w] # C!Resting /\ new # C!Resting
    BY DEF C!Refreshes, C!Resting
  <1>2. C!Busy' = C!Busy /\ C!Holding' = C!Holding /\ w \in C!Busy
    BY <1>1 DEF C!CatalogInv, C!Busy, C!Holding
  <1>3. \A v \in Workers : v5'[v].key = v5[v].key
    BY DEF C!CatalogInv
  <1>4. C!CatalogTypeOK'
    BY DEF C!CatalogInv, C!CatalogTypeOK, C!Refreshes
  <1>5. v5' \in [Workers -> {C!Resting} \cup C!Refreshes]
    BY DEF C!CatalogInv
  <1>6. {v5[v].key : v \in C!Busy}' = {v5[v].key : v \in C!Busy}
    BY <1>2, <1>3 DEF C!Busy
  <1>7. \A v, x \in C!Busy' : v5'[v].key = v5'[x].key => v = x
    BY <1>2, <1>3 DEF C!CatalogInv, C!Busy
  <1>. QED  BY <1>2, <1>4, <1>5, <1>6, <1>7 DEF C!CatalogInv

\* startAsyncRefresh: one more query, worker and slot.
LEMMA WorkerStarts ==
  ASSUME C!CatalogInv, NEW s \in Searches, C!StartAsyncRefresh(s) PROVE C!CatalogInv'
  <1>. DEFINE q == v2[s]
              job == [pc |-> "fetch", key |-> q, late |-> FALSE]
  <1>1. /\ q \in Queries
        /\ v2' = [v2 EXCEPT ![s] = C!None] /\ UNCHANGED <<v1, v6, v7, v8, v9, v10>>
        /\ v2' \in [Searches -> Queries \cup {C!None}]
    BY DEF C!StartAsyncRefresh, C!CatalogInv, C!CatalogTypeOK
  <1>2. C!FailureBacksOff'
    BY <1>1 DEF C!CatalogInv, C!FailureBacksOff
  <1>3. CASE v8 \/ q \in v3 \/ v4 = Slots
    <2>1. UNCHANGED <<v3, v4, v5>>
      BY <1>3 DEF C!StartAsyncRefresh
    <2>2. C!CatalogTypeOK'
      BY <1>1, <2>1 DEF C!CatalogInv, C!CatalogTypeOK
    <2>. QED  BY <1>1, <1>2, <2>1, <2>2, RefreshesStay DEF C!CatalogInv, C!Busy
  <1>4. CASE ~(v8 \/ q \in v3 \/ v4 = Slots)
    <2>. PICK w \in Workers \ C!Busy : w = C!Idle
      BY <1>1, <1>4, IdleWorker
    <2>1. v3' = v3 \cup {q} /\ v4' = v4 + 1 /\ v5' = [v5 EXCEPT ![w] = job] /\ ~v9'
      BY <1>1, <1>4 DEF C!StartAsyncRefresh, C!CatalogInv
    <2>2. job \in C!Refreshes /\ job # C!Resting /\ v5[w] = C!Resting
      BY <1>1 DEF C!Refreshes, C!Resting, C!Busy
    <2>3. C!Busy' = C!Busy \cup {w} /\ C!Holding' = C!Holding \cup {w} /\ w \notin C!Holding
      BY <2>1, <2>2 DEF C!Busy, C!Holding, C!CatalogInv
    <2>4. v4' \in 0..Slots
      BY <1>4, <2>1, CatalogConstants DEF C!CatalogInv, C!CatalogTypeOK
    <2>5. C!CatalogTypeOK'
      BY <1>1, <2>1, <2>4 DEF C!CatalogInv, C!CatalogTypeOK
    <2>6. v5' \in [Workers -> {C!Resting} \cup C!Refreshes]
      BY <2>1, <2>2 DEF C!CatalogInv
    <2>7. v5'[w].key = q /\ \A x \in C!Busy : v5'[x].key = v5[x].key /\ v5[x].key \in v3
      BY <2>1 DEF C!CatalogInv, C!Busy
    <2>8. \A v, x \in C!Busy' : v5'[v].key = v5'[x].key => v = x
      BY <1>4, <2>3, <2>7 DEF C!CatalogInv
    <2>9. v3' = {v5[x].key : x \in C!Busy}'
      BY <2>1, <2>3, <2>7 DEF C!CatalogInv
    <2>10. v4' = C!Cardinality(C!Holding)'
      <3>1. Cardinality(C!Holding') = Cardinality(C!Holding) + 1
        BY <2>3, HoldingIsFinite, FS_AddElement
      <3>. QED  BY <2>1, <3>1, CatalogCardinality DEF C!CatalogInv
    <2>. QED  BY <1>2, <2>1, <2>5, <2>6, <2>8, <2>9, <2>10 DEF C!CatalogInv
  <1>. QED  BY <1>3, <1>4

\* The clean-up: the slot, then the key and the worker.
LEMMA WorkerEnds ==
  ASSUME C!CatalogInv, NEW w \in Workers, C!FreeSlot(w) \/ C!FreeKey(w) PROVE C!CatalogInv'
  <1>1. /\ v5[w] # C!Resting /\ v5[w] \in C!Refreshes /\ w \in C!Busy
        /\ UNCHANGED <<v1, v2, v6, v7, v8, v9, v10>> /\ ~v9'
    BY DEF C!FreeSlot, C!FreeKey, C!CatalogInv, C!Resting, C!Busy
  <1>2. C!FailureBacksOff'
    BY <1>1 DEF C!CatalogInv, C!FailureBacksOff
  <1>3. CASE C!FreeSlot(w)
    <2>. DEFINE new == [v5[w] EXCEPT !.pc = "key"]
    <2>1. new \in C!Refreshes /\ new # C!Resting /\ new.key = v5[w].key /\ new.pc = "key"
      BY <1>1 DEF C!Refreshes, C!Resting
    <2>2. v5' = [v5 EXCEPT ![w] = new] /\ v4' = v4 - 1 /\ v3' = v3 /\ v5[w].pc = "slot"
      BY <1>3 DEF C!FreeSlot
    <2>. HIDE DEF new
    <2>3. C!Busy' = C!Busy
      BY <1>1, <2>1, <2>2 DEF C!Busy, C!CatalogInv
    <2>4. w \in C!Holding /\ C!Holding' = C!Holding \ {w}
      BY <1>1, <2>1, <2>2, <2>3 DEF C!Holding, C!CatalogInv, C!Busy
    <2>5. Cardinality(C!Holding') = Cardinality(C!Holding) - 1
      BY <2>4, HoldingIsFinite, FS_RemoveElement
    <2>6. v4' = C!Cardinality(C!Holding)' /\ v4 = Cardinality(C!Holding)
      BY <2>2, <2>5, CatalogCardinality DEF C!CatalogInv
    <2>7. v4' \in 0..Slots
      <3>1. v4 # 0
        BY <2>4, <2>6, HoldingIsFinite, FS_EmptySet
      <3>. QED  BY <2>2, <3>1, CatalogConstants DEF C!CatalogInv, C!CatalogTypeOK
    <2>8. v5' \in [Workers -> {C!Resting} \cup C!Refreshes] /\ \A v \in Workers : v5'[v].key = v5[v].key
      BY <2>1, <2>2 DEF C!CatalogInv
    <2>9. \A x \in Workers : v5'[x].pc \in {"idle", "fetch", "failed", "found", "slot", "key"}
      BY <2>1, <2>2 DEF C!CatalogInv, C!CatalogTypeOK
    <2>10. C!CatalogTypeOK'
      BY <1>1, <2>2, <2>7, <2>9 DEF C!CatalogInv, C!CatalogTypeOK
    <2>11. \A v, x \in C!Busy' : v5'[v].key = v5'[x].key => v = x
      BY <2>3, <2>8 DEF C!CatalogInv, C!Busy
    <2>12. v3' = {v5[x].key : x \in C!Busy}'
      BY <2>2, <2>3, <2>8 DEF C!CatalogInv, C!Busy
    <2>. QED  BY <1>1, <1>2, <2>6, <2>8, <2>10, <2>11, <2>12 DEF C!CatalogInv
  <1>4. CASE C!FreeKey(w)
    <2>1. v5' = [v5 EXCEPT ![w] = C!Resting] /\ v4' = v4 /\ v3' = v3 \ {v5[w].key} /\ v5[w].pc = "key"
      BY <1>4 DEF C!FreeKey
    <2>2. C!Busy' = C!Busy \ {w} /\ C!Holding' = C!Holding
      BY <1>1, <2>1 DEF C!Busy, C!Holding, C!CatalogInv
    <2>3. v5' \in [Workers -> {C!Resting} \cup C!Refreshes] /\ \A x \in Workers \ {w} : v5'[x] = v5[x]
      BY <2>1 DEF C!CatalogInv
    <2>4. \A x \in Workers : v5'[x].pc \in {"idle", "fetch", "failed", "found", "slot", "key"}
      BY <2>1, <2>3 DEF C!CatalogInv, C!CatalogTypeOK, C!Resting
    <2>5. C!CatalogTypeOK'
      BY <1>1, <2>1, <2>4 DEF C!CatalogInv, C!CatalogTypeOK
    <2>6. \A v, x \in C!Busy' : v5'[v].key = v5'[x].key => v = x
      BY <2>2, <2>3 DEF C!CatalogInv, C!Busy
    <2>7. v3' = {v5[x].key : x \in C!Busy}'
      BY <1>1, <2>1, <2>2, <2>3 DEF C!CatalogInv, C!Busy
    <2>8. v4' = C!Cardinality(C!Holding)'
      BY <2>1, <2>2 DEF C!CatalogInv
    <2>. QED  BY <1>1, <1>2, <2>3, <2>5, <2>6, <2>7, <2>8 DEF C!CatalogInv
  <1>. QED  BY <1>3, <1>4

\* A row of the cache is written by a worker or the job, or ages.
LEMMA CacheRow ==
  ASSUME C!CatalogInv, NEW q \in Queries, NEW answer, NEW alive \in BOOLEAN,
         v1' = C!Cached(q, alive), v10' = C!Hushed(q, answer, alive)
  PROVE  C!FailureBacksOff' /\ v1' \in [Queries -> {"none", "fresh", "expired"}] /\ v10' \subseteq Queries
  BY DEF C!CatalogInv, C!CatalogTypeOK, C!FailureBacksOff, C!Cached, C!Hushed

LEMMA CatalogStep ==
  ASSUME C!CatalogInv, C!CatalogNext PROVE C!CatalogInv'
  <1>. DEFINE quiet == C!FailureBacksOff' /\ v1' \in [Queries -> {"none", "fresh", "expired"}] /\ v10' \subseteq Queries
  <1>1. CASE \E s \in Searches : C!StartAsyncRefresh(s)
    BY <1>1, WorkerStarts
  <1>2. CASE \E s \in Searches, q \in Queries : C!Search(s, q)
    <2>1. C!CatalogTypeOK' /\ C!FailureBacksOff' /\ UNCHANGED <<v3, v4, v5, v7, v8, v9>>
      BY <1>2 DEF C!Search, C!CatalogInv, C!CatalogTypeOK, C!FailureBacksOff
    <2>. QED  BY <2>1, RefreshesStay DEF C!CatalogInv
  <1>3. CASE \E w \in Workers : C!Deadline(w) \/ C!StoreResult(w)
             \/ \E answer \in {"found", "failed"} : C!Fetched(w, answer)
    <2>. PICK w \in Workers : C!Deadline(w) \/ C!StoreResult(w)
                              \/ \E answer \in {"found", "failed"} : C!Fetched(w, answer)
      BY <1>3
    <2>1. /\ v5[w].pc \in {"fetch", "failed", "found"} /\ v5[w] \in C!Refreshes
          /\ UNCHANGED <<v2, v3, v4, v7, v8, v9>>
      BY DEF C!Deadline, C!StoreResult, C!Fetched, C!CatalogInv, C!Resting
    <2>2. \E new \in C!Refreshes : v5' = [v5 EXCEPT ![w] = new] /\ new.key = v5[w].key /\ new.pc # "key"
      <3>1. CASE C!Deadline(w)
        <4>1. [v5[w] EXCEPT !.late = TRUE] \in C!Refreshes
          BY <2>1 DEF C!Refreshes
        <4>2. /\ v5' = [v5 EXCEPT ![w] = [v5[w] EXCEPT !.late = TRUE]]
              /\ [v5[w] EXCEPT !.late = TRUE].key = v5[w].key /\ [v5[w] EXCEPT !.late = TRUE].pc # "key"
          BY <2>1, <3>1 DEF C!Deadline, C!Refreshes
        <4>. QED  BY <4>1, <4>2
      <3>2. ASSUME NEW pc \in {"found", "failed", "slot"}, v5' = [v5 EXCEPT ![w].pc = pc]
            PROVE  \E new \in C!Refreshes : v5' = [v5 EXCEPT ![w] = new] /\ new.key = v5[w].key /\ new.pc # "key"
        <4>1. [v5[w] EXCEPT !.pc = pc] \in C!Refreshes
          BY <2>1 DEF C!Refreshes
        <4>2. /\ v5' = [v5 EXCEPT ![w] = [v5[w] EXCEPT !.pc = pc]]
              /\ [v5[w] EXCEPT !.pc = pc].key = v5[w].key /\ [v5[w] EXCEPT !.pc = pc].pc # "key"
          BY <2>1, <3>2 DEF C!Refreshes
        <4>. QED  BY <4>1, <4>2
      <3>. QED  BY <3>1, <3>2 DEF C!StoreResult, C!Fetched
    <2>3. quiet
      <3>1. CASE C!StoreResult(w)
        <4>1. PICK q \in Queries, alive \in BOOLEAN : q = v5[w].key /\ alive = (~v5[w].late /\ ~v8)
          BY <2>1 DEF C!Refreshes
        <4>2. v1' = C!Cached(q, alive) /\ v10' = C!Hushed(q, v5[w].pc, alive)
          BY <3>1, <4>1 DEF C!StoreResult
        <4>. QED  BY <4>2, CacheRow
      <3>2. CASE UNCHANGED <<v1, v10>>
        BY <3>2 DEF C!CatalogInv, C!CatalogTypeOK, C!FailureBacksOff
      <3>. QED  BY <3>1, <3>2 DEF C!Deadline, C!Fetched
    <2>. QED  BY <2>1, <2>2, <2>3, WorkerGoesOn
  <1>4. CASE \E w \in Workers : C!FreeSlot(w) \/ C!FreeKey(w)
    BY <1>4, WorkerEnds
  <1>5. CASE \E q \in Queries, answer \in {"found", "failed"} : C!Sweep(q, answer)
    <2>. PICK q \in Queries, answer \in {"found", "failed"} : C!Sweep(q, answer)
      BY <1>5
    <2>1. UNCHANGED <<v2, v3, v4, v5, v7, v8, v9>> /\ v1' = C!Cached(q, ~v8) /\ v10' = C!Hushed(q, answer, ~v8)
      BY DEF C!Sweep
    <2>2. quiet
      BY <2>1, CacheRow
    <2>3. C!CatalogTypeOK'
      BY <2>1, <2>2 DEF C!CatalogInv, C!CatalogTypeOK
    <2>. QED  BY <2>1, <2>2, <2>3, RefreshesStay DEF C!CatalogInv
  <1>6. CASE C!StartSweep \/ C!StartDetails \/ C!DetailsDone
    <2>1. C!CatalogTypeOK' /\ C!FailureBacksOff' /\ UNCHANGED <<v3, v4, v5, v8, v9>> /\ (v7' => v7 \/ ~v8)
      BY <1>6 DEF C!StartSweep, C!StartDetails, C!DetailsDone, C!CatalogInv, C!CatalogTypeOK, C!FailureBacksOff
    <2>. QED  BY <2>1, RefreshesStay DEF C!CatalogInv
  <1>7. CASE C!Shutdown \/ C!WorkersDone
    <2>1. UNCHANGED <<v1, v2, v3, v4, v5, v7, v10>> /\ v8' = TRUE /\ v9' \in {v9, TRUE}
      BY <1>7 DEF C!Shutdown, C!WorkersDone
    <2>2. v9' => C!Busy = {} /\ ~v7
      BY <1>7 DEF C!Shutdown, C!WorkersDone, C!CatalogInv
    <2>3. v9' \in BOOLEAN /\ v8' \in BOOLEAN /\ v7' \in BOOLEAN
      BY <2>1 DEF C!CatalogInv, C!CatalogTypeOK
    <2>4. C!CatalogTypeOK' /\ C!FailureBacksOff'
      BY <2>1, <2>3 DEF C!CatalogInv, C!CatalogTypeOK, C!FailureBacksOff
    <2>. QED  BY <2>1, <2>2, <2>4, RefreshesStay
  <1>8. CASE \E q \in Queries : C!Expire(q) \/ C!Purge(q)
    <2>1. C!CatalogTypeOK' /\ C!FailureBacksOff' /\ UNCHANGED <<v3, v4, v5, v7, v8, v9>>
      BY <1>8 DEF C!Expire, C!Purge, C!CatalogInv, C!CatalogTypeOK, C!FailureBacksOff
    <2>. QED  BY <2>1, RefreshesStay DEF C!CatalogInv
  <1>. QED  BY <1>1, <1>2, <1>3, <1>4, <1>5, <1>6, <1>7, <1>8 DEF C!CatalogNext

-----------------------------------------------------------------------------
(* The limiter: v1 is queues, v2 open, v3 waiting, v4 timer, v5 woken, v6   *)
(* cancelled and v7 alike.                                                 *)

LEMMA Joined ==
  ASSUME NEW S, NEW a \in Seq(S), NEW b \in Seq(S)
  PROVE  /\ a \o b \in Seq(S) /\ Len(a \o b) = Len(a) + Len(b)
         /\ \A j \in 1..(Len(a) + Len(b)) : (a \o b)[j] = IF j <= Len(a) THEN a[j] ELSE b[j - Len(a)]
  OBVIOUS

Without(q, i) == SubSeq(q, 1, i - 1) \o SubSeq(q, i + 1, Len(q))

LEMMA DropOne ==
  ASSUME NEW S, NEW q \in Seq(S), NEW i \in 1..Len(q)
  PROVE  /\ Without(q, i) \in Seq(S) /\ Len(Without(q, i)) = Len(q) - 1
         /\ \A j \in 1..(Len(q) - 1) : Without(q, i)[j] = IF j < i THEN q[j] ELSE q[j + 1]
  <1>. DEFINE a == SubSeq(q, 1, i - 1)
              b == SubSeq(q, i + 1, Len(q))
  <1>1. a \in Seq(S) /\ Len(a) = i - 1 /\ \A j \in 1..(i - 1) : a[j] = q[j]
    OBVIOUS
  <1>2. b \in Seq(S) /\ Len(b) = Len(q) - i /\ \A j \in 1..(Len(q) - i) : b[j] = q[i + j]
    OBVIOUS
  <1>3. Without(q, i) = a \o b
    BY DEF Without
  <1>. HIDE DEF a, b
  <1>4. /\ a \o b \in Seq(S) /\ Len(a \o b) = Len(q) - 1
        /\ \A j \in 1..(Len(q) - 1) : (a \o b)[j] = IF j < i THEN a[j] ELSE b[j - (i - 1)]
    <2>1. /\ a \o b \in Seq(S) /\ Len(a \o b) = Len(a) + Len(b)
          /\ \A j \in 1..(Len(a) + Len(b)) : (a \o b)[j] = IF j <= Len(a) THEN a[j] ELSE b[j - Len(a)]
      BY <1>1, <1>2, Joined
    <2>3. Len(a) + Len(b) = Len(q) - 1 /\ \A j \in Int : j < i <=> j <= Len(a)
      BY <1>1, <1>2
    <2>4. Len(a) = i - 1 /\ i \in Int
      BY <1>1
    <2>. QED  BY <2>1, <2>3, <2>4
  <1>5. \A j \in 1..(Len(q) - 1) : j >= i => b[j - (i - 1)] = q[j + 1]
    <2>. TAKE j \in 1..(Len(q) - 1)
    <2>1. j >= i => j - (i - 1) \in 1..(Len(q) - i) /\ i + (j - (i - 1)) = j + 1
      OBVIOUS
    <2>. QED  BY <1>2, <2>1
  <1>. QED  BY <1>1, <1>3, <1>4, <1>5

\* The first entry of a queue is one that is removed without a gap.
LEMMA DropFirst ==
  ASSUME NEW S, NEW q \in Seq(S), q # <<>>
  PROVE  /\ Tail(q) \in Seq(S) /\ Len(Tail(q)) = Len(q) - 1
         /\ \A j \in 1..(Len(q) - 1) : Tail(q)[j] = q[j + 1]
         /\ 1 \in 1..Len(q) /\ Head(q) = q[1]
  OBVIOUS

\* What is left when one entry is taken out of a queue of which each stands once.
LEMMA StandWithout ==
  ASSUME NEW A, NEW q \in Seq(Callers), NEW p \in Seq(Callers), NEW i \in 1..Len(q), L!Stand(A, q),
         Len(p) = Len(q) - 1,
         \A j \in 1..(Len(q) - 1) : p[j] = IF j < i THEN q[j] ELSE q[j + 1]
  PROVE  L!Stand(A \ {q[i]}, p)
  <1>. DEFINE at(j) == IF j < i THEN j ELSE j + 1
  <1>1. \A j \in 1..Len(p) : at(j) \in 1..Len(q) /\ at(j) # i /\ p[j] = q[at(j)]
    OBVIOUS
  <1>2. \A j, k \in 1..Len(p) : at(j) = at(k) => j = k
    OBVIOUS
  <1>3. ASSUME NEW k \in 1..Len(q), k # i PROVE \E j \in 1..Len(p) : p[j] = q[k]
    <2>1. CASE k < i
      <3>1. k \in 1..Len(p) /\ at(k) = k
        BY <2>1
      <3>. QED  BY <1>1, <3>1
    <2>2. CASE k > i
      <3>1. k - 1 \in 1..Len(p) /\ at(k - 1) = k
        BY <2>2
      <3>. QED  BY <1>1, <3>1
    <2>. QED  BY <1>3, <2>1, <2>2
  <1>. HIDE DEF at
  <1>4. \A j, k \in 1..Len(p) : p[j] = p[k] => j = k
    BY <1>1, <1>2 DEF L!Stand
  <1>5. \A j \in 1..Len(p) : p[j] \in A \ {q[i]}
    BY <1>1 DEF L!Stand
  <1>6. ASSUME NEW w \in A \ {q[i]} PROVE \E j \in 1..Len(p) : p[j] = w
    <2>1. PICK k \in 1..Len(q) : q[k] = w
      BY DEF L!Stand
    <2>2. k # i
      BY <2>1
    <2>. QED  BY <1>3, <2>1, <2>2
  <1>7. A \ {q[i]} = {p[j] : j \in 1..Len(p)}
    <2>1. \A w \in A \ {q[i]} : w \in {p[j] : j \in 1..Len(p)}
      BY <1>6
    <2>2. \A w \in {p[j] : j \in 1..Len(p)} : w \in A \ {q[i]}
      BY <1>5
    <2>. QED  BY <2>1, <2>2
  <1>. QED  BY <1>4, <1>7 DEF L!Stand

\* One more joins at the end.
LEMMA StandBehind ==
  ASSUME NEW A, NEW q \in Seq(Callers), NEW w \in Callers, w \notin A, L!Stand(A, q)
  PROVE  L!Stand(A \cup {w}, Append(q, w))
  <1>. DEFINE p == Append(q, w)
  <1>1. /\ Len(p) = Len(q) + 1 /\ p[Len(q) + 1] = w /\ Len(q) \in Nat
        /\ \A j \in 1..Len(q) : p[j] = q[j]
    OBVIOUS
  <1>. HIDE DEF p
  <1>2. \A j \in 1..Len(p) : j \in 1..Len(q) \/ j = Len(q) + 1
    BY <1>1
  <1>3. \A j \in 1..Len(q) : j \in 1..Len(p)
    BY <1>1
  <1>4. Len(q) + 1 \in 1..Len(p)
    BY <1>1
  <1>5. A \cup {w} = {p[j] : j \in 1..Len(p)}
    BY <1>1, <1>2, <1>3, <1>4 DEF L!Stand
  <1>6. \A j, k \in 1..Len(p) : p[j] = p[k] => j = k
    BY <1>1, <1>2 DEF L!Stand
  <1>. QED  BY <1>5, <1>6 DEF L!Stand, p

Laned(A, l) == {w \in A : L!LaneOf(w) = l}

\* The lanes q are those of the callers A.
Lined(q, A) ==
  \A l \in L!Lanes : Len(q[l]) = Cardinality(Laned(A, l)) /\ (v7 \/ L!Stand(Laned(A, l), q[l]))

LEMMA LaneIsFinite ==
  ASSUME NEW A \in SUBSET Callers, NEW l
  PROVE  /\ IsFiniteSet(Laned(A, l)) /\ Cardinality(Laned(A, l)) \in Nat
         /\ Cardinality(Laned(A, l)) <= Cardinality(Callers) /\ Cardinality(Callers) \in Nat
  <1>1. Laned(A, l) \in SUBSET Callers
    BY DEF Laned
  <1>. QED  BY <1>1, LimiterConstants, FS_Subset, FS_CardinalityType

LEMMA LimiterLines == (\A l \in L!Lanes : Len(v1[l]) = L!Cardinality(L!At(l)) /\ (v7 \/ L!Stand(L!At(l), v1[l]))) <=> Lined(v1, v3)
  BY LimiterCardinality DEF Lined, Laned, L!At

LEMMA LimiterStart == ASSUME L!LimiterInit PROVE L!LimiterInv
  <1>1. \A l \in L!Lanes : L!At(l) = {} /\ v1[l] = <<>>
    BY DEF L!LimiterInit, L!At
  <1>2. Cardinality({}) = 0 /\ Len(<<>>) = 0
    BY FS_EmptySet
  <1>3. L!Stand({}, <<>>)
    BY DEF L!Stand
  <1>4. v1 \in [L!Lanes -> Seq(Callers)]
    BY DEF L!LimiterInit
  <1>5. \A l \in L!Lanes : Len(v1[l]) = L!Cardinality(L!At(l)) /\ (v7 \/ L!Stand(L!At(l), v1[l]))
    BY <1>1, <1>2, <1>3, LimiterCardinality
  <1>. QED  BY <1>4, <1>5 DEF L!LimiterInit, L!LimiterInv

\* The same of the next state.
LEMMA LimiterLinesAfter ==
  ASSUME UNCHANGED v7, Lined(v1', v3')
  PROVE  \A l \in L!Lanes : Len(v1'[l]) = L!Cardinality(L!At(l))' /\ (v7' \/ L!Stand(L!At(l), v1[l])')
  <1>1. \A l \in L!Lanes : L!At(l)' = Laned(v3', l)
    BY DEF L!At, Laned
  <1>2. \A l \in L!Lanes : L!Cardinality(L!At(l))' = Cardinality(L!At(l)')
    BY LimiterCardinality
  <1>3. \A l \in L!Lanes : L!Stand(L!At(l), v1[l])' <=> L!Stand(L!At(l)', v1'[l])
    BY DEF L!Stand
  <1>. QED  BY <1>1, <1>2, <1>3 DEF Lined

\* The lane and the others of it, when w is taken out of its place i.
LEMMA OutOfLine ==
  ASSUME NEW A \in SUBSET Callers, NEW w \in A, NEW q \in [L!Lanes -> Seq(Callers)], Lined(q, A),
         NEW lane, lane = L!LaneOf(w),
         NEW i \in 1..Len(q[lane]), v7 \/ q[lane][i] = w,
         NEW p \in Seq(Callers), Len(p) = Len(q[lane]) - 1,
         \A j \in 1..(Len(q[lane]) - 1) : p[j] = IF j < i THEN q[lane][j] ELSE q[lane][j + 1],
         NEW r, r = [q EXCEPT ![lane] = p]
  PROVE  r \in [L!Lanes -> Seq(Callers)] /\ Lined(r, A \ {w})
  <1>1. lane \in L!Lanes /\ w \in Laned(A, lane)
    BY DEF L!LaneOf, L!Lanes, Laned
  <1>2. r \in [L!Lanes -> Seq(Callers)] /\ r[lane] = p /\ \A l \in L!Lanes \ {lane} : r[l] = q[l]
    BY <1>1
  <1>3. Laned(A \ {w}, lane) = Laned(A, lane) \ {w} /\ \A l \in L!Lanes \ {lane} : Laned(A \ {w}, l) = Laned(A, l)
    BY DEF Laned
  <1>4. Cardinality(Laned(A, lane) \ {w}) = Cardinality(Laned(A, lane)) - 1
    <2>1. IsFiniteSet(Laned(A, lane))
      BY LaneIsFinite
    <2>. QED  BY <1>1, <2>1, FS_RemoveElement
  <1>5. v7 \/ L!Stand(Laned(A, lane) \ {w}, p)
    <2>. SUFFICES ASSUME ~v7 PROVE L!Stand(Laned(A, lane) \ {w}, p)
      OBVIOUS
    <2>1. q[lane] \in Seq(Callers) /\ L!Stand(Laned(A, lane), q[lane]) /\ q[lane][i] = w
      BY <1>1 DEF Lined
    <2>. QED  BY <2>1, StandWithout
  <1>6. ASSUME NEW l \in L!Lanes
        PROVE  Len(r[l]) = Cardinality(Laned(A \ {w}, l)) /\ (v7 \/ L!Stand(Laned(A \ {w}, l), r[l]))
    <2>1. CASE l = lane
      BY <1>1, <1>2, <1>3, <1>4, <1>5, <2>1 DEF Lined
    <2>2. CASE l # lane
      BY <1>2, <1>3, <2>2 DEF Lined
    <2>. QED  BY <2>1, <2>2
  <1>. QED  BY <1>2, <1>6 DEF Lined

\* A look round, by a caller that has joined the line already.
LEMMA LimiterLook ==
  ASSUME L!LimiterInv, NEW w \in Callers, NEW q \in [L!Lanes -> Seq(Callers)], NEW A, A = v3 \cup {w},
         Lined(q, A), \A v \in v3 \ {w} : L!Turn(v, q) => v \in v4 \cup v5 \cup v6,
         L!Look(w, q), v7' = v7
  PROVE  L!LimiterInv'
  <1>. DEFINE lane == L!LaneOf(w)
  <1>1. /\ v3 \subseteq Callers /\ v4 \subseteq v3 /\ v5 \subseteq v3 /\ v6 \subseteq v3
        /\ v2 \in BOOLEAN /\ v7' \in BOOLEAN
    BY DEF L!LimiterInv
  <1>2. lane \in L!Lanes /\ A \in SUBSET Callers /\ w \in A
    BY <1>1 DEF L!LaneOf, L!Lanes
  <1>3. CASE L!TakeSlot(w, q) /\ L!Turn(w, q)
    <2>1. /\ v3' = A \ {w} /\ v2' = FALSE /\ v5' = v3 \ {w} /\ v4' = v4 \ {w} /\ v6' = v6 \ {w}
          /\ v1' = [q EXCEPT ![lane] = Tail(q[lane])]
      BY <1>2, <1>3 DEF L!TakeSlot, L!Out, L!Broadcast
    <2>2. q[lane] # <<>> /\ (v7 \/ Head(q[lane]) = w) /\ q[lane] \in Seq(Callers)
      BY <1>2, <1>3 DEF L!Turn, L!Same
    <2>. DEFINE p == Tail(q[lane])
    <2>3. /\ p \in Seq(Callers) /\ Len(p) = Len(q[lane]) - 1
          /\ \A j \in 1..(Len(q[lane]) - 1) : p[j] = q[lane][j + 1]
          /\ 1 \in 1..Len(q[lane]) /\ Head(q[lane]) = q[lane][1]
      BY <2>2, DropFirst
    <2>. HIDE DEF p
    <2>4. \A j \in 1..(Len(q[lane]) - 1) : p[j] = IF j < 1 THEN q[lane][j] ELSE q[lane][j + 1]
      BY <2>3
    <2>5. v1' = [q EXCEPT ![lane] = p] /\ (v7 \/ q[lane][1] = w)
      BY <2>1, <2>2, <2>3 DEF p
    <2>6. v1' \in [L!Lanes -> Seq(Callers)] /\ Lined(v1', v3')
      <3>. HIDE DEF lane
      <3>1. PICK r : r = [q EXCEPT ![lane] = p]
        OBVIOUS
      <3>2. r \in [L!Lanes -> Seq(Callers)] /\ Lined(r, A \ {w})
        BY <1>2, <2>3, <2>4, <2>5, <3>1, OutOfLine DEF lane
      <3>. QED  BY <2>1, <2>5, <3>1, <3>2
    <2>7. /\ v3' \subseteq Callers /\ v4' \subseteq v3' /\ v5' \subseteq v3' /\ v6' \subseteq v3'
          /\ v2' \in BOOLEAN /\ \A v \in v3' : v \in v5'
      BY <1>1, <1>2, <2>1
    <2>8. \A l \in L!Lanes : Len(v1'[l]) = L!Cardinality(L!At(l))' /\ (v7' \/ L!Stand(L!At(l), v1[l])')
      BY <2>6, LimiterLinesAfter
    <2>. QED  BY <1>1, <2>6, <2>7, <2>8 DEF L!LimiterInv
  <1>4. CASE L!Sleep(w, q)
    <2>1. /\ v1' = q /\ v3' = A /\ v5' = v5 \ {w} /\ v2' = v2 /\ v6' = v6
          /\ v4' = IF L!Turn(w, q) THEN v4 \cup {w} ELSE v4 \ {w}
      BY <1>4 DEF L!Sleep
    <2>2. \A l \in L!Lanes : Len(v1'[l]) = L!Cardinality(L!At(l))' /\ (v7' \/ L!Stand(L!At(l), v1[l])')
      BY <2>1, LimiterLinesAfter
    <2>3. /\ v3' \subseteq Callers /\ v4' \subseteq v3' /\ v5' \subseteq v3' /\ v6' \subseteq v3' /\ v2' \in BOOLEAN
          /\ v1' \in [L!Lanes -> Seq(Callers)]
      BY <1>1, <1>2, <2>1
    <2>4. \A v \in v3' : L!Turn(v, v1)' <=> L!Turn(v, q)
      BY <2>1 DEF L!Turn, L!Same
    <2>5. \A v \in v3' : L!Turn(v, q) => v \in v4' \cup v5' \cup v6'
      BY <2>1
    <2>. QED  BY <1>1, <2>2, <2>3, <2>4, <2>5 DEF L!LimiterInv
  <1>. QED  BY <1>3, <1>4 DEF L!Look

LEMMA LimiterStep ==
  ASSUME L!LimiterInv, L!LimiterNext PROVE L!LimiterInv'
  <1>1. /\ v3 \in SUBSET Callers /\ v4 \subseteq v3 /\ v5 \subseteq v3 /\ v6 \subseteq v3
        /\ v2 \in BOOLEAN /\ v7 \in BOOLEAN /\ v1 \in [L!Lanes -> Seq(Callers)]
        /\ \A v \in v3 : L!Turn(v, v1) => v \in v4 \cup v5 \cup v6
    BY DEF L!LimiterInv
  <1>2. Lined(v1, v3)
    BY LimiterLines DEF L!LimiterInv
  <1>3. ASSUME NEW w \in Callers, L!WaitContext(w) PROVE L!LimiterInv'
    <2>. DEFINE lane == L!LaneOf(w)
                more == Append(v1[lane], w)
    <2>. PICK q : q = [v1 EXCEPT ![lane] = more]
      OBVIOUS
    <2>. PICK A : A = v3 \cup {w}
      OBVIOUS
    <2>1. L!Look(w, q) /\ v7' = v7 /\ w \notin v3 /\ lane \in L!Lanes
      BY <1>3 DEF L!WaitContext, L!LaneOf, L!Lanes
    <2>2. /\ more \in Seq(Callers) /\ Len(more) = Len(v1[lane]) + 1
          /\ v1[lane] # <<>> => Head(more) = Head(v1[lane])
      BY <1>1, <2>1
    <2>3. q \in [L!Lanes -> Seq(Callers)] /\ q[lane] = more /\ \A l \in L!Lanes \ {lane} : q[l] = v1[l]
      BY <1>1, <2>1, <2>2
    <2>4. Laned(A, lane) = Laned(v3, lane) \cup {w} /\ w \notin Laned(v3, lane)
      BY <2>1 DEF Laned
    <2>5. \A l \in L!Lanes \ {lane} : Laned(A, l) = Laned(v3, l)
      BY DEF Laned
    <2>6. Cardinality(Laned(v3, lane) \cup {w}) = Cardinality(Laned(v3, lane)) + 1
      <3>1. IsFiniteSet(Laned(v3, lane))
        BY <1>1, LaneIsFinite
      <3>. QED  BY <2>4, <3>1, FS_AddElement
    <2>7. v7 \/ L!Stand(Laned(A, lane), more)
      <3>1. v1[lane] \in Seq(Callers) /\ (v7 \/ L!Stand(Laned(v3, lane), v1[lane]))
        BY <1>1, <1>2, <2>1 DEF Lined
      <3>. HIDE DEF lane
      <3>2. v7 \/ L!Stand(Laned(v3, lane) \cup {w}, Append(v1[lane], w))
        BY <2>4, <3>1, StandBehind
      <3>. QED  BY <2>4, <3>2
    <2>8. Lined(q, A)
      <3>. SUFFICES ASSUME NEW l \in L!Lanes
                    PROVE  Len(q[l]) = Cardinality(Laned(A, l)) /\ (v7 \/ L!Stand(Laned(A, l), q[l]))
        BY DEF Lined
      <3>1. CASE l = lane
        BY <1>2, <2>1, <2>2, <2>3, <2>4, <2>6, <2>7, <3>1 DEF Lined
      <3>2. CASE l # lane
        BY <1>2, <2>3, <2>5, <3>2 DEF Lined
      <3>. QED  BY <3>1, <3>2
    <2>9. \A v \in v3 \ {w} : L!Turn(v, q) => v \in v4 \cup v5 \cup v6
      <3>. SUFFICES ASSUME NEW v \in v3 \ {w}, L!Turn(v, q) PROVE L!Turn(v, v1)
        BY <1>1
      <3>1. L!LaneOf(v) \in L!Lanes /\ v \in Callers
        BY <1>1 DEF L!LaneOf, L!Lanes
      <3>2. Cardinality(Laned(v3, L!LaneOf(v))) # 0
        <4>1. IsFiniteSet(Laned(v3, L!LaneOf(v))) /\ v \in Laned(v3, L!LaneOf(v))
          BY <1>1, LaneIsFinite DEF Laned
        <4>. QED  BY <4>1, FS_EmptySet
      <3>3. v1[L!LaneOf(v)] # <<>>
        BY <1>2, <3>1, <3>2 DEF Lined
      <3>4. L!Same(Head(v1[L!LaneOf(v)]), v)
        <4>1. Head(v1[L!LaneOf(v)]) = Head(q[L!LaneOf(v)])
          BY <2>2, <2>3, <3>1, <3>3
        <4>. QED  BY <4>1 DEF L!Turn
      <3>5. L!LaneOf(v) = "background" => v1["interactive"] = <<>>
        <4>. SUFFICES ASSUME q["interactive"] = <<>> PROVE v1["interactive"] = <<>>
          BY DEF L!Turn
        <4>1. more # <<>>
          BY <1>1, <2>1
        <4>. QED  BY <2>3, <4>1 DEF L!Lanes
      <3>. QED  BY <3>3, <3>4, <3>5 DEF L!Turn
    <2>. QED  BY <2>1, <2>3, <2>8, <2>9, LimiterLook
  <1>4. ASSUME NEW w \in Callers, L!Wake(w) PROVE L!LimiterInv'
    <2>1. L!Look(w, v1) /\ v7' = v7 /\ v3 = v3 \cup {w}
      BY <1>4 DEF L!Wake, L!Awake
    <2>. QED  BY <1>1, <1>2, <2>1, LimiterLook
  <1>5. ASSUME NEW w \in Callers, L!Leave(w) PROVE L!LimiterInv'
    <2>. DEFINE lane == L!LaneOf(w)
                q == v1[lane]
                Its(i) == L!Same(q[i], w) /\ \A j \in 1..(i - 1) : ~L!Same(q[j], w)
    <2>1. lane \in L!Lanes /\ q \in Seq(Callers) /\ w \in v3 /\ w \in Laned(v3, lane)
      BY <1>1, <1>5 DEF Laned, L!Leave, L!LaneOf, L!Lanes
    <2>2. Len(q) # 0 /\ Len(q) \in Nat
      <3>1. IsFiniteSet(Laned(v3, lane)) /\ Cardinality(Laned(v3, lane)) \in Nat
        BY <1>1, LaneIsFinite
      <3>2. Cardinality(Laned(v3, lane)) # 0
        BY <2>1, <3>1, FS_EmptySet
      <3>. QED  BY <1>2, <2>1, <3>1, <3>2 DEF Lined
    <2>3. DOMAIN q = 1..Len(q)
      BY <2>1
    <2>4. \E i \in DOMAIN q : Its(i)
      <3>1. CASE v7
        <4>1. Its(1)
          BY <3>1 DEF L!Same
        <4>2. 1 \in DOMAIN q
          BY <2>2, <2>3
        <4>. QED  BY <4>1, <4>2
      <3>2. CASE ~v7
        <4>1. L!Stand(Laned(v3, lane), q)
          BY <1>2, <2>1, <3>2 DEF Lined
        <4>2. PICK i \in 1..Len(q) : q[i] = w
          BY <2>1, <4>1 DEF L!Stand
        <4>3. \A j \in 1..(i - 1) : j \in 1..Len(q) /\ j # i
          OBVIOUS
        <4>4. \A j \in 1..(i - 1) : q[j] # w
          BY <4>1, <4>2, <4>3 DEF L!Stand
        <4>. QED  BY <2>3, <3>2, <4>2, <4>4 DEF L!Same
      <3>. QED  BY <3>1, <3>2
    <2>5. PICK i : i = CHOOSE k \in DOMAIN q : Its(k)
      OBVIOUS
    <2>6. i \in 1..Len(q) /\ (v7 \/ q[i] = w) /\ L!Removed(w, q) = Without(q, i)
      BY <2>3, <2>4, <2>5 DEF L!Same, L!Removed, Without
    <2>7. /\ v1' = [v1 EXCEPT ![lane] = Without(q, i)] /\ v3' = v3 \ {w} /\ v7' = v7 /\ v2' = v2
          /\ v5' = v3 \ {w} /\ v4' = v4 \ {w} /\ v6' = v6 \ {w}
      BY <1>1, <1>5, <2>1, <2>6 DEF L!Leave, L!Out, L!Broadcast
    <2>8. PICK p : p = Without(q, i)
      OBVIOUS
    <2>9. /\ p \in Seq(Callers) /\ Len(p) = Len(q) - 1 /\ v1' = [v1 EXCEPT ![lane] = p]
          /\ \A j \in 1..(Len(q) - 1) : p[j] = IF j < i THEN q[j] ELSE q[j + 1]
      BY <2>1, <2>6, <2>7, <2>8, DropOne
    <2>10. v1' \in [L!Lanes -> Seq(Callers)] /\ Lined(v1', v3')
      <3>. HIDE DEF lane, Its
      <3>1. PICK r : r = [v1 EXCEPT ![lane] = p]
        OBVIOUS
      <3>2. r \in [L!Lanes -> Seq(Callers)] /\ Lined(r, v3 \ {w})
        <4>1. lane = L!LaneOf(w) /\ w \in v3
          BY <2>1 DEF lane
        <4>. QED  BY <1>1, <1>2, <2>6, <2>9, <3>1, <4>1, OutOfLine
      <3>. QED  BY <2>7, <2>9, <3>1, <3>2
    <2>12. \A l \in L!Lanes : Len(v1'[l]) = L!Cardinality(L!At(l))' /\ (v7' \/ L!Stand(L!At(l), v1[l])')
      BY <2>7, <2>10, LimiterLinesAfter
    <2>11. /\ v3' \subseteq Callers /\ v4' \subseteq v3' /\ v5' \subseteq v3' /\ v6' \subseteq v3'
           /\ v2' \in BOOLEAN /\ v7' \in BOOLEAN /\ \A v \in v3' : v \in v5'
      BY <1>1, <2>7
    <2>. QED  BY <2>10, <2>11, <2>12 DEF L!LimiterInv
  <1>6. ASSUME NEW w \in Callers, L!Cancel(w) PROVE L!LimiterInv'
    BY <1>6 DEF L!Cancel, L!LimiterInv, L!At, L!Turn, L!Same, L!Stand
  <1>7. CASE L!IntervalPasses
    BY <1>7 DEF L!IntervalPasses, L!LimiterInv, L!At, L!Turn, L!Same, L!Stand
  <1>. QED  BY <1>3, <1>4, <1>5, <1>6, <1>7 DEF L!LimiterNext

\* As long as one waits it is somebody's turn: the head of the first lane that
\* has one.
LEMMA LimiterSafe == ASSUME L!LimiterInv PROVE L!NoLostWakeup /\ L!LimiterTypeOK
  <1>1. /\ v3 \in SUBSET Callers /\ v1 \in [L!Lanes -> Seq(Callers)]
        /\ \A v \in v3 : L!Turn(v, v1) => v \in v4 \cup v5 \cup v6
        /\ \A l \in L!Lanes : Len(v1[l]) = L!Cardinality(L!At(l)) /\ (v7 \/ L!Stand(L!At(l), v1[l]))
    BY DEF L!LimiterInv
  <1>2. \A l \in L!Lanes : Len(v1[l]) = Cardinality(L!At(l)) /\ L!At(l) = Laned(v3, l)
    BY <1>1, LimiterCardinality DEF L!At, Laned
  <1>3. \A w \in v3 : L!LaneOf(w) \in L!Lanes /\ w \in L!At(L!LaneOf(w))
    BY DEF L!LaneOf, L!Lanes, L!At
  <1>4. ASSUME NEW l \in L!Lanes PROVE v1[l] = <<>> <=> L!At(l) = {}
    <2>1. IsFiniteSet(L!At(l))
      BY <1>1, <1>2, LaneIsFinite
    <2>2. Len(v1[l]) = 0 <=> L!At(l) = {}
      BY <1>2, <2>1, FS_EmptySet
    <2>. QED  BY <1>1, <2>2
  <1>5. ASSUME NEW l \in L!Lanes, L!At(l) # {}, l = "background" => v1["interactive"] = <<>>
        PROVE  \E w \in v3 : L!Turn(w, v1)
    <2>1. PICK u \in L!At(l) : TRUE
      BY <1>5
    <2>2. v1[l] # <<>> /\ v1[l] \in Seq(Callers) /\ 1 \in 1..Len(v1[l]) /\ Head(v1[l]) = v1[l][1]
      BY <1>1, <1>4, <1>5
    <2>3. CASE v7
      <3>1. L!Turn(u, v1) /\ u \in v3
        BY <1>5, <2>1, <2>2, <2>3 DEF L!Turn, L!Same, L!At
      <3>. QED  BY <3>1
    <2>4. CASE ~v7
      <3>1. v1[l][1] \in L!At(l)
        BY <1>1, <2>2, <2>4 DEF L!Stand
      <3>2. L!Turn(v1[l][1], v1) /\ v1[l][1] \in v3
        BY <1>5, <2>2, <3>1 DEF L!Turn, L!Same, L!At
      <3>. QED  BY <3>2
    <2>. QED  BY <2>3, <2>4
  <1>6. v3 # {} => \E w \in v3 : L!Turn(w, v1)
    <2>. SUFFICES ASSUME NEW w \in v3 PROVE \E v \in v3 : L!Turn(v, v1)
      OBVIOUS
    <2>1. CASE L!At("interactive") # {}
      BY <1>5, <2>1 DEF L!Lanes
    <2>2. CASE L!At("interactive") = {}
      <3>1. L!At("background") # {} /\ v1["interactive"] = <<>>
        BY <1>3, <1>4, <2>2 DEF L!Lanes
      <3>. QED  BY <1>5, <3>1 DEF L!Lanes
    <2>. QED  BY <2>1, <2>2
  <1>7. L!NoLostWakeup
    <2>1. \A l \in L!Lanes : L!At(l) = {w \in v3 : L!LaneOf(w) = l}
      BY DEF L!At
    <2>. QED  BY <1>1, <1>6, <2>1 DEF L!NoLostWakeup
  <1>8. \A l \in L!Lanes : v1[l] \in Seq(Callers)
    BY <1>1
  <1>. QED  BY <1>1, <1>7, <1>8 DEF L!LimiterInv, L!LimiterTypeOK

-----------------------------------------------------------------------------
(* Discover: v1 is clock, v2 catalog, v3 mine, v4 cache, v5 lock, v6 asked  *)
(* and v7 refresh.                                                         *)

LEMMA DiscoverStart == ASSUME W!DiscoverInit PROVE W!DiscoverInv
  <1>1. v1 = 1 /\ v1 \in 1..MaxClock /\ 0 \in W!Times
    BY DiscoverConstants DEF W!DiscoverInit, W!Times
  <1>2. v4 = W!Nothing /\ W!Nothing \in [items : SUBSET ShelfGames, at : W!Times, read : W!Times]
    BY <1>1 DEF W!DiscoverInit, W!Nothing
  <1>3. v4.read = 0 /\ v4.at = 0
    BY <1>2 DEF W!Nothing
  <1>4. v6 = [r \in Readers |-> W!Resting] /\ v7 = W!Resting /\ W!Resting.pc = "idle"
    BY DEF W!DiscoverInit, W!Resting
  <1>5. W!ShelvesHold
    BY <1>4 DEF W!ShelvesHold
  <1>6. v4.read <= v4.at /\ v4.at <= v1 /\ v4.at - v4.read <= Slow
    BY <1>1, <1>3, DiscoverConstants
  <1>. QED  BY <1>1, <1>2, <1>3, <1>4, <1>5, <1>6 DEF W!DiscoverInit, W!DiscoverInv

\* What the invariant says of the clock and of what is kept.
LEMMA DiscoverClock ==
  ASSUME W!DiscoverInv
  PROVE  /\ v1 \in 1..MaxClock /\ v1 \in W!Times /\ v1 \in Int /\ v2 \in SUBSET ShelfGames /\ v3 \in SUBSET ShelfGames
         /\ v4.items \in SUBSET ShelfGames /\ v4.at \in W!Times /\ v4.read \in W!Times
         /\ W!Times \subseteq Int
  BY DiscoverConstants DEF W!DiscoverInv, W!Times

\* Storing what was read a short time ago leaves the cache as it must be.
LEMMA StoreKeeps ==
  ASSUME W!DiscoverInv, NEW p, p.items \in SUBSET ShelfGames, p.read \in W!Times, W!Recent(p.read), v4' = W!Store(p)
  PROVE  /\ v4' \in [items : SUBSET ShelfGames, at : W!Times, read : W!Times]
         /\ v4'.read <= v4'.at /\ v4'.at <= v1 /\ v4'.at - v4'.read <= Slow
         /\ v4'.at # 0 => v4'.items # {}
  <1>1. CASE p.items = {}
    BY <1>1 DEF W!DiscoverInv, W!Store
  <1>2. CASE p.items # {}
    <2>1. v4' = [items |-> p.items, at |-> v1, read |-> p.read]
      BY <1>2 DEF W!Store
    <2>2. v4' \in [items : SUBSET ShelfGames, at : W!Times, read : W!Times]
      BY <2>1, DiscoverClock
    <2>3. v4'.items = p.items /\ v4'.at = v1 /\ v4'.read = p.read
      BY <2>1
    <2>. QED  BY <1>2, <2>2, <2>3, DiscoverClock DEF W!Recent
  <1>. QED  BY <1>1, <1>2

\* A step of one request that keeps the clock.
LEMMA RequestGoesOn ==
  ASSUME W!DiscoverInv, UNCHANGED <<v1, v2, v3, v7>>, NEW r \in Readers, NEW new,
         v6' = [v6 EXCEPT ![r] = new],
         new \in {W!Resting} \cup W!Computing \cup W!Storing \cup W!Taken,
         new.pc \in {"compute", "store"} => new.from <= v1,
         new.pc = "store" => W!Recent(new.read) /\ new.from <= new.read,
         new.pc \in {"mine", "shown"} => new.at - new.read < TTL + Slow,
         new.pc = "mine" /\ new.items = {} => new.read >= new.from,
         v5' \in Readers \cup {W!None},
         v4' \in [items : SUBSET ShelfGames, at : W!Times, read : W!Times],
         v4'.read <= v4'.at /\ v4'.at <= v1 /\ v4'.at - v4'.read <= Slow,
         v4'.at # 0 => v4'.items # {}
  PROVE  W!DiscoverInv'
  <1>1. v6' \in [Readers -> {W!Resting} \cup W!Computing \cup W!Storing \cup W!Taken]
    BY DEF W!DiscoverInv
  <1>2. v6'[r] = new /\ \A s \in Readers \ {r} : v6'[s] = v6[s]
    BY DEF W!DiscoverInv
  <1>3. W!ShelvesHold'
    BY <1>2 DEF W!DiscoverInv, W!ShelvesHold
  <1>4. \A s \in Readers :
       /\ v6'[s].pc \in {"compute", "store"} => v6'[s].from <= v1'
       /\ v6'[s].pc = "store" => W!Recent(v6[s].read)' /\ v6'[s].from <= v6'[s].read
    BY <1>2 DEF W!DiscoverInv, W!Recent
  <1>. QED  BY <1>1, <1>3, <1>4 DEF W!DiscoverInv, W!Recent

LEMMA DiscoverStep ==
  ASSUME W!DiscoverInv, W!DiscoverNext PROVE W!DiscoverInv'
  <1>. DEFINE Forms == {W!Resting} \cup W!Computing \cup W!Storing \cup W!Taken
  <1>1. /\ v4 \in [items : SUBSET ShelfGames, at : W!Times, read : W!Times]
        /\ v4.read <= v4.at /\ v4.at <= v1 /\ v4.at - v4.read <= Slow
        /\ (v4.at # 0 => v4.items # {}) /\ v5 \in Readers \cup {W!None}
    BY DEF W!DiscoverInv
  <1>2. ASSUME NEW r \in Readers, W!Ask(r) PROVE W!DiscoverInv'
    <2>1. UNCHANGED <<v1, v2, v3, v4, v7>>
      BY <1>2 DEF W!Ask
    <2>2. CASE W!Fresh
      <3>. DEFINE new == [pc |-> "mine", from |-> v1, items |-> v4.items, read |-> v4.read, at |-> v1]
      <3>1. v6' = [v6 EXCEPT ![r] = new] /\ v5' = v5
        BY <1>2, <2>2 DEF W!Ask
      <3>2. new \in W!Taken
        BY DiscoverClock DEF W!Taken
      <3>3. new.pc = "mine" /\ new.items = v4.items /\ new.read = v4.read /\ new.at = v1
        OBVIOUS
      <3>4. v4.at # 0 /\ v1 - v4.at < TTL
        BY <2>2 DEF W!Fresh
      <3>5. v1 - v4.read < TTL + Slow
        BY <1>1, <3>4, DiscoverClock, DiscoverConstants DEF W!Times
      <3>. HIDE DEF new
      <3>. QED  BY <1>1, <2>1, <3>1, <3>2, <3>3, <3>4, <3>5, RequestGoesOn
    <2>3. CASE ~W!Fresh
      <3>. DEFINE new == [pc |-> "compute", from |-> v1]
      <3>1. v6' = [v6 EXCEPT ![r] = new] /\ v5' = r
        BY <1>2, <2>3 DEF W!Ask
      <3>2. new \in W!Computing /\ new.pc = "compute" /\ new.from = v1 /\ v1 <= v1
        BY DiscoverClock DEF W!Computing
      <3>. HIDE DEF new
      <3>. QED  BY <1>1, <2>1, <3>1, <3>2, RequestGoesOn
    <2>. QED  BY <2>2, <2>3
  <1>3. ASSUME NEW r \in Readers, W!Compute(r) PROVE W!DiscoverInv'
    <2>1. UNCHANGED <<v1, v2, v3, v4, v5, v7>> /\ v6[r].pc = "compute"
      BY <1>3 DEF W!Compute
    <2>2. v6[r] \in W!Computing /\ v6[r].from <= v1
      BY <2>1 DEF W!DiscoverInv, W!Resting, W!Storing, W!Taken
    <2>. DEFINE new == [pc |-> "store", from |-> v6[r].from, items |-> v2, read |-> v1]
    <2>3. v6' = [v6 EXCEPT ![r] = new]
      BY <1>3 DEF W!Compute
    <2>4. new \in W!Storing
      BY <2>2, DiscoverClock DEF W!Storing, W!Computing
    <2>5. new.pc = "store" /\ new.from = v6[r].from /\ new.read = v1
      OBVIOUS
    <2>6. W!Recent(new.read)
      BY <2>5, DiscoverClock, DiscoverConstants DEF W!Recent
    <2>. HIDE DEF new
    <2>. QED  BY <1>1, <2>1, <2>2, <2>3, <2>4, <2>5, <2>6, RequestGoesOn
  <1>4. ASSUME NEW r \in Readers, W!StoreShelves(r) PROVE W!DiscoverInv'
    <2>1. UNCHANGED <<v1, v2, v3, v7>> /\ v6[r].pc = "store" /\ v4' = W!Store(v6[r]) /\ v5' = W!None
      BY <1>4 DEF W!StoreShelves
    <2>2. v6[r] \in W!Storing /\ W!Recent(v6[r].read) /\ v6[r].from <= v6[r].read
      BY <2>1 DEF W!DiscoverInv, W!Resting, W!Computing, W!Taken
    <2>3. v6[r].items \in SUBSET ShelfGames /\ v6[r].read \in W!Times /\ v6[r].from \in W!Times
      BY <2>2 DEF W!Storing
    <2>4. /\ v4' \in [items : SUBSET ShelfGames, at : W!Times, read : W!Times]
          /\ v4'.read <= v4'.at /\ v4'.at <= v1 /\ v4'.at - v4'.read <= Slow
          /\ v4'.at # 0 => v4'.items # {}
      BY <2>1, <2>2, <2>3, StoreKeeps
    <2>. DEFINE new == [pc |-> "mine", from |-> v6[r].from, items |-> v6[r].items, read |-> v6[r].read, at |-> v1]
    <2>5. v6' = [v6 EXCEPT ![r] = new]
      BY <1>4 DEF W!StoreShelves
    <2>6. new \in W!Taken
      BY <2>3, DiscoverClock DEF W!Taken
    <2>7. new.pc = "mine" /\ new.from = v6[r].from /\ new.read = v6[r].read /\ new.at = v1
      OBVIOUS
    <2>8. new.at - new.read < TTL + Slow
      BY <2>2, <2>3, <2>7, DiscoverClock, DiscoverConstants DEF W!Recent
    <2>9. new.read >= new.from
      BY <2>2, <2>3, <2>7, DiscoverClock
    <2>. HIDE DEF new
    <2>. QED  BY <2>1, <2>4, <2>5, <2>6, <2>7, <2>8, <2>9, RequestGoesOn
  <1>5. ASSUME NEW r \in Readers, W!GiveUp(r) PROVE W!DiscoverInv'
    <2>1. UNCHANGED <<v1, v2, v3, v4, v7>> /\ v5' \in {W!None, v5} /\ v6' = [v6 EXCEPT ![r] = W!Resting]
      BY <1>5 DEF W!GiveUp
    <2>2. W!Resting.pc = "idle"
      BY DEF W!Resting
    <2>. QED  BY <1>1, <2>1, <2>2, RequestGoesOn
  <1>6. ASSUME NEW r \in Readers, W!Show(r) PROVE W!DiscoverInv'
    <2>1. UNCHANGED <<v1, v2, v3, v4, v5, v7>> /\ v6[r].pc = "mine"
      BY <1>6 DEF W!Show
    <2>2. v6[r] \in W!Taken /\ v6[r].at - v6[r].read < TTL + Slow
      BY <2>1 DEF W!DiscoverInv, W!Resting, W!Storing, W!Computing, W!ShelvesHold
    <2>. DEFINE new == [[v6[r] EXCEPT !.pc = "shown"] EXCEPT !.items = v6[r].items \ v3]
    <2>3. v6' = [v6 EXCEPT ![r] = new]
      BY <1>6, <2>2 DEF W!Show, W!Taken, W!DiscoverInv
    <2>4. new \in W!Taken /\ new.pc = "shown" /\ new.at = v6[r].at /\ new.read = v6[r].read
      BY <2>2 DEF W!Taken
    <2>. HIDE DEF new
    <2>. QED  BY <1>1, <2>1, <2>2, <2>3, <2>4, RequestGoesOn
  <1>7. CASE W!RefreshRead
    <2>. DEFINE new == [pc |-> "store", items |-> v2, read |-> v1]
    <2>1. v7' = new /\ UNCHANGED <<v1, v2, v3, v4, v5, v6>>
      BY <1>7 DEF W!RefreshRead
    <2>2. new \in W!JobStores /\ new.read = v1
      BY DiscoverClock DEF W!JobStores
    <2>3. W!Recent(v1)
      BY DiscoverClock, DiscoverConstants DEF W!Recent
    <2>. QED  BY <2>1, <2>2, <2>3 DEF W!DiscoverInv, W!Recent, W!ShelvesHold
  <1>8. CASE W!RefreshStore
    <2>1. v7.pc = "store" /\ v4' = W!Store(v7) /\ v7' = W!Resting /\ UNCHANGED <<v1, v2, v3, v5, v6>>
      BY <1>8 DEF W!RefreshStore
    <2>2. v7.items \in SUBSET ShelfGames /\ v7.read \in W!Times /\ W!Recent(v7.read)
      BY <2>1 DEF W!DiscoverInv, W!Resting, W!JobStores
    <2>3. /\ v4' \in [items : SUBSET ShelfGames, at : W!Times, read : W!Times]
          /\ v4'.read <= v4'.at /\ v4'.at <= v1 /\ v4'.at - v4'.read <= Slow
          /\ v4'.at # 0 => v4'.items # {}
      BY <2>1, <2>2, StoreKeeps
    <2>4. W!Resting.pc = "idle"
      BY DEF W!Resting
    <2>. QED  BY <2>1, <2>3, <2>4 DEF W!DiscoverInv, W!Recent, W!ShelvesHold
  <1>9. CASE W!Tick
    <2>1. UNCHANGED <<v2, v3, v4, v5, v6, v7>> /\ v1' = v1 + 1 /\ v1 < MaxClock
      BY <1>9 DEF W!Tick
    <2>2. v1' \in 1..MaxClock /\ v1 \in Int
      BY <2>1, DiscoverClock, DiscoverConstants
    <2>3. \A n \in W!Times : W!Recent(n) /\ ~(v1 - n >= Slow) => W!Recent(n)'
      BY <2>1, <2>2, DiscoverConstants DEF W!Recent, W!Times
    <2>4. v7.pc = "store" => W!Recent(v7.read)'
      <3>. SUFFICES ASSUME v7.pc = "store" PROVE W!Recent(v7.read)'
        OBVIOUS
      <3>1. v7 \in W!JobStores /\ W!Recent(v7.read)
        BY DEF W!DiscoverInv, W!Resting
      <3>2. "read" \in DOMAIN v7 /\ v7.read \in W!Times
        BY <3>1 DEF W!JobStores
      <3>3. ~(v1 - v7.read >= Slow)
        BY <1>9, <3>2 DEF W!Tick, W!Overdue
      <3>. QED  BY <2>1, <2>3, <3>1, <3>2, <3>3 DEF W!Recent
    <2>5. ASSUME NEW r \in Readers
          PROVE  /\ v6[r].pc \in {"compute", "store"} => v6[r].from <= v1'
                 /\ v6[r].pc = "store" => W!Recent(v6[r].read)' /\ v6[r].from <= v6[r].read
      <3>1. v6[r].pc = "store" => W!Recent(v6[r].read)'
        <4>. SUFFICES ASSUME v6[r].pc = "store" PROVE W!Recent(v6[r].read)'
          OBVIOUS
        <4>1. v6[r] \in W!Storing /\ W!Recent(v6[r].read)
          BY DEF W!DiscoverInv, W!Resting, W!Computing, W!Taken
        <4>2. "read" \in DOMAIN v6[r] /\ v6[r].read \in W!Times
          BY <4>1 DEF W!Storing
        <4>3. ~(v1 - v6[r].read >= Slow)
          BY <1>9, <4>2 DEF W!Tick, W!Overdue
        <4>. QED  BY <2>1, <2>3, <4>1, <4>2, <4>3 DEF W!Recent
      <3>2. v6[r].pc \in {"compute", "store"} => v6[r].from <= v1'
        <4>. SUFFICES ASSUME v6[r].pc \in {"compute", "store"} PROVE v6[r].from <= v1'
          OBVIOUS
        <4>1. v6[r] \in W!Storing \cup W!Computing /\ v6[r].from <= v1
          BY DEF W!DiscoverInv, W!Resting, W!Taken
        <4>2. v6[r].from \in Int
          BY <4>1, DiscoverClock DEF W!Storing, W!Computing
        <4>. QED  BY <2>1, <2>2, <4>1, <4>2
      <3>. QED  BY <3>1, <3>2 DEF W!DiscoverInv
    <2>6. v4.at <= v1'
      BY <1>1, <2>1, <2>2, DiscoverClock
    <2>. QED  BY <2>1, <2>2, <2>4, <2>5, <2>6 DEF W!DiscoverInv, W!ShelvesHold
  <1>10. ASSUME NEW games \in SUBSET ShelfGames, W!Change(games) \/ W!Collect(games) PROVE W!DiscoverInv'
    BY <1>10 DEF W!Change, W!Collect, W!DiscoverInv, W!ShelvesHold, W!Recent
  <1>. QED  BY <1>2, <1>3, <1>4, <1>5, <1>6, <1>7, <1>8, <1>9, <1>10 DEF W!DiscoverNext

LEMMA DiscoverSafe == ASSUME W!DiscoverInv PROVE W!ShelvesHold /\ W!DiscoverTypeOK
  <1>1. \A r \in Readers : v6[r].pc \in {"idle", "compute", "store", "mine", "shown"}
    BY DEF W!DiscoverInv, W!Resting, W!Computing, W!Storing, W!Taken
  <1>2. v7.pc \in {"idle", "store"} /\ v4.items \subseteq ShelfGames
    BY DEF W!DiscoverInv, W!Resting, W!JobStores
  <1>. QED  BY <1>1, <1>2 DEF W!DiscoverInv, W!DiscoverTypeOK

-----------------------------------------------------------------------------
(* The backfills: v1 is upstream, v2 marked, v3 guessed, v4 spec, v5 run,   *)
(* v6 runs, v7 seen, v8 failed and v9 settled.                             *)

LEMMA LastUpTo ==
  ASSUME NEW n \in Nat, NEW T, T \subseteq 0..n, T # {}
  PROVE  \E k \in T : \A y \in T : k >= y
  <1>. DEFINE Bounds == {k \in Nat : \A y \in T : k >= y}
  <1>1. n \in Bounds /\ \A y \in T : y \in Nat
    OBVIOUS
  <1>2. PICK k \in Bounds : \A j \in Bounds : ~(j < k)
    <2>. DEFINE R == OpToRel(<, Nat)
    <2>1. IsWellFoundedOn(R, Nat)
      BY NatLessThanWellFounded, Zenon
    <2>2. \A x, y \in Nat : y < x => <<y, x>> \in R
      BY DEF OpToRel
    <2>3. Bounds \subseteq Nat /\ Bounds # {}
      BY <1>1
    <2>. HIDE DEF R, Bounds
    <2>4. \E k \in Bounds : \A j \in Bounds : ~(<<j, k>> \in R)
      BY <2>1, <2>3, WFMin
    <2>. QED  BY <2>2, <2>3, <2>4
  <1>3. k \in T
    <2>1. SUFFICES ASSUME k \notin T PROVE FALSE
      OBVIOUS
    <2>2. \A y \in T : y \in Nat /\ k \in Nat /\ y <= k /\ y # k
      BY <1>1, <2>1
    <2>3. k \in Nat \ {0}
      <3>1. PICK y : y \in T
        OBVIOUS
      <3>. QED  BY <2>2, <3>1
    <2>4. \A y \in T : k - 1 >= y
      BY <2>2
    <2>. QED  BY <1>2, <2>3, <2>4
  <1>. QED  BY <1>2, <1>3

LEMMA LastOf ==
  ASSUME NEW T \in SUBSET Games, T # {}
  PROVE  \E k \in T : \A y \in T : k >= y
  <1>. PICK n \in Nat : \A g \in Games : g \in Nat /\ g <= n
    BY GamesConstants
  <1>1. T \subseteq 0..n
    OBVIOUS
  <1>. QED  BY <1>1, LastUpTo

LEMMA GamesAreNumbers == Games \subseteq Nat
  BY GamesConstants

LEMMA FirstOf ==
  ASSUME NEW T \in SUBSET Games, T # {}
  PROVE  \E k \in T : \A y \in T : k <= y
  <1>. DEFINE R == OpToRel(<, Nat)
  <1>1. IsWellFoundedOn(R, Nat)
    BY NatLessThanWellFounded, Zenon
  <1>2. \A x, y \in Nat : y < x => <<y, x>> \in R
    BY DEF OpToRel
  <1>3. T \subseteq Nat
    BY GamesAreNumbers
  <1>. HIDE DEF R
  <1>4. PICK k \in T : \A j \in T : ~(<<j, k>> \in R)
    BY <1>1, <1>3, WFMin
  <1>5. k \in Nat /\ \A j \in T : j \in Nat /\ ~(j < k)
    BY <1>2, <1>3, <1>4
  <1>6. \A j \in T : k <= j
    BY <1>5
  <1>. QED  BY <1>6

LEMMA BackfillStart == ASSUME B!BackfillInit PROVE B!BackfillInv
  <1>1. B!BackfillTypeOK
    <2>1. v6 \in 0..MaxRuns
      BY BackfillConstants DEF B!BackfillInit
    <2>2. v4 \in B!Specs /\ v5.pc = "idle"
      BY DEF B!BackfillInit, B!Resting
    <2>3. /\ v1 \subseteq Games /\ v2 \subseteq Games /\ v3 \subseteq Games
          /\ v7 \subseteq Games /\ v8 \subseteq Games /\ v9 \subseteq Games
      BY DEF B!BackfillInit
    <2>. QED  BY <2>1, <2>2, <2>3 DEF B!BackfillTypeOK
  <1>2. v5 = B!Resting /\ v5.pc = "idle" /\ v2 \subseteq v9
    BY DEF B!BackfillInit, B!Resting
  <1>. QED  BY <1>1, <1>2 DEF B!BackfillInv, B!MarkedIsSettled

\* What the invariant says of the sets of rows, in any state and the next one.
Rows == /\ v1 \subseteq Games /\ v2 \subseteq Games /\ v3 \subseteq Games
        /\ v7 \subseteq Games /\ v8 \subseteq Games /\ v9 \subseteq Games

LEMMA RowsOK ==
  ASSUME v4' \in B!Specs, v6' \in 0..MaxRuns, Rows', v5' \in {B!Resting} \cup B!Runs PROVE B!BackfillTypeOK'
  <1>1. v5'.pc \in {"idle", "next", "fetch", "apply"}
    BY DEF B!Resting, B!Runs
  <1>. QED  BY <1>1 DEF B!BackfillTypeOK, Rows

LEMMA BackfillFacts ==
  ASSUME B!BackfillInv
  PROVE  /\ v4 \in B!Specs /\ v6 \in 0..MaxRuns /\ Rows /\ v2 \subseteq v9
         /\ v5 # B!Resting <=> v5 \in B!Runs
         /\ v5.pc # "idle" => v5 # B!Resting
  BY DEF B!BackfillInv, B!BackfillTypeOK, B!MarkedIsSettled, Rows, B!Resting, B!Runs

LEMMA RunPages ==
  ASSUME B!BackfillInv, B!NextBatch PROVE B!BackfillInv'
  <1>. DEFINE ids == B!First(B!Candidates(v5.after))
  <1>1. UNCHANGED <<v1, v2, v3, v4, v6, v7, v8, v9>> /\ v5.pc = "next" /\ v5 \in B!Runs /\ v5 # B!Resting
    BY BackfillFacts DEF B!NextBatch
  <1>2. ids \subseteq B!Candidates(v5.after)
    BY DEF B!First
  <1>3. v5.after \in Nat /\ ids \subseteq Games
    BY <1>1, <1>2, BackfillFacts, BackfillConstants DEF B!Runs, B!Candidates, B!Pending, Rows
  <1>4. CASE ids = {}
    BY <1>1, <1>4, BackfillFacts DEF B!NextBatch, B!BackfillInv, B!BackfillTypeOK, B!MarkedIsSettled, B!Resting
  <1>5. CASE ids # {}
    <2>. PICK last \in ids : \A g \in ids : last >= g
      BY <1>3, <1>5, LastOf
    <2>1. B!Max(ids) \in ids /\ \A g \in ids : B!Max(ids) >= g
      BY DEF B!Max
    <2>. DEFINE after == B!Max(ids)
                new == [pc |-> "fetch", after |-> after, todo |-> ids, got |-> v5.got, lost |-> v5.lost]
    <2>2. v5' = new
      BY <1>1, <1>5 DEF B!NextBatch, B!Runs
    <2>3. after \in Nat
      BY <1>3, <2>1, GamesAreNumbers
    <2>. HIDE DEF after
    <2>4. v5' \in B!Runs
      BY <1>1, <1>3, <2>2, <2>3 DEF B!Runs
    <2>5. v5'.pc = "fetch" /\ v5'.todo = ids /\ v5'.after = after /\ v5' # B!Resting
      BY <2>2 DEF B!Resting
    <2>. HIDE DEF ids, new
    <2>6. B!BackfillTypeOK'
      <3>1. v5' \in {B!Resting} \cup B!Runs /\ v4' \in B!Specs /\ v6' \in 0..MaxRuns /\ Rows'
        BY <1>1, <2>4, BackfillFacts DEF Rows
      <3>. QED  BY <3>1, RowsOK
    <2>7. ASSUME B!ByMarker PROVE v7 \subseteq v2 \cup v8 /\ ids \cap v7 \subseteq v8
      <3>1. v7 \subseteq v2 \cup v8
        BY <1>1, <2>7 DEF B!BackfillInv
      <3>2. ids \cap v2 = {}
        BY <1>2, <2>7 DEF B!Candidates, B!Pending, B!ByMarker
      <3>. QED  BY <3>1, <3>2
    <2>8. ASSUME ~B!ByMarker PROVE (\A g \in v7 \cup ids : g <= after) /\ ids \cap v7 = {}
      <3>1. \A g \in v7 : g <= v5.after
        BY <1>1, <2>8 DEF B!BackfillInv
      <3>2. \A g \in ids : g > v5.after /\ g <= after
        <4>1. \A g \in ids : g > v5.after
          BY <1>2, <2>8 DEF B!Candidates
        <4>2. \A g \in ids : g <= after
          BY <1>3, <2>1, GamesAreNumbers DEF after
        <4>. QED  BY <4>1, <4>2
      <3>3. v7 \subseteq Nat /\ ids \subseteq Nat
        BY <1>3, BackfillFacts, GamesAreNumbers DEF Rows
      <3>. QED  BY <1>3, <1>5, <2>3, <3>1, <3>2, <3>3
    <2>9. (B!ByMarker' <=> B!ByMarker) /\ B!MarkedIsSettled'
      BY <1>1, BackfillFacts DEF B!ByMarker, B!MarkedIsSettled
    <2>. QED  BY <1>1, <2>4, <2>5, <2>6, <2>7, <2>8, <2>9 DEF B!BackfillInv
  <1>. QED  BY <1>4, <1>5

\* A request for the batch was answered, in part when it is one a row.
LEMMA RunFetched ==
  ASSUME B!BackfillInv, v5.pc = "fetch", NEW got, NEW lost, got \subseteq v5.todo, lost \subseteq v5.todo,
         v5' = [v5 EXCEPT !.pc = "apply", !.got = got, !.lost = lost],
         v7' = v7 \cup v5.todo, v8' = v8 \cup lost,
         UNCHANGED <<v1, v2, v3, v4, v6, v9>>
  PROVE  B!BackfillInv'
  <1>1. v5 \in B!Runs /\ v5 # B!Resting
    BY BackfillFacts
  <1>2. v5' \in B!Runs /\ v5'.pc = "apply" /\ v5'.todo = v5.todo /\ v5'.lost = lost /\ v5'.after = v5.after /\ v5.todo \subseteq Games
    BY <1>1 DEF B!Runs
  <1>3. v5' # B!Resting
    BY <1>2 DEF B!Resting
  <1>4. B!BackfillTypeOK'
    <2>1. Rows' /\ v5' \in {B!Resting} \cup B!Runs /\ v4' \in B!Specs /\ v6' \in 0..MaxRuns
      BY <1>2, BackfillFacts DEF Rows
    <2>. QED  BY <2>1, RowsOK
  <1>5. (B!ByMarker' <=> B!ByMarker) /\ B!MarkedIsSettled'
    BY BackfillFacts DEF B!ByMarker, B!MarkedIsSettled
  <1>. QED  BY <1>1, <1>2, <1>3, <1>4, <1>5 DEF B!BackfillInv

\* One row of the batch is done with: marked, or failed, or its request had.
LEMMA RunApplied ==
  ASSUME B!BackfillInv, v5.pc = "apply", NEW g \in v5.todo, B!Done(g),
         v2 \subseteq v2' /\ v2' \subseteq v2 \cup {g}, v8 \subseteq v8' /\ v8' \subseteq v8 \cup {g},
         v9 \subseteq v9' /\ v9' \subseteq v9 \cup {g}, v3' \subseteq v3, g \in v2' => g \in v9',
         B!ByMarker => g \in v2' \cup v8',
         UNCHANGED <<v1, v4, v6, v7>>
  PROVE  B!BackfillInv'
  <1>1. v5 \in B!Runs /\ v5 # B!Resting
    BY BackfillFacts
  <1>2. /\ v5' \in B!Runs /\ v5'.pc \in {"apply", "next"} /\ v5'.todo = v5.todo \ {g} /\ v5'.lost = v5.lost
        /\ v5'.after = v5.after /\ v5.todo \subseteq Games /\ (v5'.pc = "next" => v5.todo = {g})
    BY <1>1 DEF B!Runs, B!Done
  <1>3. v5' # B!Resting
    BY <1>2 DEF B!Resting
  <1>4. B!BackfillTypeOK'
    <2>1. Rows' /\ v5' \in {B!Resting} \cup B!Runs /\ v4' \in B!Specs /\ v6' \in 0..MaxRuns
      BY <1>2, BackfillFacts DEF Rows
    <2>. QED  BY <2>1, RowsOK
  <1>5. (B!ByMarker' <=> B!ByMarker) /\ B!MarkedIsSettled'
    BY BackfillFacts DEF B!ByMarker, B!MarkedIsSettled
  <1>6. ASSUME B!ByMarker
        PROVE  /\ v7' \subseteq v2' \cup v8' \cup (IF v5'.pc = "apply" THEN v5'.todo ELSE {})
               /\ v5'.pc = "apply" => v5'.lost \subseteq v8'
    BY <1>1, <1>2, <1>6 DEF B!BackfillInv
  <1>7. ASSUME ~B!ByMarker PROVE \A h \in v7' \cup v5'.todo : h <= v5'.after
    BY <1>1, <1>2, <1>7 DEF B!BackfillInv
  <1>8. v5'.pc # "fetch" /\ (v5'.pc = "apply" => v5'.todo # {})
    BY <1>1 DEF B!Runs, B!Done
  <1>. QED  BY <1>2, <1>3, <1>4, <1>5, <1>6, <1>7, <1>8 DEF B!BackfillInv

\* The run ends, or starts afresh: nothing is asked for yet.
LEMMA RunRests ==
  ASSUME B!BackfillInv, UNCHANGED <<v1, v2, v3, v4, v9>>, v6' \in 0..MaxRuns, v7' \subseteq Games, v8' \subseteq Games,
         \/ v5' = B!Resting
         \/ v5' = [pc |-> "next", after |-> 0, todo |-> {}, got |-> {}, lost |-> {}] /\ v7' = {}
  PROVE  B!BackfillInv'
  <1>1. v5' \in {B!Resting} \cup B!Runs
    BY DEF B!Runs
  <1>2. B!BackfillTypeOK' /\ B!MarkedIsSettled'
    <2>1. Rows' /\ v4' \in B!Specs
      BY BackfillFacts DEF Rows
    <2>2. v5' \in {B!Resting} \cup B!Runs
      BY DEF B!Runs
    <2>. QED  BY <2>1, <2>2, RowsOK, BackfillFacts DEF B!MarkedIsSettled
  <1>. QED  BY <1>1, <1>2 DEF B!BackfillInv, B!Resting

LEMMA BackfillStep ==
  ASSUME B!BackfillInv, B!BackfillNext PROVE B!BackfillInv'
  <1>1. CASE B!StartRun
    <2>1. v6' \in 0..MaxRuns
      BY <1>1, BackfillConstants, BackfillFacts DEF B!StartRun
    <2>. QED  BY <1>1, <2>1, RunRests DEF B!StartRun
  <1>2. CASE B!NextBatch
    BY <1>2, RunPages
  <1>3. CASE B!Stop
    BY <1>3, RunRests, BackfillFacts DEF B!Stop, Rows
  <1>4. ASSUME NEW ok \in BOOLEAN, B!FetchBatch(ok) PROVE B!BackfillInv'
    <2>1. v5.pc = "fetch" /\ UNCHANGED <<v1, v2, v3, v4, v6, v8, v9>> /\ v7' = v7 \cup v5.todo
      BY <1>4 DEF B!FetchBatch
    <2>2. v5.todo \subseteq Games /\ v7 \subseteq Games /\ v8 \subseteq Games /\ v6 \in 0..MaxRuns
      BY <2>1, BackfillFacts DEF B!Runs, Rows
    <2>3. CASE ok
      <3>. PICK got, lost : got = v5.todo \cap v1 /\ lost = {}
        OBVIOUS
      <3>1. v5' = [v5 EXCEPT !.pc = "apply", !.got = got, !.lost = lost] /\ v8' = v8 \cup lost
        BY <1>4, <2>1, <2>3 DEF B!FetchBatch
      <3>. QED  BY <2>1, <3>1, RunFetched
    <2>4. CASE ~ok
      BY <1>4, <2>1, <2>2, <2>4, RunRests DEF B!FetchBatch
    <2>. QED  BY <2>3, <2>4
  <1>5. ASSUME NEW lost \in SUBSET Games, B!FetchEach(lost) PROVE B!BackfillInv'
    <2>. PICK got : got = (v5.todo \cap v1) \ lost
      OBVIOUS
    <2>1. /\ v5.pc = "fetch" /\ UNCHANGED <<v1, v2, v3, v4, v6, v9>> /\ v7' = v7 \cup v5.todo
          /\ v8' = v8 \cup lost /\ lost \subseteq v5.todo
          /\ v5' = [v5 EXCEPT !.pc = "apply", !.got = got, !.lost = lost]
      BY <1>5 DEF B!FetchEach
    <2>. QED  BY <2>1, RunFetched
  <1>6. ASSUME NEW ok \in BOOLEAN, NEW g \in Games, B!Apply(g, ok) PROVE B!BackfillInv'
    <2>1. v5.pc = "apply" /\ B!Done(g) /\ UNCHANGED <<v1, v4, v6, v7>>
      BY <1>6 DEF B!Apply
    <2>2. g \in v5.todo
      <3>1. v5.todo # {} /\ v5.todo \in SUBSET Games /\ g = B!Min(v5.todo)
        BY <1>6, <2>1, BackfillFacts DEF B!Apply, B!Turn, B!BackfillInv, B!Runs
      <3>2. PICK k \in v5.todo : \A y \in v5.todo : k <= y
        BY <3>1, FirstOf
      <3>. QED  BY <3>1, <3>2 DEF B!Min
    <2>3. /\ v2 \subseteq v2' /\ v2' \subseteq v2 \cup {g} /\ v8 \subseteq v8' /\ v8' \subseteq v8 \cup {g}
          /\ v9 \subseteq v9' /\ v9' \subseteq v9 \cup {g} /\ v3' \subseteq v3
          /\ g \in v2' => g \in v9'
          /\ B!ByMarker => g \in v2' \cup v8'
      BY <1>6, BackfillFacts DEF B!Apply
    <2>. QED  BY <2>1, <2>2, <2>3, RunApplied
  <1>7. ASSUME NEW ok \in BOOLEAN, NEW g \in Games, B!Missing(g, ok) PROVE B!BackfillInv'
    <2>1. v5.pc = "apply" /\ g \in v5.todo /\ B!Done(g) /\ UNCHANGED <<v1, v3, v4, v6, v7>>
      BY <1>7 DEF B!Missing
    <2>2. B!ByMarker => v5.lost \subseteq v8
      BY <2>1, BackfillFacts DEF B!BackfillInv
    <2>3. /\ v2 \subseteq v2' /\ v2' \subseteq v2 \cup {g} /\ v8 \subseteq v8' /\ v8' \subseteq v8 \cup {g}
          /\ v9 \subseteq v9' /\ v9' \subseteq v9 \cup {g} /\ v3' \subseteq v3
          /\ g \in v2' => g \in v9'
          /\ B!ByMarker => g \in v2' \cup v8'
      BY <1>7, <2>1, <2>2, BackfillFacts DEF B!Missing
    <2>. QED  BY <2>1, <2>3, RunApplied
  <1>8. ASSUME NEW g \in Games, B!ServerUpserts(g) PROVE B!BackfillInv'
    <2>1. /\ v2' = v2 \cup {g} /\ v3' = v3 \ {g} /\ v9' = v9 \cup {g}
          /\ UNCHANGED <<v1, v4, v5, v6, v7, v8>>
      BY <1>8 DEF B!ServerUpserts
    <2>2. B!BackfillTypeOK' /\ B!MarkedIsSettled'
      <3>1. Rows' /\ v5' \in {B!Resting} \cup B!Runs /\ v4' \in B!Specs /\ v6' \in 0..MaxRuns
        BY <2>1, BackfillFacts DEF Rows
      <3>. QED  BY <2>1, <3>1, RowsOK, BackfillFacts DEF B!MarkedIsSettled
    <2>. QED  BY <2>1, <2>2 DEF B!BackfillInv, B!ByMarker
  <1>9. ASSUME NEW g \in Games, B!DeletedUpstream(g) PROVE B!BackfillInv'
    <2>1. v1' = v1 \ {g} /\ UNCHANGED <<v2, v3, v4, v5, v6, v7, v8, v9>>
      BY <1>9 DEF B!DeletedUpstream
    <2>2. B!BackfillTypeOK' /\ B!MarkedIsSettled'
      <3>1. Rows' /\ v5' \in {B!Resting} \cup B!Runs /\ v4' \in B!Specs /\ v6' \in 0..MaxRuns
        BY <2>1, BackfillFacts DEF Rows
      <3>. QED  BY <2>1, <3>1, RowsOK, BackfillFacts DEF B!MarkedIsSettled
    <2>. QED  BY <2>1, <2>2 DEF B!BackfillInv, B!ByMarker
  <1>. QED  BY <1>1, <1>2, <1>3, <1>4, <1>5, <1>6, <1>7, <1>8, <1>9 DEF B!BackfillNext

LEMMA BackfillSafe == ASSUME B!BackfillInv PROVE B!MarkedIsSettled /\ B!QueueAdvances /\ B!PagesOnce
  <1>1. v5.pc = "fetch" => v5 # B!Resting
    BY DEF B!Resting
  <1>2. v5.pc = "fetch" => v5.todo \cap v7 \subseteq v8
    BY <1>1 DEF B!BackfillInv
  <1>3. v5.pc = "fetch" /\ ~B!ByMarker => v5.todo \cap v7 = {}
    BY <1>1 DEF B!BackfillInv
  <1>. QED  BY <1>2, <1>3 DEF B!BackfillInv, B!QueueAdvances, B!PagesOnce

-----------------------------------------------------------------------------
(* Rich data and rankings: v1 is known, v2 owned, v3 stamp, v4 times, v5    *)
(* tasks, v6 ranking, v7 score, v8 pop, v9 rankings, v10 taken and v11 cut. *)

LEMMA EnrichStart == ASSUME E!EnrichInit PROVE E!EnrichInv
  <1>1. E!RankInv
    BY DEF E!EnrichInit, E!RankInv, E!Rankings
  <1>2. v5 = [t \in E!Tasks |-> E!Resting] /\ E!Job \in E!Tasks
    BY DEF E!EnrichInit, E!Tasks
  <1>3. E!DetailInv
    BY <1>2 DEF E!EnrichInit, E!DetailInv, E!WellFormed
  <1>. QED  BY <1>1, <1>3 DEF E!EnrichInv

\* One refresh goes on without a stamp: what it loses of those it stamped is cut.
LEMMA RefreshGoesOn ==
  ASSUME E!DetailInv, NEW t \in E!Tasks, NEW new \in {E!Resting} \cup E!Refreshes,
         v5' = [v5 EXCEPT ![t] = new], UNCHANGED <<v3, v4>>, E!WellFormed(new),
         v11 \subseteq v11', v11' \subseteq FewGames, E!Saved(v5[t]) \subseteq v11' \cup E!Saved(new),
         v10' \subseteq FewGames, v5'[E!Job] = E!Resting => v10' = {},
         \A g \in v10' : v3[g] = "fresh" \/ g \in E!ToCome(v5'[E!Job])
  PROVE  E!DetailInv'
  <1>1. v5' \in [E!Tasks -> {E!Resting} \cup E!Refreshes]
    BY DEF E!DetailInv
  <1>2. v5'[t] = new /\ \A u \in E!Tasks \ {t} : v5'[u] = v5[u]
    BY DEF E!DetailInv
  <1>3. \A u \in E!Tasks : E!WellFormed(v5'[u])
    BY <1>2 DEF E!DetailInv
  <1>4. \A g \in FewGames : v3[g] # "never" => v4[g] \/ g \in v11' \/ \E u \in E!Tasks : g \in E!Saved(v5'[u])
    BY <1>2 DEF E!DetailInv
  <1>. QED  BY <1>1, <1>3, <1>4 DEF E!DetailInv, E!WellFormed, E!Saved, E!ToCome

\* A refresh of some games begins: none of them is stamped by it yet.
LEMMA BegunIsWell ==
  ASSUME NEW ids \in SUBSET FewGames, NEW new, new = [pc |-> "details", ids |-> ids, todo |-> ids, got |-> {}]
  PROVE  new \in E!Refreshes /\ E!WellFormed(new) /\ new # E!Resting /\ E!Saved(new) = {} /\ E!ToCome(new) = ids
  BY DEF E!Refreshes, E!WellFormed, E!Resting, E!Saved, E!ToCome

\* What the invariant says of one refresh.
LEMMA TaskFacts ==
  ASSUME E!DetailInv, NEW t \in E!Tasks
  PROVE  /\ v5[t] \in {E!Resting} \cup E!Refreshes /\ E!WellFormed(v5[t])
         /\ v5[t] # E!Resting => v5[t].ids \subseteq FewGames /\ v5[t].todo \subseteq v5[t].ids
         /\ v5[t].pc # "idle" => v5[t] # E!Resting
         /\ E!Job \in E!Tasks
  BY DEF E!DetailInv, E!Resting, E!Refreshes, E!WellFormed, E!Tasks

LEMMA DetailsBegin ==
  ASSUME E!EnrichInv, NEW v \in Views, NEW g \in FewGames, E!EnsureDetails(v, g) PROVE E!EnrichInv'
  <1>1. /\ v5[v] = E!Resting /\ v \in E!Tasks
        /\ UNCHANGED <<v1, v2, v3, v4, v7, v8, v10, v11>>
    BY DEF E!EnsureDetails, E!Tasks, E!rankVars
  <1>2. PICK ids, new : ids = {g} /\ new = [pc |-> "details", ids |-> ids, todo |-> ids, got |-> {}]
    OBVIOUS
  <1>3. v5' = [v5 EXCEPT ![v] = new] /\ ids \in SUBSET FewGames
    BY <1>2 DEF E!EnsureDetails, E!Begin
  <1>4. new \in E!Refreshes /\ E!WellFormed(new) /\ new # E!Resting /\ E!Saved(v5[v]) = {} /\ E!ToCome(v5[v]) = {}
    <2>1. new \in E!Refreshes /\ E!WellFormed(new) /\ new # E!Resting
      BY <1>2, <1>3, BegunIsWell
    <2>2. E!Saved(v5[v]) = {} /\ E!ToCome(v5[v]) = {}
      BY <1>1 DEF E!Saved, E!ToCome, E!Resting
    <2>. QED  BY <2>1, <2>2
  <1>5. E!Job \in E!Tasks /\ v5'[E!Job] = IF E!Job = v THEN new ELSE v5[E!Job]
    BY <1>1, <1>3 DEF E!EnrichInv, E!DetailInv, E!Tasks
  <1>6. v5'[E!Job] = E!Resting => v10' = {}
    BY <1>1, <1>4, <1>5 DEF E!EnrichInv, E!DetailInv
  <1>7. \A h \in v10' : v3[h] = "fresh" \/ h \in E!ToCome(v5'[E!Job])
    <2>1. CASE E!Job = v
      <3>1. v10' = {}
        BY <1>1, <2>1 DEF E!EnrichInv, E!DetailInv
      <3>. QED  BY <3>1
    <2>2. CASE E!Job # v
      BY <1>1, <1>5, <2>2 DEF E!EnrichInv, E!DetailInv
    <2>. QED  BY <2>1, <2>2
  <1>8. v11 \subseteq FewGames /\ v10 \subseteq FewGames
    BY DEF E!EnrichInv, E!DetailInv
  <1>9. E!DetailInv'
    BY <1>1, <1>3, <1>4, <1>6, <1>7, <1>8, RefreshGoesOn DEF E!EnrichInv
  <1>. QED  BY <1>1, <1>9 DEF E!EnrichInv, E!RankInv

\* A full record of some games is stored: their score is 0 again.
LEMMA RecordsStored ==
  ASSUME E!RankInv, NEW gs \in SUBSET FewGames, E!Upserted(gs), UNCHANGED <<v2, v8>> PROVE E!RankInv'
  <1>1. v1' = v1 \cup gs /\ v7' = [g \in FewGames |-> IF g \in gs THEN 0 ELSE v7[g]]
    BY DEF E!Upserted
  <1>2. v7' \in E!Rankings
    BY <1>1 DEF E!RankInv, E!Rankings
  <1>. QED  BY <1>1, <1>2 DEF E!RankInv

LEMMA JobTakesBatch ==
  ASSUME E!EnrichInv, NEW ids \in SUBSET FewGames, NEW full \in SUBSET FewGames, E!NextBatch(ids, full)
  PROVE  E!EnrichInv'
  <1>1. /\ v5[E!Job] = E!Resting \/ v5[E!Job].pc = "next"
        /\ UNCHANGED <<v2, v3, v4, v8, v11>> /\ E!Upserted(full)
        /\ v10' = IF ids = {} THEN {} ELSE v10 \cup ids
    BY DEF E!NextBatch
  <1>2. E!RankInv'
    BY <1>1, RecordsStored DEF E!EnrichInv
  <1>3. E!Job \in E!Tasks /\ E!Saved(v5[E!Job]) = {} /\ E!ToCome(v5[E!Job]) = {}
    BY <1>1, TaskFacts DEF E!EnrichInv, E!Tasks, E!Saved, E!ToCome, E!WellFormed, E!Resting
  <1>4. PICK new : new = IF ids = {} THEN E!Resting ELSE [pc |-> "details", ids |-> ids, todo |-> ids, got |-> {}]
    OBVIOUS
  <1>5. v5' = [v5 EXCEPT ![E!Job] = new]
    BY <1>4 DEF E!NextBatch, E!Begin
  <1>6. /\ new \in {E!Resting} \cup E!Refreshes /\ E!WellFormed(new)
        /\ ids # {} => new # E!Resting /\ E!ToCome(new) = ids
    BY <1>4, BegunIsWell DEF E!WellFormed
  <1>7. v5'[E!Job] = new
    BY <1>3, <1>5 DEF E!EnrichInv, E!DetailInv
  <1>8. \A g \in v10 : v3[g] = "fresh"
    BY <1>3 DEF E!EnrichInv, E!DetailInv
  <1>9. v11 \subseteq FewGames /\ v10 \subseteq FewGames
    BY DEF E!EnrichInv, E!DetailInv
  <1>10. E!DetailInv
    BY DEF E!EnrichInv
  <1>11. v10' \subseteq FewGames /\ (v5'[E!Job] = E!Resting => v10' = {})
    BY <1>1, <1>6, <1>7, <1>9
  <1>12. \A g \in v10' : v3[g] = "fresh" \/ g \in E!ToCome(v5'[E!Job])
    BY <1>1, <1>6, <1>7, <1>8
  <1>13. E!DetailInv'
    BY <1>1, <1>3, <1>5, <1>6, <1>9, <1>10, <1>11, <1>12, RefreshGoesOn
  <1>. QED  BY <1>2, <1>13 DEF E!EnrichInv

LEMMA DetailsCome ==
  ASSUME E!EnrichInv, NEW t \in E!Tasks, NEW returned \in SUBSET FewGames, E!GotDetails(t, returned)
  PROVE  E!EnrichInv'
  <1>1. v5[t].pc = "details" /\ UNCHANGED <<v1, v2, v3, v4, v7, v8, v10, v11>>
    BY DEF E!GotDetails, E!rankVars
  <1>2. v5[t] \in E!Refreshes /\ v5[t] # E!Resting /\ E!WellFormed(v5[t])
    BY <1>1, TaskFacts DEF E!EnrichInv, E!Resting
  <1>3. PICK new : new = [[v5[t] EXCEPT !.pc = "save"] EXCEPT !.got = returned]
    OBVIOUS
  <1>4. v5' = [v5 EXCEPT ![t] = new]
    BY <1>2, <1>3 DEF E!GotDetails, E!Refreshes, E!EnrichInv, E!DetailInv
  <1>5. new \in E!Refreshes /\ new.pc = "save" /\ new.ids = v5[t].ids /\ new.todo = v5[t].todo
    BY <1>2, <1>3 DEF E!Refreshes
  <1>6. new # E!Resting /\ E!WellFormed(new) /\ E!Saved(new) = E!Saved(v5[t]) /\ E!ToCome(new) = E!ToCome(v5[t])
    BY <1>2, <1>5 DEF E!Resting, E!WellFormed, E!Saved, E!ToCome
  <1>7. E!Job \in E!Tasks /\ v5'[E!Job] = IF E!Job = t THEN new ELSE v5[E!Job]
    BY <1>4 DEF E!EnrichInv, E!DetailInv, E!Tasks
  <1>8. /\ v11 \subseteq FewGames /\ v10 \subseteq FewGames /\ E!DetailInv
        /\ v5'[E!Job] = E!Resting => v10' = {}
        /\ \A g \in v10' : v3[g] = "fresh" \/ g \in E!ToCome(v5'[E!Job])
    BY <1>1, <1>2, <1>6, <1>7 DEF E!EnrichInv, E!DetailInv
  <1>9. E!DetailInv'
    BY <1>1, <1>4, <1>5, <1>6, <1>8, RefreshGoesOn
  <1>. QED  BY <1>1, <1>9 DEF E!EnrichInv, E!RankInv

LEMMA DetailsSaved ==
  ASSUME E!EnrichInv, NEW t \in E!Tasks, NEW g \in FewGames, NEW stored \in BOOLEAN, E!SaveDetails(t, g, stored) PROVE E!EnrichInv'
  <1>1. /\ v5[t].pc = "save" /\ g \in v5[t].todo
        /\ v3' = (IF stored THEN [v3 EXCEPT ![g] = "fresh"] ELSE v3)
        /\ v4' = (IF stored THEN [v4 EXCEPT ![g] = FALSE] ELSE v4)
        /\ v10' = (IF t = E!Job /\ ~stored THEN v10 \ {g} ELSE v10)
        /\ UNCHANGED <<v1, v2, v7, v8, v11>>
    BY DEF E!SaveDetails, E!SaveStep, E!rankVars
  <1>2. v5[t] \in E!Refreshes /\ v5[t] # E!Resting /\ E!WellFormed(v5[t])
    BY <1>1, TaskFacts DEF E!EnrichInv, E!Resting
  <1>3. PICK pc \in {"save", "times"} : pc = IF v5[t].todo = {g} THEN "times" ELSE "save"
    OBVIOUS
  <1>4. PICK new : new = [[v5[t] EXCEPT !.todo = v5[t].todo \ {g}] EXCEPT !.pc = pc]
    OBVIOUS
  <1>5. v5' = [v5 EXCEPT ![t] = new]
    BY <1>2, <1>3, <1>4 DEF E!SaveDetails, E!SaveStep, E!Refreshes, E!EnrichInv, E!DetailInv
  <1>6. /\ new \in E!Refreshes /\ new.pc = pc /\ new.ids = v5[t].ids /\ new.todo = v5[t].todo \ {g}
        /\ pc = "times" => new.todo = {}
    BY <1>2, <1>3, <1>4 DEF E!Refreshes
  <1>7. /\ new # E!Resting /\ E!WellFormed(new)
        /\ E!Saved(new) = E!Saved(v5[t]) \cup {g} /\ E!ToCome(new) = E!ToCome(v5[t]) \ {g}
    BY <1>1, <1>2, <1>6 DEF E!Resting, E!WellFormed, E!Saved, E!ToCome
  <1>8. /\ v3 \in [FewGames -> {"never", "old", "week", "fresh"}] /\ v4 \in [FewGames -> BOOLEAN]
        /\ v5 \in [E!Tasks -> {E!Resting} \cup E!Refreshes] /\ \A u \in E!Tasks : E!WellFormed(v5[u])
        /\ E!Job \in E!Tasks
    BY DEF E!EnrichInv, E!DetailInv, E!Tasks
  <1>9. v5'[t] = new /\ \A u \in E!Tasks \ {t} : v5'[u] = v5[u]
    BY <1>5, <1>8
  <1>10. /\ v3'[g] = (IF stored THEN "fresh" ELSE v3[g])
         /\ \A h \in FewGames \ {g} : v3'[h] = v3[h] /\ v4'[h] = v4[h]
    BY <1>1, <1>8
  <1>11. v5' \in [E!Tasks -> {E!Resting} \cup E!Refreshes] /\ \A u \in E!Tasks : E!WellFormed(v5'[u])
    BY <1>5, <1>6, <1>7, <1>8, <1>9
  <1>12. v3' \in [FewGames -> {"never", "old", "week", "fresh"}] /\ v4' \in [FewGames -> BOOLEAN]
    BY <1>1, <1>8
  <1>13. v5'[E!Job] = E!Resting => v10' = {}
    BY <1>1, <1>7, <1>8, <1>9 DEF E!EnrichInv, E!DetailInv
  <1>14. \A h \in v10' : v3'[h] = "fresh" \/ h \in E!ToCome(v5'[E!Job])
    BY <1>1, <1>7, <1>8, <1>9, <1>10 DEF E!EnrichInv, E!DetailInv
  <1>15. \A h \in FewGames : v3'[h] # "never" => v4'[h] \/ h \in v11' \/ \E u \in E!Tasks : h \in E!Saved(v5'[u])
    BY <1>1, <1>7, <1>9, <1>10 DEF E!EnrichInv, E!DetailInv
  <1>16. E!DetailInv'
    BY <1>1, <1>11, <1>12, <1>13, <1>14, <1>15 DEF E!EnrichInv, E!DetailInv, E!WellFormed, E!Saved, E!ToCome
  <1>. QED  BY <1>1, <1>16 DEF E!EnrichInv, E!RankInv

LEMMA TimesSaved ==
  ASSUME E!EnrichInv, NEW t \in E!Tasks, E!SaveTimesToBeat(t) PROVE E!EnrichInv'
  <1>1. /\ v5[t].pc = "times" /\ v4' = [g \in FewGames |-> v4[g] \/ g \in v5[t].ids]
        /\ v11' = v11 \ v5[t].ids /\ v5' = [v5 EXCEPT ![t] = E!After(t)]
        /\ UNCHANGED <<v1, v2, v3, v7, v8, v10>>
    BY DEF E!SaveTimesToBeat, E!rankVars
  <1>2. v5[t] \in E!Refreshes /\ v5[t] # E!Resting /\ v5[t].todo = {}
    BY <1>1, TaskFacts DEF E!EnrichInv, E!Resting, E!WellFormed
  <1>3. PICK new : new = E!After(t)
    OBVIOUS
  <1>4. /\ new \in {E!Resting} \cup E!Refreshes /\ E!WellFormed(new)
        /\ E!ToCome(v5[t]) = {} /\ (t = E!Job => new # E!Resting)
    BY <1>2, <1>3 DEF E!After, E!Refreshes, E!WellFormed, E!ToCome, E!Resting
  <1>5. /\ v3 \in [FewGames -> {"never", "old", "week", "fresh"}] /\ v4 \in [FewGames -> BOOLEAN]
        /\ v5 \in [E!Tasks -> {E!Resting} \cup E!Refreshes] /\ \A u \in E!Tasks : E!WellFormed(v5[u])
        /\ E!Job \in E!Tasks
    BY DEF E!EnrichInv, E!DetailInv, E!Tasks
  <1>6. v5'[t] = new /\ \A u \in E!Tasks \ {t} : v5'[u] = v5[u]
    BY <1>1, <1>3, <1>5
  <1>7. v5' \in [E!Tasks -> {E!Resting} \cup E!Refreshes] /\ \A u \in E!Tasks : E!WellFormed(v5'[u])
    BY <1>1, <1>3, <1>4, <1>5, <1>6
  <1>8. v4' \in [FewGames -> BOOLEAN] /\ \A g \in FewGames : (v4[g] => v4'[g]) /\ (g \in v5[t].ids => v4'[g])
    BY <1>1, <1>5
  <1>9. v5'[E!Job] = E!Resting => v10' = {}
    BY <1>1, <1>4, <1>5, <1>6 DEF E!EnrichInv, E!DetailInv
  <1>10. \A g \in v10' : v3'[g] = "fresh" \/ g \in E!ToCome(v5'[E!Job])
    BY <1>1, <1>4, <1>5, <1>6 DEF E!EnrichInv, E!DetailInv
  <1>11. E!Saved(v5[t]) \subseteq v5[t].ids
    BY <1>2 DEF E!Saved
  <1>12. \A g \in FewGames : v3'[g] # "never" => v4'[g] \/ g \in v11' \/ \E u \in E!Tasks : g \in E!Saved(v5'[u])
    BY <1>1, <1>6, <1>8, <1>11 DEF E!EnrichInv, E!DetailInv
  <1>13. E!DetailInv'
    BY <1>1, <1>5, <1>7, <1>8, <1>9, <1>10, <1>12 DEF E!EnrichInv, E!DetailInv, E!WellFormed, E!Saved, E!ToCome
  <1>. QED  BY <1>1, <1>13 DEF E!EnrichInv, E!RankInv

LEMMA RefreshCut ==
  ASSUME E!EnrichInv, NEW t \in E!Tasks, E!GiveUp(t) PROVE E!EnrichInv'
  <1>1. /\ v5[t] # E!Resting /\ v5' = [v5 EXCEPT ![t] = E!Resting]
        /\ v10' = IF t = E!Job THEN {} ELSE v10
        /\ UNCHANGED <<v1, v2, v3, v4, v7, v8>>
    BY DEF E!GiveUp, E!rankVars
  <1>2. /\ v5[t] \in E!Refreshes /\ E!WellFormed(v5[t]) /\ v11 \subseteq FewGames /\ v10 \subseteq FewGames
        /\ v5[t].ids \subseteq FewGames /\ E!Job \in E!Tasks /\ E!DetailInv
    BY <1>1, TaskFacts DEF E!EnrichInv, E!DetailInv
  <1>3. v5[t].pc \in {"details", "save", "times", "next"}
    BY <1>2 DEF E!Refreshes
  <1>4. v11 \subseteq v11' /\ v11' \subseteq FewGames /\ E!Saved(v5[t]) \subseteq v11'
    BY <1>1, <1>2, <1>3 DEF E!GiveUp, E!Saved, E!WellFormed
  <1>5. v5'[E!Job] = IF E!Job = t THEN E!Resting ELSE v5[E!Job]
    BY <1>1, <1>2 DEF E!DetailInv
  <1>6. /\ v10' \subseteq FewGames /\ (v5'[E!Job] = E!Resting => v10' = {})
        /\ \A g \in v10' : v3[g] = "fresh" \/ g \in E!ToCome(v5'[E!Job])
    BY <1>1, <1>2, <1>5 DEF E!DetailInv
  <1>7. E!WellFormed(E!Resting)
    BY DEF E!WellFormed
  <1>8. E!DetailInv'
    BY <1>1, <1>2, <1>4, <1>6, <1>7, RefreshGoesOn
  <1>. QED  BY <1>1, <1>8 DEF E!EnrichInv, E!RankInv

LEMMA EnrichStep ==
  ASSUME E!EnrichInv, E!EnrichNext PROVE E!EnrichInv'
  <1>1. CASE \E v \in Views, g \in FewGames : E!EnsureDetails(v, g)
    BY <1>1, DetailsBegin
  <1>2. CASE \E ids, full \in SUBSET FewGames : E!NextBatch(ids, full)
    BY <1>2, JobTakesBatch
  <1>3. CASE \E t \in E!Tasks : E!SaveTimesToBeat(t) \/ E!GiveUp(t)
    BY <1>3, TimesSaved, RefreshCut
  <1>4. CASE \E t \in E!Tasks, returned \in SUBSET FewGames : E!GotDetails(t, returned)
    BY <1>4, DetailsCome
  <1>5. CASE \E t \in E!Tasks, g \in FewGames, stored \in BOOLEAN : E!SaveDetails(t, g, stored)
    BY <1>5, DetailsSaved
  <1>6. ASSUME E!RankInv', UNCHANGED E!detailVars PROVE E!EnrichInv'
    BY <1>6 DEF E!EnrichInv, E!DetailInv, E!detailVars, E!WellFormed, E!Saved, E!ToCome
  <1>7. CASE \E list \in E!Rankings : E!GetPopular(list)
    <2>. PICK list \in E!Rankings : E!GetPopular(list)
      BY <1>7
    <2>1. /\ v8' = [pc |-> "list", kind |-> IF v8 = E!Resting THEN 1 ELSE v8.kind, list |-> list]
          /\ UNCHANGED <<v1, v2, v7, E!detailVars>>
      BY DEF E!GetPopular
    <2>2. v8'.list = list
      BY <2>1
    <2>3. E!RankInv'
      BY <2>1, <2>2 DEF E!EnrichInv, E!RankInv
    <2>. QED  BY <1>6, <2>1, <2>3
  <1>8. CASE \E found \in SUBSET FewGames : E!SavePopularity(found)
    <2>. PICK found \in SUBSET FewGames : E!SavePopularity(found)
      BY <1>8
    <2>. DEFINE named == {g \in FewGames : v8.list[g] > 0}
    <2>1. /\ v8.pc = "list" /\ v1' = v1 \cup found /\ UNCHANGED <<v2, E!detailVars>>
          /\ v7' \in {v7, [g \in FewGames |-> IF g \in named \cap v1' THEN v8.list[g] ELSE v7[g]]}
          /\ v8' = E!Resting \/ v8'.list = v8.list
      BY DEF E!SavePopularity
    <2>2. v8.list \in E!Rankings /\ v7 \in E!Rankings
      BY <2>1 DEF E!EnrichInv, E!RankInv, E!Resting
    <2>3. v7' \in E!Rankings
      BY <2>1, <2>2 DEF E!Rankings
    <2>4. E!RankInv'
      BY <2>1, <2>2, <2>3 DEF E!EnrichInv, E!RankInv
    <2>. QED  BY <1>6, <2>1, <2>4
  <1>9. CASE E!PopularityFails
    BY <1>6, <1>9 DEF E!PopularityFails, E!EnrichInv, E!RankInv
  <1>10. ASSUME NEW g \in FewGames, E!UpsertElsewhere(g) PROVE E!EnrichInv'
    <2>1. E!Upserted({g}) /\ UNCHANGED <<v2, v8, E!detailVars>> /\ {g} \in SUBSET FewGames
      BY <1>10 DEF E!UpsertElsewhere
    <2>2. E!RankInv'
      BY <2>1, RecordsStored DEF E!EnrichInv
    <2>. QED  BY <1>6, <2>1, <2>2
  <1>11. ASSUME NEW g \in FewGames, E!Own(g) PROVE E!EnrichInv'
    <2>1. v2' = v2 \cup {g} /\ g \in v1 /\ UNCHANGED <<v1, v7, v8, E!detailVars>>
      BY <1>11 DEF E!Own, E!rankVars
    <2>2. E!RankInv'
      BY <2>1 DEF E!EnrichInv, E!RankInv
    <2>. QED  BY <1>6, <2>1, <2>2
  <1>12. ASSUME NEW g \in FewGames, E!Age(g) PROVE E!EnrichInv'
    <2>1. /\ v3[g] \in {"fresh", "week"} /\ \A t \in E!Tasks : v5[t] = E!Resting
          /\ UNCHANGED <<v1, v2, v4, v5, v7, v8, v10, v11>>
          /\ v3' = [v3 EXCEPT ![g] = IF v3[g] = "fresh" THEN "week" ELSE "old"]
      BY <1>12 DEF E!Age, E!rankVars
    <2>2. v3 \in [FewGames -> {"never", "old", "week", "fresh"}] /\ v10 = {}
      BY <2>1 DEF E!EnrichInv, E!DetailInv, E!Tasks
    <2>3. /\ v3' \in [FewGames -> {"never", "old", "week", "fresh"}]
          /\ \A h \in FewGames : v3'[h] # "never" => v3[h] # "never"
      BY <2>1, <2>2
    <2>4. E!DetailInv'
      BY <2>1, <2>2, <2>3 DEF E!EnrichInv, E!DetailInv, E!WellFormed, E!Saved, E!ToCome
    <2>. QED  BY <2>1, <2>4 DEF E!EnrichInv, E!RankInv
  <1>. QED  BY <1>1, <1>2, <1>3, <1>4, <1>5, <1>7, <1>8, <1>9, <1>10, <1>11, <1>12 DEF E!EnrichNext, E!Rankings

LEMMA EnrichSafe == ASSUME E!EnrichInv PROVE E!TakenOnce /\ E!TimesFollowDetails /\ E!EnrichTypeOK
  <1>1. E!TakenOnce
    <2>. SUFFICES ASSUME v5[E!Job].pc = "next" PROVE \A g \in v10 : v3[g] = "fresh"
      BY DEF E!TakenOnce
    <2>1. E!ToCome(v5[E!Job]) = {}
      BY TaskFacts DEF E!EnrichInv, E!ToCome, E!WellFormed, E!Tasks
    <2>. QED  BY <2>1 DEF E!EnrichInv, E!DetailInv
  <1>2. \A t \in E!Tasks : \A g \in E!Saved(v5[t]) : v5[t] # E!Resting /\ g \in v5[t].ids
    BY DEF E!Saved
  <1>3. E!TimesFollowDetails
    BY <1>2 DEF E!EnrichInv, E!DetailInv, E!TimesFollowDetails
  <1>4. \A t \in E!Tasks : v5[t].pc \in {"idle", "details", "save", "times", "next"}
    BY TaskFacts DEF E!EnrichInv, E!Resting, E!Refreshes
  <1>5. \A g \in FewGames : v7[g] \in Scores \cup {0}
    BY DEF E!EnrichInv, E!RankInv, E!Rankings
  <1>6. \A g \in FewGames : v4[g] \in BOOLEAN
    BY DEF E!EnrichInv, E!DetailInv
  <1>. QED  BY <1>1, <1>3, <1>4, <1>5, <1>6 DEF E!EnrichInv, E!DetailInv, E!RankInv, E!EnrichTypeOK

-----------------------------------------------------------------------------
(* The delta sync: v1 is second, v2 updated, v3 version, v4 stored, v5      *)
(* deltaSince, v6 run, v7 edges and v8 shifted.                            *)

LEMMA GamesAreFinite == \A T \in SUBSET Games : IsFiniteSet(T) /\ Cardinality(T) \in Nat
  <1>. PICK n \in Nat : \A g \in Games : g \in Nat /\ g <= n
    BY GamesConstants
  <1>1. Games \subseteq 0..n
    OBVIOUS
  <1>2. IsFiniteSet(0..n)
    BY FS_Interval
  <1>. QED  BY <1>1, <1>2, FS_Subset, FS_CardinalityType

\* What stands before a game on the list.
Ahead(g) == {h \in D!Listed(v5) : D!Before(h, g)}

LEMMA PositionIs ==
  ASSUME NEW g \in Games
  PROVE  D!Position(g, v5) = Cardinality(Ahead(g)) /\ D!Position(g, v5) \in Nat /\ IsFiniteSet(Ahead(g))
  <1>1. Ahead(g) \in SUBSET Games
    BY DEF Ahead, D!Listed
  <1>. QED  BY <1>1, GamesAreFinite, DeltaCardinality DEF D!Position, Ahead

\* The list is in one order, and a position on it says who is before whom.
LEMMA PositionsOrder ==
  ASSUME v2 \in [Games -> Nat], NEW g \in D!Listed(v5), NEW h \in D!Listed(v5),
         D!Position(g, v5) < D!Position(h, v5)
  PROVE  D!Before(g, h) /\ v2[g] <= v2[h]
  <1>1. g \in Games /\ h \in Games /\ g \in Nat /\ h \in Nat /\ v2[g] \in Nat /\ v2[h] \in Nat
    BY GamesAreNumbers DEF D!Listed
  <1>2. SUFFICES ASSUME ~D!Before(g, h) PROVE FALSE
    BY <1>1 DEF D!Before
  <1>3. h = g \/ D!Before(h, g)
    BY <1>1, <1>2 DEF D!Before
  <1>4. Ahead(h) \subseteq Ahead(g)
    <2>. SUFFICES ASSUME NEW x \in Ahead(h) PROVE x \in Ahead(g)
      OBVIOUS
    <2>1. x \in D!Listed(v5) /\ D!Before(x, h) /\ x \in Nat /\ v2[x] \in Nat
      BY GamesAreNumbers DEF Ahead, D!Listed
    <2>2. D!Before(x, g)
      BY <1>1, <1>3, <2>1 DEF D!Before
    <2>. QED  BY <2>1, <2>2 DEF Ahead
  <1>5. Cardinality(Ahead(h)) <= Cardinality(Ahead(g))
    BY <1>1, <1>4, PositionIs, FS_Subset
  <1>. QED  BY <1>1, <1>5, PositionIs

\* A full page is as long a list as all pages up to it.
LEMMA FullPage ==
  ASSUME v2 \in [Games -> Nat], NEW n \in Nat, NEW P, P = D!GetUpdatedSince(v5, n), Cardinality(P) >= PageSize
  PROVE  Cardinality(D!Listed(v5)) >= n + PageSize
  <1>1. /\ P \subseteq D!Listed(v5) /\ D!Listed(v5) \subseteq Games
        /\ \A g \in P : D!Position(g, v5) >= n
    BY DEF D!GetUpdatedSince, D!Listed
  <1>2. P # {}
    BY FS_EmptySet, DeltaConstants
  <1>. DEFINE at == {D!Position(g, v5) : g \in P}
  <1>3. at \subseteq Nat /\ at # {}
    BY <1>1, <1>2, PositionIs
  <1>4. PICK k \in at : \A j \in at : j >= k
    <2>. DEFINE R == OpToRel(<, Nat)
    <2>1. IsWellFoundedOn(R, Nat)
      BY NatLessThanWellFounded, Zenon
    <2>2. \A x, y \in Nat : y < x => <<y, x>> \in R
      BY DEF OpToRel
    <2>. HIDE DEF R, at
    <2>3. PICK k \in at : \A j \in at : ~(<<j, k>> \in R)
      BY <1>3, <2>1, WFMin
    <2>4. k \in Nat /\ \A j \in at : j \in Nat /\ ~(j < k)
      BY <1>3, <2>2, <2>3
    <2>. QED  BY <2>4
  <1>5. PICK m \in P : k = D!Position(m, v5)
    BY <1>4
  <1>6. m \in Games /\ \A g \in P : D!Position(m, v5) <= D!Position(g, v5)
    BY <1>1, <1>4, <1>5
  <1>7. Ahead(m) \cap P = {}
    <2>. SUFFICES ASSUME NEW g \in P, D!Before(g, m) PROVE FALSE
      BY DEF Ahead
    <2>1. g \in Nat /\ m \in Nat /\ v2[g] \in Nat /\ v2[m] \in Nat /\ g \in Games
      BY <1>1, <1>6, GamesAreNumbers
    <2>2. Ahead(g) \subseteq Ahead(m) /\ g \in Ahead(m) /\ g \notin Ahead(g)
      <3>1. \A x \in Ahead(g) : D!Before(x, m)
        <4>. TAKE x \in Ahead(g)
        <4>1. x \in Nat /\ v2[x] \in Nat /\ D!Before(x, g)
          BY GamesAreNumbers DEF Ahead, D!Listed
        <4>. QED  BY <2>1, <4>1 DEF D!Before
      <3>2. ~D!Before(g, g)
        BY <2>1 DEF D!Before
      <3>. QED  BY <1>1, <3>1, <3>2 DEF Ahead
    <2>3. Cardinality(Ahead(g)) < Cardinality(Ahead(m))
      BY <1>6, <2>1, <2>2, PositionIs, FS_Subset
    <2>4. D!Position(g, v5) = Cardinality(Ahead(g)) /\ D!Position(m, v5) = Cardinality(Ahead(m))
          /\ D!Position(g, v5) \in Nat /\ D!Position(m, v5) \in Nat
      BY <1>6, <2>1, PositionIs
    <2>. QED  BY <1>6, <2>3, <2>4
  <1>8. IsFiniteSet(P) /\ Cardinality(P) \in Nat /\ IsFiniteSet(Ahead(m)) /\ Cardinality(Ahead(m)) >= n
    <2>1. P \in SUBSET Games
      BY <1>1
    <2>2. D!Position(m, v5) >= n
      BY <1>1, <1>5
    <2>. QED  BY <1>6, <2>1, <2>2, GamesAreFinite, PositionIs
  <1>9. Cardinality(Ahead(m) \cup P) = Cardinality(Ahead(m)) + Cardinality(P)
    <2>1. \A S, T : IsFiniteSet(S) /\ IsFiniteSet(T) =>
            Cardinality(S \cup T) = Cardinality(S) + Cardinality(T) - Cardinality(S \cap T)
      BY FS_Union
    <2>2. Cardinality(Ahead(m) \cup P) = Cardinality(Ahead(m)) + Cardinality(P) - Cardinality(Ahead(m) \cap P)
      BY <1>8, <2>1
    <2>3. Cardinality(Ahead(m) \cap P) = 0 /\ Cardinality(Ahead(m)) \in Nat
      BY <1>7, <1>8, FS_EmptySet, FS_CardinalityType
    <2>. QED  BY <1>8, <2>2, <2>3
  <1>10. Cardinality(Ahead(m) \cup P) <= Cardinality(D!Listed(v5))
    <2>1. Ahead(m) \cup P \subseteq D!Listed(v5) /\ IsFiniteSet(D!Listed(v5))
      BY <1>1, GamesAreFinite DEF Ahead
    <2>. QED  BY <2>1, FS_Subset
  <1>11. Cardinality(D!Listed(v5)) \in Nat /\ Cardinality(Ahead(m)) \in Nat
    BY <1>1, <1>8, GamesAreFinite, FS_CardinalityType
  <1>. QED  BY <1>8, <1>9, <1>10, <1>11, DeltaConstants

LEMMA DeltaStart == ASSUME D!DeltaInit PROVE D!DeltaInv
  <1>1. /\ v1 = 1 /\ v5 = 0 /\ v6 = D!Resting /\ v7 = {} /\ v8 = {}
        /\ v2 \in [Games -> Nat] /\ v3 \in [Games -> Nat] /\ v4 \in [Games -> Nat]
        /\ \A g \in Games : v2[g] = 0 /\ v3[g] = 0 /\ v4[g] = 0
    BY DEF D!DeltaInit
  <1>2. D!DeltaTypeOK
    BY <1>1, DeltaConstants DEF D!DeltaTypeOK
  <1>3. D!DeltaComplete
    BY <1>1 DEF D!DeltaComplete, D!Missed
  <1>. QED  BY <1>1, <1>2, <1>3 DEF D!DeltaInv

\* What a run is, when one is on.
LEMMA RunFacts ==
  ASSUME D!DeltaInv, v6 # D!Resting
  PROVE  /\ v6 \in D!Runs /\ v6.pc \in {"page", "save"} /\ v6.page \in Nat /\ v6.newest \in Nat
         /\ v6.moved \in BOOLEAN /\ v6.since = v5 /\ v5 <= v6.newest /\ v6.newest <= v1
         /\ v6 = [pc |-> v6.pc, since |-> v6.since, page |-> v6.page, newest |-> v6.newest, moved |-> v6.moved]
  BY DEF D!DeltaInv, D!Runs

LEMMA DeltaStartRun == ASSUME D!DeltaInv, D!StartRun PROVE D!DeltaInv'
  <1>1. /\ UNCHANGED <<v1, v2, v3, v4, v5, v7, v8>> /\ v6' \in D!Runs /\ v5 \in Nat
        /\ v6'.pc = "page" /\ v6'.since = v5 /\ v6'.page = 0 /\ v6'.newest = v5 /\ v6'.moved = FALSE
    BY DeltaConstants DEF D!StartRun, D!DeltaInv, D!DeltaTypeOK, D!Runs
  <1>2. D!DeltaTypeOK' /\ D!DeltaComplete' /\ v5 <= v1
    BY <1>1 DEF D!DeltaInv, D!DeltaTypeOK, D!DeltaComplete, D!Missed
  <1>3. \A g \in D!Listed(v5)' : ~(v2'[g] < v5) /\ g \in Games
    BY <1>1 DEF D!Listed, D!DeltaInv
  <1>4. \A g \in Games : D!Position(g, v5) \in Nat
    BY PositionIs
  <1>5. \A g \in Games : D!Position(g, v5)' = D!Position(g, v5)
    BY <1>1 DEF D!Position, D!Listed, D!Before
  <1>6. D!Passed'
    <2>1. v6'.page * PageSize = 0
      BY <1>1, DeltaConstants
    <2>2. \A g \in D!Listed(v5)' : ~(D!Position(g, v5)' < v6'.page * PageSize)
      BY <1>3, <1>4, <1>5, <2>1
    <2>. QED  BY <1>1, <2>2 DEF D!Passed
  <1>. QED  BY <1>1, <1>2, <1>3, <1>6 DEF D!DeltaInv

\* What is stored of a page, whole or in part, is as it is at IGDB: games that
\* were accounted for still are, and the next run's start misses no more.
LEMMA Upserts ==
  ASSUME D!DeltaInv, UNCHANGED <<v1, v2, v3, v5, v8>>, NEW P \in SUBSET Games, v7 \subseteq v7',
         v7' \subseteq 0..MaxSecond,
         v4' = [g \in Games |-> IF g \in P THEN v3[g] ELSE v4[g]]
  PROVE  /\ D!DeltaTypeOK' /\ D!DeltaComplete' /\ v4' \in [Games -> Nat]
         /\ v2' \in [Games -> Nat] /\ v3' \in [Games -> Nat]
         /\ v5' <= v1' /\ (v5' = 0 \/ v5' \in v7')
         /\ \A g \in Games : D!Accounted(g) \/ g \in P => D!Accounted(g)'
         /\ \A g \in Games : v4[g] = v3[g] => v4'[g] = v3'[g]
  <1>1. \A g \in Games : v4'[g] = IF g \in P THEN v3[g] ELSE v4[g]
    OBVIOUS
  <1>2. \A g \in Games : v3[g] \in Nat /\ v4[g] \in 0..v3[g] /\ v2[g] \in 0..v1
    BY DEF D!DeltaInv, D!DeltaTypeOK
  <1>3. \A g \in Games : v4'[g] \in 0..v3[g] /\ v4'[g] \in Nat
    BY <1>1, <1>2
  <1>4. D!DeltaTypeOK' /\ v4' \in [Games -> Nat]
    BY <1>2, <1>3 DEF D!DeltaInv, D!DeltaTypeOK
  <1>5. \A g \in Games : D!Accounted(g) \/ g \in P => D!Accounted(g)'
    BY <1>1 DEF D!Accounted
  <1>6. D!DeltaComplete'
    BY <1>1 DEF D!DeltaComplete, D!Missed, D!DeltaInv
  <1>. QED  BY <1>1, <1>4, <1>5, <1>6 DEF D!DeltaInv

LEMMA DeltaFail ==
  ASSUME D!DeltaInv, NEW some \in SUBSET Games, D!Fail(some)
  PROVE  D!DeltaInv'
  <1>1. UNCHANGED <<v1, v2, v3, v5, v7, v8>> /\ v6' = D!Resting
        /\ v4' = [g \in Games |-> IF g \in some THEN v3[g] ELSE v4[g]]
    BY DEF D!Fail
  <1>2. v7 \subseteq v7' /\ v7' \subseteq 0..MaxSecond
    BY <1>1 DEF D!DeltaInv, D!DeltaTypeOK
  <1>. QED  BY <1>1, <1>2, Upserts DEF D!DeltaInv

LEMMA DeltaSave == ASSUME D!DeltaInv, D!Save PROVE D!DeltaInv'
  <1>1. /\ v6.pc = "save" /\ v6' = D!Resting /\ UNCHANGED <<v1, v2, v3, v4, v8>>
        /\ v5' = v6.newest /\ v7' = v7 \cup {v6.newest}
    BY DEF D!Save
  <1>2. v6 # D!Resting
    BY <1>1 DEF D!Resting
  <1>3. v6.newest \in Nat /\ v5 <= v6.newest /\ v6.newest <= v1 /\ v6.moved \in BOOLEAN /\ v1 \in 1..MaxSecond /\ v5 \in Nat
    BY <1>2, RunFacts, DeltaConstants DEF D!DeltaInv, D!DeltaTypeOK
  <1>4. D!DeltaTypeOK'
    <2>1. v5' \in 0..MaxSecond
      BY <1>1, <1>3, DeltaConstants
    <2>. QED  BY <1>1, <2>1 DEF D!DeltaInv, D!DeltaTypeOK
  <1>5. ASSUME NEW g \in Games, v2[g] <= v6.newest, v4[g] # v3[g] PROVE v2[g] \in v7' \/ g \in v8
    <2>0. v2[g] \in Nat
      BY DEF D!DeltaInv
    <2>1. CASE v2[g] <= v5
      BY <1>1, <1>5, <2>1 DEF D!DeltaInv, D!DeltaComplete, D!Missed
    <2>2. CASE ~(v2[g] <= v5)
      <3>1. g \in D!Listed(v5)
        BY <1>3, <2>0, <2>2 DEF D!Listed
      <3>2. v6.moved => g \in v8
        BY <1>2, <1>5, <3>1 DEF D!DeltaInv
      <3>3. ~v6.moved /\ v2[g] < v6.newest => D!Accounted(g)
        BY <1>2, <3>1 DEF D!DeltaInv
      <3>4. v2[g] < v6.newest \/ v2[g] = v6.newest
        BY <1>3, <1>5, <2>0
      <3>. QED  BY <1>1, <1>3, <1>5, <3>2, <3>3, <3>4 DEF D!Accounted
    <2>. QED  BY <2>1, <2>2
  <1>6. D!DeltaComplete'
    BY <1>1, <1>5 DEF D!DeltaComplete, D!Missed
  <1>. QED  BY <1>1, <1>3, <1>4, <1>6 DEF D!DeltaInv

LEMMA DeltaTick == ASSUME D!DeltaInv, D!Tick PROVE D!DeltaInv'
  <1>1. v1 < MaxSecond /\ v1' = v1 + 1 /\ UNCHANGED <<v2, v3, v4, v5, v6, v7, v8>>
    BY DEF D!Tick
  <1>2. v1 \in 1..MaxSecond /\ v1 \in Nat /\ v1' \in 1..MaxSecond /\ \A n \in Nat : n <= v1 => n <= v1'
    BY <1>1, DeltaConstants DEF D!DeltaInv, D!DeltaTypeOK
  <1>3. D!DeltaTypeOK'
    BY <1>1, <1>2 DEF D!DeltaInv, D!DeltaTypeOK
  <1>4. D!DeltaComplete' /\ \A g : D!Accounted(g)' <=> D!Accounted(g)
    BY <1>1 DEF D!DeltaInv, D!DeltaComplete, D!Missed, D!Accounted
  <1>5. D!Listed(v5)' = D!Listed(v5)
    BY <1>1 DEF D!Listed
  <1>6. \A g : D!Position(g, v5)' = D!Position(g, v5)
    BY <1>1 DEF D!Position, D!Listed, D!Before
  <1>7. \A t \in v7 : t \in Nat
    BY DEF D!DeltaInv, D!DeltaTypeOK
  <1>8. D!Passed => D!Passed'
    BY <1>1, <1>2, <1>4, <1>5, <1>6, <1>7 DEF D!Passed
  <1>9. v5 \in Nat /\ (v6 # D!Resting => v6.newest \in Nat)
    BY RunFacts DEF D!DeltaInv, D!DeltaTypeOK
  <1>10. v6' = D!Resting \/ v6' \in D!Runs
    BY <1>1 DEF D!DeltaInv
  <1>11. v6' # D!Resting => v6'.since = v5' /\ v5' <= v6'.newest /\ v6'.newest <= v1'
    BY <1>1, <1>2, <1>9, RunFacts
  <1>. QED  BY <1>1, <1>2, <1>3, <1>4, <1>5, <1>8, <1>9, <1>10, <1>11 DEF D!DeltaInv

LEMMA DeltaPage == ASSUME D!DeltaInv, D!Page PROVE D!DeltaInv'
  <1>1. PICK P : P = D!GetUpdatedSince(v5, v6.page * PageSize)
    OBVIOUS
  <1>2. v6.pc = "page" /\ v6 # D!Resting /\ v6.since = v5
    BY RunFacts DEF D!Page, D!Resting
  <1>3. PICK n : n = D!Max({v6.newest} \cup {v2[g] : g \in P})
    OBVIOUS
  <1>4. PICK pc \in {"page", "save"} : v6' = [v6 EXCEPT !.newest = n, !.page = v6.page + 1, !.pc = pc]
                                       /\ (pc = "page" => ~(Cardinality(P) < PageSize))
    BY <1>1, <1>2, <1>3, DeltaCardinality DEF D!Page
  <1>5. /\ UNCHANGED <<v1, v2, v3, v5, v8>> /\ v7' = v7 \cup {v1}
        /\ v4' = [g \in Games |-> IF g \in P THEN v3[g] ELSE v4[g]]
    BY <1>1, <1>2 DEF D!Page
  <1>6. /\ v6.newest \in Nat /\ v5 <= v6.newest /\ v6.newest <= v1 /\ v6.page \in Nat /\ v6.moved \in BOOLEAN
        /\ v1 \in 1..MaxSecond /\ v1 \in Nat /\ v5 \in Nat
    BY <1>2, RunFacts, DeltaConstants DEF D!DeltaInv, D!DeltaTypeOK
  <1>7. P \subseteq D!Listed(v5) /\ P \in SUBSET Games /\ \A g \in D!Listed(v5) : g \in Games
    BY <1>1 DEF D!GetUpdatedSince, D!Listed
  <1>8. \A g \in Games : v2[g] \in Nat /\ v2[g] <= v1
    BY <1>6 DEF D!DeltaInv, D!DeltaTypeOK
  <1>9. PICK T : T = {v6.newest} \cup {v2[g] : g \in P}
    OBVIOUS
  <1>10. n \in T /\ \A y \in T : n >= y
    <2>1. T \subseteq 0..v1 /\ T # {}
      BY <1>6, <1>7, <1>8, <1>9
    <2>2. \E k \in T : \A y \in T : k >= y
      BY <1>6, <2>1, LastUpTo
    <2>3. n = CHOOSE k \in T : \A y \in T : k >= y
      BY <1>3, <1>9 DEF D!Max
    <2>. QED  BY <2>2, <2>3
  <1>11. n \in Nat /\ n >= v6.newest /\ n <= v1 /\ (n = v6.newest \/ \E h \in P : n = v2[h])
    BY <1>6, <1>7, <1>8, <1>9, <1>10
  <1>12. v7 \subseteq v7' /\ v7' \subseteq 0..MaxSecond
    BY <1>5, <1>6, DeltaConstants DEF D!DeltaInv, D!DeltaTypeOK
  <1>13. /\ D!DeltaTypeOK' /\ D!DeltaComplete' /\ v4' \in [Games -> Nat]
         /\ v2' \in [Games -> Nat] /\ v3' \in [Games -> Nat]
         /\ v5' <= v1' /\ (v5' = 0 \/ v5' \in v7')
         /\ \A g \in Games : D!Accounted(g) \/ g \in P => D!Accounted(g)'
         /\ \A g \in Games : v4[g] = v3[g] => v4'[g] = v3'[g]
    BY <1>5, <1>7, <1>12, Upserts
  <1>14. /\ v6'.newest = n /\ v6'.page = v6.page + 1 /\ v6'.pc = pc /\ v6'.since = v6.since /\ v6'.moved = v6.moved
         /\ v6' \in D!Runs
    <2>1. v6 \in D!Runs
      BY <1>2, RunFacts
    <2>2. v6' = [pc |-> pc, since |-> v6.since, page |-> v6.page + 1, newest |-> n, moved |-> v6.moved]
      BY <1>2, <1>4, RunFacts
    <2>3. v6.since \in Nat /\ v6.page + 1 \in Nat
      BY <1>2, <1>6
    <2>. QED  BY <1>6, <1>11, <2>2, <2>3 DEF D!Runs
  <1>15. D!Listed(v5)' = D!Listed(v5) /\ \A g : D!Position(g, v5)' = D!Position(g, v5)
    BY <1>5 DEF D!Position, D!Listed, D!Before
  <1>16. PICK from \in Nat : from = v6.page * PageSize /\ v6'.page * PageSize = from + PageSize
    BY <1>6, <1>14, DeltaConstants
  <1>17. \A g \in P : D!Position(g, v5) \in from..(from + PageSize - 1)
    BY <1>1, <1>16 DEF D!GetUpdatedSince
  <1>18. ASSUME ~v6.moved, NEW g \in D!Listed(v5), D!Position(g, v5) < from + PageSize
         PROVE  D!Accounted(g)'
    <2>0. D!Position(g, v5) \in Nat
      BY <1>7, PositionIs
    <2>1. CASE D!Position(g, v5) < from
      BY <1>2, <1>7, <1>13, <1>16, <1>18, <2>1 DEF D!DeltaInv, D!Passed
    <2>2. CASE ~(D!Position(g, v5) < from)
      <3>1. D!Position(g, v5) \in from..(from + PageSize - 1)
        BY <1>18, <2>0, <2>2, DeltaConstants
      <3>2. g \in P
        BY <1>1, <1>16, <3>1 DEF D!GetUpdatedSince
      <3>. QED  BY <1>7, <1>13, <3>2
    <2>. QED  BY <2>1, <2>2
  <1>19. ASSUME ~v6.moved, NEW g \in D!Listed(v5), v2[g] < n PROVE D!Accounted(g)'
    <2>1. CASE v2[g] < v6.newest
      BY <1>2, <1>7, <1>13, <1>19, <2>1 DEF D!DeltaInv
    <2>2. CASE ~(v2[g] < v6.newest)
      <3>1. PICK h \in P : n = v2[h]
        BY <1>11, <1>19, <2>2
      <3>2. ~(D!Position(h, v5) < D!Position(g, v5))
        <4>1. D!Position(h, v5) < D!Position(g, v5) => v2[h] <= v2[g]
          BY <1>7, PositionsOrder DEF D!DeltaInv
        <4>. QED  BY <1>7, <1>8, <1>19, <3>1, <4>1
      <3>3. D!Position(h, v5) \in from..(from + PageSize - 1) /\ D!Position(g, v5) \in Nat
        BY <1>7, <1>17, PositionIs
      <3>4. D!Position(g, v5) < from + PageSize
        BY <3>2, <3>3, DeltaConstants
      <3>. QED  BY <1>18, <1>19, <3>4
    <2>. QED  BY <2>1, <2>2
  <1>20. ASSUME ~v6.moved, pc = "page" PROVE D!Passed'
    <2>1. Cardinality(P) >= PageSize
      <3>1. ~(Cardinality(P) < PageSize) /\ Cardinality(P) \in Nat
        BY <1>4, <1>7, <1>20, GamesAreFinite
      <3>. QED  BY <3>1, DeltaConstants
    <2>2. Cardinality(D!Listed(v5)) >= from + PageSize
      BY <1>1, <1>16, <2>1, FullPage DEF D!DeltaInv
    <2>3. {g \in D!Listed(v5)' : v2'[g] <= v1} = D!Listed(v5)
      BY <1>5, <1>7, <1>8, <1>15
    <2>4. D!Cardinality({g \in D!Listed(v5)' : v2'[g] <= v1}) >= v6'.page * PageSize
      BY <1>16, <2>2, <2>3, DeltaCardinality
    <2>5. \A g \in D!Listed(v5)' : D!Position(g, v5)' < v6'.page * PageSize => D!Accounted(g)'
      BY <1>15, <1>16, <1>18, <1>20
    <2>6. v1 \in v7' /\ v1 <= v1'
      BY <1>5, <1>6
    <2>. QED  BY <1>5, <2>4, <2>5, <2>6 DEF D!Passed
  <1>21. v6'.since = v5' /\ v5' <= v6'.newest /\ v6'.newest <= v1'
    BY <1>2, <1>5, <1>6, <1>11, <1>14
  <1>22. v6'.moved => \A g \in D!Listed(v5)' : v4'[g] = v3'[g] \/ g \in v8'
    BY <1>2, <1>5, <1>7, <1>13, <1>14, <1>15 DEF D!DeltaInv
  <1>23. ~v6'.moved => \A g \in D!Listed(v5)' : v2'[g] < v6'.newest => D!Accounted(g)'
    BY <1>5, <1>14, <1>15, <1>19
  <1>24. ~v6'.moved /\ v6'.pc = "page" => D!Passed'
    BY <1>14, <1>20
  <1>. QED  BY <1>13, <1>14, <1>21, <1>22, <1>23, <1>24 DEF D!DeltaInv

\* The same of the list as it is after the step.
LEMMA PositionIsAfter ==
  ASSUME NEW g \in Games
  PROVE  D!Position(g, v5)' = Cardinality(Ahead(g)') /\ IsFiniteSet(Ahead(g)') /\ Cardinality(Ahead(g)') \in Nat
  <1>1. Ahead(g)' \in SUBSET Games
    BY DEF Ahead, D!Listed
  <1>. QED  BY <1>1, GamesAreFinite, DeltaCardinality DEF D!Position, Ahead

\* A change, of a game that is not on the list of the run or in no run: the
\* pages behind do not move, and the game joins behind those that were passed.
LEMMA ChangeStaysBehind ==
  ASSUME D!DeltaInv, v6 # D!Resting, D!Passed, NEW g \in Games, g \notin D!Listed(v5),
         v2' = [v2 EXCEPT ![g] = v1], v3' = [v3 EXCEPT ![g] = v3[g] + 1],
         UNCHANGED <<v1, v4, v5, v6, v7, v8>>
  PROVE  D!Passed'
  <1>1. /\ \A h \in Games : v2'[h] = (IF h = g THEN v1 ELSE v2[h]) /\ v2[h] \in Nat /\ v2[h] <= v1
        /\ \A h \in Games : h # g => v3'[h] = v3[h]
        /\ v1 \in Nat /\ v5 \in Nat /\ v7 \subseteq Nat /\ g \in Nat
    BY DeltaConstants, GamesAreNumbers DEF D!DeltaInv, D!DeltaTypeOK
  <1>2. /\ \A h \in D!Listed(v5) : h \in Games /\ h # g /\ h \in D!Listed(v5)'
        /\ \A h \in D!Listed(v5)' : h \in Games /\ (h # g => h \in D!Listed(v5))
    BY <1>1 DEF D!Listed
  <1>3. PICK m \in Nat : m = v6.page * PageSize /\ m = v6'.page * PageSize
    BY RunFacts, DeltaConstants
  <1>4. ASSUME NEW h \in D!Listed(v5), D!Position(h, v5)' < m PROVE D!Accounted(h)'
    <2>1. Ahead(h) \subseteq Ahead(h)'
      <3>. SUFFICES ASSUME NEW x \in Ahead(h) PROVE x \in Ahead(h)'
        OBVIOUS
      <3>1. x \in D!Listed(v5) /\ D!Before(x, h) /\ x # g /\ h # g /\ x \in Games /\ h \in Games
        BY <1>2 DEF Ahead
      <3>2. D!Before(x, h)'
        BY <1>1, <3>1 DEF D!Before
      <3>. QED  BY <1>2, <3>1, <3>2 DEF Ahead
    <2>2. D!Position(h, v5) = Cardinality(Ahead(h)) /\ D!Position(h, v5) \in Nat
      BY <1>2, PositionIs
    <2>3. D!Position(h, v5)' = Cardinality(Ahead(h)') /\ IsFiniteSet(Ahead(h)') /\ Cardinality(Ahead(h)') \in Nat
      BY <1>2, PositionIsAfter
    <2>4. Cardinality(Ahead(h)) <= Cardinality(Ahead(h)')
      BY <2>1, <2>3, FS_Subset
    <2>5. D!Position(h, v5) < m
      BY <1>4, <2>2, <2>3, <2>4
    <2>6. D!Accounted(h)
      BY <1>3, <2>5 DEF D!Passed
    <2>. QED  BY <1>1, <1>2, <2>6 DEF D!Accounted
  <1>5. CASE m = 0
    <2>1. \A h \in D!Listed(v5)' : D!Position(h, v5)' \in Nat
      BY <1>2, PositionIsAfter
    <2>2. \A h \in D!Listed(v5)' : ~(D!Position(h, v5)' < m)
      BY <1>5, <2>1
    <2>3. v6'.page = 0
      BY <1>3, <1>5, RunFacts, DeltaConstants
    <2>. QED  BY <1>3, <2>2, <2>3 DEF D!Passed
  <1>6. CASE m # 0
    <2>1. v6.page # 0
      BY <1>3, <1>6, DeltaConstants
    <2>2. PICK t \in v7 : /\ t <= v1
                          /\ Cardinality({x \in D!Listed(v5) : v2[x] <= t}) >= m
      BY <1>3, <2>1, DeltaCardinality DEF D!Passed
    <2>3. PICK Old : Old = {x \in D!Listed(v5) : v2[x] <= t}
      OBVIOUS
    <2>4. PICK New : New = {x \in D!Listed(v5)' : v2'[x] <= t}
      OBVIOUS
    <2>5. Old \subseteq New /\ New \in SUBSET Games /\ Old \in SUBSET Games
      BY <1>1, <1>2, <2>3, <2>4
    <2>6. IsFiniteSet(New) /\ Cardinality(New) \in Nat /\ Cardinality(Old) \in Nat
      BY <2>5, GamesAreFinite
    <2>7. Cardinality(Old) <= Cardinality(New)
      BY <2>5, <2>6, FS_Subset
    <2>8. Cardinality(New) >= m /\ Cardinality(Old) >= m
      BY <2>2, <2>3, <2>6, <2>7
    <2>9. ASSUME g \in D!Listed(v5)', D!Position(g, v5)' < m PROVE D!Accounted(g)'
      <3>1. CASE t = v1
        BY <1>1, <3>1 DEF D!Accounted
      <3>2. CASE t # v1
        <4>1. t < v1
          BY <1>1, <2>2, <3>2
        <4>2. Old \subseteq Ahead(g)'
          <5>. SUFFICES ASSUME NEW x \in Old PROVE x \in Ahead(g)'
            OBVIOUS
          <5>1. x \in D!Listed(v5) /\ x # g /\ x \in Games /\ v2[x] <= t
            BY <1>2, <2>3
          <5>2. v2'[x] < v2'[g]
            BY <1>1, <4>1, <5>1
          <5>. QED  BY <1>2, <5>1, <5>2 DEF Ahead, D!Before
        <4>3. D!Position(g, v5)' = Cardinality(Ahead(g)') /\ IsFiniteSet(Ahead(g)') /\ Cardinality(Ahead(g)') \in Nat
          BY PositionIsAfter
        <4>4. Cardinality(Old) <= Cardinality(Ahead(g)')
          BY <4>2, <4>3, FS_Subset
        <4>. QED  BY <2>6, <2>8, <2>9, <4>3, <4>4
      <3>. QED  BY <3>1, <3>2
    <2>10. D!Cardinality({x \in D!Listed(v5)' : v2'[x] <= t}) >= v6'.page * PageSize
      BY <1>3, <2>4, <2>8, DeltaCardinality
    <2>11. \A h \in D!Listed(v5)' : D!Position(h, v5)' < v6'.page * PageSize => D!Accounted(h)'
      BY <1>2, <1>3, <1>4, <2>9
    <2>. QED  BY <2>2, <2>10, <2>11 DEF D!Passed
  <1>. QED  BY <1>5, <1>6

LEMMA DeltaChange == ASSUME D!DeltaInv, NEW g \in Games, D!Change(g) PROVE D!DeltaInv'
  <1>1. PICK moved : moved = (v6 # D!Resting /\ (v6.moved \/ g \in D!Listed(v6.since)))
    OBVIOUS
  <1>2. /\ v2' = [v2 EXCEPT ![g] = v1] /\ v3' = [v3 EXCEPT ![g] = v3[g] + 1] /\ UNCHANGED <<v1, v4, v5, v7>>
        /\ v6' = IF moved THEN [v6 EXCEPT !.moved = TRUE] ELSE v6
        /\ v8' = IF moved THEN v8 \cup {g} \cup {h \in D!Listed(v6.since) : v4[h] # v3[h]} ELSE v8
    BY <1>1 DEF D!Change
  <1>3. /\ \A h \in Games : v2'[h] = IF h = g THEN v1 ELSE v2[h]
        /\ \A h \in Games : v3'[h] = IF h = g THEN v3[h] + 1 ELSE v3[h]
        /\ \A h \in Games : v2[h] \in 0..v1 /\ v2[h] \in Nat /\ v3[h] \in Nat /\ v4[h] \in 0..v3[h]
        /\ v1 \in Nat /\ v1 \in 1..MaxSecond /\ v5 \in Nat /\ v5 <= v1
    BY <1>2, DeltaConstants DEF D!DeltaInv, D!DeltaTypeOK
  <1>4. v2' \in [Games -> Nat] /\ v3' \in [Games -> Nat]
    BY <1>2, <1>3 DEF D!DeltaInv
  <1>6. D!DeltaTypeOK'
    <2>1. \A h \in Games : v2'[h] \in 0..v1 /\ v3'[h] \in Nat /\ v4[h] \in 0..v3'[h]
      BY <1>3
    <2>2. v8' \subseteq Games
      <3>1. v8 \subseteq Games /\ \A s : \A h \in D!Listed(s) : h \in Games
        BY DEF D!DeltaInv, D!DeltaTypeOK, D!Listed
      <3>. QED  BY <1>2, <3>1
    <2>. QED  BY <1>2, <2>1, <2>2 DEF D!DeltaInv, D!DeltaTypeOK
  <1>7. v8 \subseteq v8'
    BY <1>2
  <1>8. D!DeltaComplete'
    <2>. SUFFICES ASSUME NEW h \in Games, v2'[h] <= v5, v4[h] # v3'[h] PROVE v2'[h] \in v7 \/ h \in v8'
      BY <1>2 DEF D!DeltaComplete, D!Missed
    <2>1. CASE h = g
      <3>1. v1 = v5 /\ v5 # 0
        BY <1>3, <2>1
      <3>. QED  BY <1>3, <2>1, <3>1 DEF D!DeltaInv
    <2>2. CASE h # g
      <3>1. v2[h] <= v5 /\ v4[h] # v3[h] /\ v2'[h] = v2[h]
        BY <1>3, <2>2
      <3>. QED  BY <1>7, <3>1 DEF D!DeltaInv, D!DeltaComplete, D!Missed
    <2>. QED  BY <2>1, <2>2
  <1>9. CASE v6 = D!Resting
    BY <1>1, <1>2, <1>3, <1>4, <1>6, <1>8, <1>9 DEF D!DeltaInv
  <1>10. CASE v6 # D!Resting /\ moved
    <2>1. v6' = [v6 EXCEPT !.moved = TRUE] /\ v6.since = v5
      BY <1>2, <1>10, RunFacts
    <2>2. /\ v6' \in D!Runs /\ v6'.since = v5 /\ v6'.moved = TRUE /\ v6'.newest = v6.newest
          /\ v5 <= v6.newest /\ v6.newest <= v1
      BY <1>10, <2>1, RunFacts DEF D!Runs
    <2>3. ASSUME NEW h \in D!Listed(v5)' PROVE v4'[h] = v3'[h] \/ h \in v8'
      <3>1. CASE h = g
        BY <1>2, <1>10, <3>1
      <3>2. CASE h # g
        <4>1. h \in D!Listed(v5) /\ h \in Games
          BY <1>2, <1>3, <3>2 DEF D!Listed
        <4>. QED  BY <1>2, <1>3, <1>10, <2>1, <3>2, <4>1
      <3>. QED  BY <3>1, <3>2
    <2>. QED  BY <1>2, <1>3, <1>4, <1>6, <1>8, <2>2, <2>3 DEF D!DeltaInv
  <1>11. CASE v6 # D!Resting /\ ~moved
    <2>1. v6' = v6 /\ v8' = v8 /\ ~v6.moved /\ g \notin D!Listed(v5) /\ v6.since = v5
      BY <1>1, <1>2, <1>11, RunFacts
    <2>2. v6 \in D!Runs /\ v5 <= v6.newest /\ v6.newest <= v1 /\ v6.newest \in Nat
      BY <1>11, RunFacts
    <2>3. ASSUME NEW h \in D!Listed(v5)', v2'[h] < v6.newest PROVE D!Accounted(h)'
      <3>1. h # g
        BY <1>3, <2>2, <2>3
      <3>2. h \in D!Listed(v5) /\ h \in Games /\ v2[h] < v6.newest
        BY <1>2, <1>3, <2>3, <3>1 DEF D!Listed
      <3>3. D!Accounted(h)
        BY <1>11, <2>1, <3>2 DEF D!DeltaInv
      <3>. QED  BY <1>2, <1>3, <2>1, <3>1, <3>2, <3>3 DEF D!Accounted
    <2>4. v6.pc = "page" => D!Passed'
      <3>1. v6.pc = "page" => D!Passed
        BY <1>11, <2>1 DEF D!DeltaInv
      <3>. QED  BY <1>2, <1>11, <2>1, <3>1, ChangeStaysBehind
    <2>. QED  BY <1>2, <1>3, <1>4, <1>6, <1>8, <2>1, <2>2, <2>3, <2>4 DEF D!DeltaInv
  <1>. QED  BY <1>9, <1>10, <1>11

LEMMA DeltaStep == ASSUME D!DeltaInv, D!DeltaNext PROVE D!DeltaInv'
  BY DeltaStartRun, DeltaPage, DeltaSave, DeltaTick, DeltaFail, DeltaChange DEF D!DeltaNext

LEMMA DeltaSafe == ASSUME D!DeltaInv PROVE D!DeltaComplete /\ D!DeltaTypeOK
  BY DEF D!DeltaInv

-----------------------------------------------------------------------------
(* Matching: v1 is known, v2 links, v3 table, v4 mine, v5 row, v6 results,  *)
(* v7 match, v8 moves, v9 imported, v10 said and v11 dropped.              *)

LEMMA LeastOf ==
  ASSUME NEW T, T \subseteq Nat, T # {}
  PROVE  \E k \in T : \A y \in T : k <= y
  <1>. DEFINE R == OpToRel(<, Nat)
  <1>1. IsWellFoundedOn(R, Nat)
    BY NatLessThanWellFounded, Zenon
  <1>2. \A x, y \in Nat : y < x => <<y, x>> \in R
    BY DEF OpToRel
  <1>. HIDE DEF R
  <1>3. PICK k \in T : \A j \in T : ~(<<j, k>> \in R)
    BY <1>1, WFMin
  <1>4. \A j \in T : j \in Nat /\ k \in Nat /\ ~(j < k)
    BY <1>2, <1>3
  <1>. QED  BY <1>4

LEMMA GreatestIs ==
  ASSUME NEW n \in Nat, NEW T, T \subseteq 0..n, T # {}
  PROVE  M!Max(T) \in T /\ \A y \in T : M!Max(T) >= y
  BY LastUpTo DEF M!Max

\* One score: nothing below 0, and what is not 0 is the sum.
LEMMA ScoreIs ==
  ASSUME NEW r \in [kind : M!Kinds, year : M!Years], NEW rank \in Nat
  PROVE  \E year \in -25..10 :
           /\ year = IF r.year = "same" THEN 10 ELSE IF r.year = "near" THEN 3 ELSE IF r.year = "far" THEN -25
                     ELSE IF r.kind = "same" THEN 5 ELSE 0
           /\ M!Likeness[r.kind] \in {0, 36, 55, 65, 90}
           /\ r.kind = "same" <=> M!Likeness[r.kind] = 90
           /\ M!Score(r, rank) \in 0..100
           /\ M!Score(r, rank) >= M!Likeness[r.kind] + year - rank
           /\ M!Score(r, rank) # 0 => M!Score(r, rank) = M!Likeness[r.kind] + year - rank
  <1>. PICK year : year = IF r.year = "same" THEN 10 ELSE IF r.year = "near" THEN 3 ELSE IF r.year = "far" THEN -25
                          ELSE IF r.kind = "same" THEN 5 ELSE 0
    OBVIOUS
  <1>1. year \in -25..10
    OBVIOUS
  <1>2. PICK like : like = M!Likeness[r.kind]
    OBVIOUS
  <1>3. like \in {0, 36, 55, 65, 90} /\ (r.kind = "same" <=> like = 90)
    <2>1. r.kind \in {"same", "starts", "contains", "words", "none"}
      BY DEF M!Kinds
    <2>. QED  BY <1>2, <2>1 DEF M!Likeness
  <1>4. PICK T : T = {0, like + year - rank}
    OBVIOUS
  <1>5. M!Score(r, rank) = M!Max(T)
    BY <1>2, <1>4 DEF M!Score
  <1>6. like + year - rank \in Int /\ like + year - rank <= 100
    BY <1>1, <1>3
  <1>7. \E k \in T : \A y \in T : k >= y
    BY <1>4, <1>6
  <1>8. M!Max(T) \in T /\ \A y \in T : M!Max(T) >= y
    BY <1>7 DEF M!Max
  <1>9. /\ M!Score(r, rank) \in 0..100 /\ M!Score(r, rank) >= like + year - rank
        /\ M!Score(r, rank) # 0 => M!Score(r, rank) = like + year - rank
    BY <1>4, <1>5, <1>6, <1>8
  <1>. QED  BY <1>1, <1>2, <1>3, <1>9

Results == v6 \in Seq([kind : M!Kinds, year : M!Years])

LEMMA RanksAre ==
  ASSUME Results
  PROVE  /\ DOMAIN v6 = 1..Len(v6) /\ Len(v6) \in Nat
         /\ \A i \in DOMAIN v6 : v6[i] \in [kind : M!Kinds, year : M!Years] /\ i - 1 \in Nat
                                 /\ M!Ranked[i] = M!Score(v6[i], i - 1) /\ M!Ranked[i] \in 0..100
  <1>1. DOMAIN v6 = 1..Len(v6) /\ Len(v6) \in Nat
    BY DEF Results
  <1>2. \A i \in DOMAIN v6 : v6[i] \in [kind : M!Kinds, year : M!Years] /\ i - 1 \in Nat
                             /\ M!Ranked[i] = M!Score(v6[i], i - 1)
    <2>0. PICK R : R = [kind : M!Kinds, year : M!Years]
      OBVIOUS
    <2>1. /\ \A i \in DOMAIN v6 : v6[i] \in R
          /\ \A i \in DOMAIN v6 : i - 1 \in Nat
      <3>1. v6 \in Seq(R)
        BY <2>0 DEF Results
      <3>. QED  BY <1>1, <3>1
    <2>2. \A i \in DOMAIN v6 : M!Ranked[i] = M!Score(v6[i], i - 1)
      BY DEF M!Ranked
    <2>. QED  BY <2>0, <2>1, <2>2
  <1>3. \A i \in DOMAIN v6 : M!Ranked[i] \in 0..100
    <2>. TAKE i \in DOMAIN v6
    <2>. QED  BY <1>2, ScoreIs
  <1>. QED  BY <1>1, <1>2, <1>3

LEMMA TopIsBest ==
  ASSUME Results, v6 # <<>>
  PROVE  M!Top \in DOMAIN v6 /\ \A j \in DOMAIN v6 : M!Ranked[j] <= M!Ranked[M!Top]
  <1>. DEFINE scores == {M!Ranked[i] : i \in DOMAIN v6}
  <1>1. 1 \in DOMAIN v6
    BY DEF Results
  <1>2. PICK best \in scores : \A y \in scores : best >= y
    <2>1. scores \subseteq 0..100 /\ scores # {}
      BY <1>1, RanksAre
    <2>. QED  BY <2>1, LastUpTo
  <1>. DEFINE places == {i \in DOMAIN v6 : M!Ranked[i] = best}
  <1>3. PICK first \in places : \A j \in places : first <= j
    <2>1. places \subseteq Nat /\ places # {}
      BY <1>2, RanksAre
    <2>. QED  BY <2>1, LeastOf
  <1>4. first \in DOMAIN v6 /\ M!Ranked[first] = best /\ first \in 1..Len(v6)
    BY <1>3, RanksAre
  <1>5. \A j \in DOMAIN v6 : M!Ranked[j] <= M!Ranked[first]
    BY <1>2, <1>4, RanksAre
  <1>6. \A j \in 1..(first - 1) : M!Ranked[j] < M!Ranked[first]
    <2>. TAKE j \in 1..(first - 1)
    <2>1. j \in DOMAIN v6 /\ j \in Nat /\ j < first /\ first \in Nat
      BY <1>4, RanksAre
    <2>2. M!Ranked[j] # best
      BY <1>3, <2>1
    <2>3. \A i \in DOMAIN v6 : M!Ranked[i] \in 0..100
      BY RanksAre
    <2>4. M!Ranked[j] \in 0..100 /\ M!Ranked[first] \in 0..100 /\ M!Ranked[j] <= M!Ranked[first]
      BY <1>4, <1>5, <2>1, <2>3
    <2>. PICK x, y : x = M!Ranked[j] /\ y = M!Ranked[first]
      OBVIOUS
    <2>5. x \in 0..100 /\ y \in 0..100 /\ x <= y /\ x # y
      BY <1>4, <2>2, <2>4
    <2>6. x < y
      BY <2>5
    <2>. QED  BY <2>6
  <1>7. M!Top = CHOOSE i \in DOMAIN v6 : /\ \A j \in DOMAIN v6 : M!Ranked[j] <= M!Ranked[i]
                                        /\ \A j \in 1..(i - 1) : M!Ranked[j] < M!Ranked[i]
    BY DEF M!Top
  <1>. QED  BY <1>4, <1>5, <1>6, <1>7

\* A name that is clear: the same name, no year against it, and no equal name
\* with as good a year less than five places behind.
LEMMA ClearIs ==
  ASSUME Results, v6 # <<>>, NEW rounding \in BOOLEAN, M!Clear(rounding)
  PROVE  /\ M!Top \in DOMAIN v6 /\ v6[M!Top].kind = "same" /\ v6[M!Top].year # "far"
         /\ \A j \in DOMAIN v6 \ {M!Top} :
              v6[j].kind = "same" /\ M!YearRank[v6[j].year] <= M!YearRank[v6[M!Top].year] => j >= M!Top + 5
  <1>1. PICK top \in DOMAIN v6 : top = M!Top /\ \A j \in DOMAIN v6 : M!Ranked[j] <= M!Ranked[top]
    BY TopIsBest
  <1>2. M!Ranked[top] >= 85 /\ M!Ranked[top] \in 0..100 /\ (M!Lead > 5 \/ M!Lead = 5)
    BY <1>1, RanksAre DEF M!Clear, M!Confident
  <1>3. PICK r \in [kind : M!Kinds, year : M!Years] : r = v6[top]
    BY RanksAre
  <1>4. M!Ranked[top] = M!Score(r, top - 1) /\ top - 1 \in Nat /\ top \in Nat /\ M!Ranked[top] \in 0..100
    BY <1>3, RanksAre
  <1>5. PICK year \in -25..10 :
           /\ year = IF r.year = "same" THEN 10 ELSE IF r.year = "near" THEN 3 ELSE IF r.year = "far" THEN -25
                     ELSE IF r.kind = "same" THEN 5 ELSE 0
           /\ M!Likeness[r.kind] \in {0, 36, 55, 65, 90}
           /\ r.kind = "same" <=> M!Likeness[r.kind] = 90
           /\ M!Ranked[top] # 0 => M!Ranked[top] = M!Likeness[r.kind] + year - (top - 1)
    BY <1>4, ScoreIs
  <1>6. M!Ranked[top] = M!Likeness[r.kind] + year - (top - 1)
    BY <1>2, <1>5
  <1>7. M!Likeness[r.kind] = 90 /\ year >= -5
    BY <1>2, <1>4, <1>5, <1>6
  <1>8. r.kind = "same" /\ r.year # "far"
    BY <1>5, <1>7
  <1>9. ASSUME NEW j \in DOMAIN v6 \ {top}, v6[j].kind = "same", M!YearRank[v6[j].year] <= M!YearRank[r.year]
        PROVE  j >= top + 5
    <2>1. PICK q \in [kind : M!Kinds, year : M!Years] : q = v6[j]
      BY RanksAre
    <2>2. M!Ranked[j] = M!Score(q, j - 1) /\ j - 1 \in Nat /\ j \in Nat /\ M!Ranked[j] \in 0..100
      BY <2>1, RanksAre
    <2>3. PICK other \in -25..10 :
             /\ other = IF q.year = "same" THEN 10 ELSE IF q.year = "near" THEN 3 ELSE IF q.year = "far" THEN -25
                        ELSE IF q.kind = "same" THEN 5 ELSE 0
             /\ q.kind = "same" <=> M!Likeness[q.kind] = 90
             /\ M!Ranked[j] >= M!Likeness[q.kind] + other - (j - 1)
      BY <2>2, ScoreIs
    <2>4. other >= year
      <3>1. q.year \in {"same", "near", "far", "unknown"} /\ r.year \in {"same", "near", "far", "unknown"}
        BY DEF M!Years
      <3>2. M!YearRank[q.year] <= M!YearRank[r.year] /\ q.kind = "same"
        BY <1>9, <2>1
      <3>. QED  BY <1>5, <1>8, <2>3, <3>1, <3>2 DEF M!YearRank
    <2>5. PICK others : others = {M!Ranked[i] : i \in DOMAIN v6 \ {top}}
      OBVIOUS
    <2>6. M!Max(others) \in 0..100 /\ M!Max(others) >= M!Ranked[j]
      <3>0. \A i \in DOMAIN v6 : M!Ranked[i] \in 0..100
        BY RanksAre
      <3>a. ASSUME NEW x \in others PROVE x \in 0..100
        <4>1. PICK i \in DOMAIN v6 : x = M!Ranked[i]
          BY <2>5
        <4>. QED  BY <3>0, <4>1
      <3>b. M!Ranked[j] \in others
        BY <2>5
      <3>1. others \subseteq 0..100 /\ M!Ranked[j] \in others
        BY <3>a, <3>b
      <3>2. M!Max(others) \in others /\ M!Max(others) >= M!Ranked[j]
        BY <3>1, GreatestIs
      <3>. QED  BY <3>1, <3>2
    <2>7. M!Lead = M!Ranked[top] - M!Max(others)
      <3>1. Len(v6) # 1
        BY RanksAre
      <3>. QED  BY <1>1, <2>5, <3>1 DEF M!Lead
    <2>8. M!Ranked[j] <= M!Ranked[top] - 5
      <3>. PICK a, b, c, d : a = M!Ranked[top] /\ b = M!Ranked[j] /\ c = M!Max(others) /\ d = M!Lead
        OBVIOUS
      <3>1. a \in 0..100 /\ b \in 0..100 /\ c \in 0..100 /\ c >= b /\ d = a - c /\ (d > 5 \/ d = 5)
        BY <1>2, <2>2, <2>6, <2>7
      <3>2. b <= a - 5
        BY <3>1
      <3>. QED  BY <3>2
    <2>9. M!Likeness[q.kind] = 90
      BY <1>9, <2>1, <2>3
    <2>10. M!Ranked[top] = 90 + year - (top - 1) /\ M!Ranked[j] >= 90 + other - (j - 1)
      BY <1>6, <1>7, <2>3, <2>9
    <2>. PICK a, b : a = M!Ranked[top] /\ b = M!Ranked[j]
      OBVIOUS
    <2>11. /\ a \in 0..100 /\ b \in 0..100 /\ b <= a - 5 /\ other >= year /\ year \in Int /\ other \in Int
           /\ j \in Nat /\ top \in Nat /\ a = 90 + year - (top - 1) /\ b >= 90 + other - (j - 1)
      BY <1>2, <1>4, <2>2, <2>4, <2>8, <2>10
    <2>. QED  BY <2>11
  <1>. QED  BY <1>1, <1>3, <1>8, <1>9

LEMMA ListedIsSeq == \A R : \A n \in Nat : \A f \in [1..n -> R] : f \in Seq(R)
  BY SeqDef

LEMMA MatchingStart == ASSUME M!MatchingInit PROVE M!MatchingInv
  <1>1. /\ v7 = M!Resting /\ v2 = {} /\ v4 = {} /\ v11 = {} /\ v1 \subseteq FewGames
        /\ v9 \in [Apps -> FewGames \cup {0}] /\ v10 \in [Apps -> FewGames \cup {0}]
        /\ \A a \in Apps : v10[a] = 0
    BY DEF M!MatchingInit
  <1>2. v3 \in [Apps -> FewGames \cup {0}]
    BY DEF M!MatchingInit
  <1>3. v5 \in [igdb : FewGames \cup {0}, app : Apps \cup {0}]
    BY DEF M!MatchingInit
  <1>4. Results
    <2>. PICK R : R = [kind : M!Kinds, year : M!Years]
      OBVIOUS
    <2>1. [kind |-> "same", year |-> "unknown"] \in R /\ M!Other \in R
      BY DEF M!Kinds, M!Years, M!Other
    <2>2. ASSUME NEW n \in Nat, NEW i, NEW j, NEW x \in R, NEW y \in R PROVE M!Listed(n, i, x, j, y) \in Seq(R)
      <3>. PICK list : list = M!Listed(n, i, x, j, y)
        OBVIOUS
      <3>1. list \in [1..n -> R]
        BY <2>1 DEF M!Listed
      <3>2. list \in Seq(R)
        BY <3>1, ListedIsSeq
      <3>. QED  BY <3>2
    <2>3. \A x \in [kind : M!Kinds \ {"none"}, year : M!Years] : x \in R
      OBVIOUS
    <2>4. \A y \in [kind : {"same", "starts", "none"}, year : M!Years] : y \in R
      BY DEF M!Kinds
    <2>5. \A q \in (1..Shown) \X (1..Shown) : q[2] \in Nat
      BY MatchingConstants
    <2>6. ASSUME v6 \in M!Titles PROVE v6 \in Seq(R)
      <3>1. CASE \E x \in R : v6 = <<x>>
        BY <3>1
      <3>2. CASE \E p \in (1..Shown) \X (1..Shown) :
                   \E x \in [kind : M!Kinds \ {"none"}, year : M!Years] :
                     \E y \in [kind : {"same", "starts", "none"}, year : M!Years] :
                       v6 = M!Listed(p[2], p[1], x, p[2], y)
        <4>. PICK p \in (1..Shown) \X (1..Shown),
                  x \in [kind : M!Kinds \ {"none"}, year : M!Years],
                  y \in [kind : {"same", "starts", "none"}, year : M!Years] :
                    v6 = M!Listed(p[2], p[1], x, p[2], y)
          BY <3>2
        <4>1. x \in R /\ y \in R /\ p[2] \in Nat
          BY <2>3, <2>4, <2>5
        <4>. QED  BY <2>2, <4>1
      <3>. QED  BY <2>6, <3>1, <3>2 DEF M!Titles
    <2>7. v6 \in M!Titles \/ v6 = <<>> \/ v6 = <<[kind |-> "same", year |-> "unknown"]>>
      BY DEF M!MatchingInit
    <2>8. <<[kind |-> "same", year |-> "unknown"]>> \in Seq(R) /\ <<>> \in Seq(R)
      BY <2>1
    <2>. QED  BY <2>6, <2>7, <2>8 DEF Results
  <1>5. M!MatchingTypeOK
    BY <1>1, <1>2, <1>3, <1>4 DEF M!MatchingTypeOK, M!Resting, Results
  <1>6. v7.pc = "idle" /\ v7 \in M!Shapes /\ v7 \notin M!LinkDone /\ v7 \notin M!ByLink
    BY <1>1 DEF M!Resting, M!Shapes, M!Steps, M!LinkDone, M!ByLink
  <1>. QED  BY <1>1, <1>5, <1>6 DEF M!MatchingInv, M!NameIsClear, M!LinksAgree

Linkers(a) == {g \in FewGames : <<g, a>> \in v2}

\* A link that is named is there, and an app without one has none.
LEMMA LinkedIs ==
  /\ \A a : M!Linked(a) \in Linkers(a) \/ (M!Linked(a) = 0 /\ Linkers(a) = {})
  /\ \A a : M!Linked(a) \in FewGames \cup {0}
  <1>1. ASSUME NEW a PROVE M!Linked(a) \in Linkers(a) \/ (M!Linked(a) = 0 /\ Linkers(a) = {})
    <2>1. M!Linked(a) = IF Linkers(a) = {} THEN 0 ELSE M!Min(Linkers(a))
      BY DEF M!Linked, Linkers
    <2>2. Linkers(a) # {} => M!Min(Linkers(a)) \in Linkers(a)
      <3>1. Linkers(a) \subseteq Nat
        BY MatchingConstants DEF Linkers
      <3>. QED  BY <3>1, LeastOf DEF M!Min
    <2>. QED  BY <2>1, <2>2
  <1>. QED  BY <1>1 DEF Linkers

LEMMA LinkedIsAfter ==
  \A a : M!Linked(a)' \in Linkers(a)' \/ (M!Linked(a)' = 0 /\ Linkers(a)' = {})
  <1>1. ASSUME NEW a PROVE M!Linked(a)' \in Linkers(a)' \/ (M!Linked(a)' = 0 /\ Linkers(a)' = {})
    <2>1. M!Linked(a)' = IF Linkers(a)' = {} THEN 0 ELSE M!Min(Linkers(a)')
      BY DEF M!Linked, Linkers, M!Min
    <2>2. Linkers(a)' # {} => M!Min(Linkers(a)') \in Linkers(a)'
      <3>1. Linkers(a)' \subseteq Nat
        BY MatchingConstants DEF Linkers
      <3>. QED  BY <3>1, LeastOf DEF M!Min
    <2>. QED  BY <2>1, <2>2
  <1>. QED  BY <1>1

\* An app whose links are as they were goes on being linked as it was.
LEMMA LinkedStays ==
  ASSUME NEW a, \A g \in FewGames : <<g, a>> \in v2' <=> <<g, a>> \in v2
  PROVE  M!Linked(a)' = M!Linked(a)
  <1>1. Linkers(a)' = Linkers(a)
    BY DEF Linkers
  <1>2. M!Linked(a) = IF Linkers(a) = {} THEN 0 ELSE M!Min(Linkers(a))
    BY DEF M!Linked, Linkers
  <1>3. M!Linked(a)' = IF Linkers(a)' = {} THEN 0 ELSE M!Min(Linkers(a)')
    BY DEF M!Linked, Linkers, M!Min
  <1>. QED  BY <1>1, <1>2, <1>3

\* What the shape of a matching says of it.
LEMMA ShapeIs ==
  ASSUME M!MatchingInv
  PROVE  /\ v7.pc = "steam" => v5.app \in Apps /\ v7.id \in FewGames \cup {0}
         /\ v7.pc \in {"ask", "found"} => v7 \in M!ByLink /\ v5.app \in Apps
         /\ v7.pc = "done" /\ v7.by = "steam" => v7 \in M!LinkDone /\ v5.app \in Apps
         /\ v7.pc # "done" => v7 \in M!Steps \cup M!ByLink
         /\ v7 \in M!ByLink => v7.pc \in {"ask", "found"} /\ v7.game \in FewGames \cup {0} /\ v7.kept \in BOOLEAN /\ v7.id \in FewGames \cup {0}
         /\ v7 \in M!LinkDone => v7.pc = "done" /\ v7.game \in FewGames /\ v7.by = "steam" /\ v7.kept \in BOOLEAN
         /\ v7 \notin M!ByLink \cup M!LinkDone => "kept" \notin DOMAIN v7
         /\ v7.pc = "done" /\ v7.by = "name" => v7 \in M!NoneDone \cup M!NameDone
  <1>1. v7 \in M!Steps \cup M!ByLink \cup M!LinkDone \cup M!IdDone \cup M!NoneDone \cup M!NameDone
    BY DEF M!MatchingInv, M!Shapes
  <1>2. CASE v7 \in M!Steps
    <2>1. /\ v7.pc \in {"idle", "steam", "name"} /\ "kept" \notin DOMAIN v7
          /\ v7.pc = "steam" => v7.id \in FewGames \cup {0}
      BY <1>2 DEF M!Steps
    <2>2. v7 \notin M!ByLink /\ v7 \notin M!LinkDone
      BY <2>1 DEF M!ByLink, M!LinkDone
    <2>. QED  BY <1>2, <2>1, <2>2 DEF M!MatchingInv
  <1>3. CASE v7 \in M!ByLink
    <2>1. /\ v7.pc \in {"ask", "found"} /\ v7.game \in FewGames \cup {0} /\ v7.kept \in BOOLEAN
          /\ v7.id \in FewGames \cup {0}
      BY <1>3 DEF M!ByLink
    <2>2. v7 \notin M!LinkDone
      BY <2>1 DEF M!LinkDone
    <2>. QED  BY <1>3, <2>1, <2>2 DEF M!MatchingInv
  <1>4. CASE v7 \in M!LinkDone
    <2>1. v7.pc = "done" /\ v7.game \in FewGames /\ v7.by = "steam" /\ v7.kept \in BOOLEAN
      BY <1>4 DEF M!LinkDone
    <2>2. v7 \notin M!ByLink
      BY <2>1 DEF M!ByLink
    <2>. QED  BY <1>4, <2>1, <2>2 DEF M!MatchingInv
  <1>5. CASE v7 \in M!IdDone
    <2>1. v7.pc = "done" /\ v7.by = "igdb" /\ DOMAIN v7 = {"pc", "game", "by", "state"}
      BY <1>5 DEF M!IdDone
    <2>2. v7 \notin M!ByLink /\ v7 \notin M!LinkDone
      BY <2>1 DEF M!ByLink, M!LinkDone
    <2>. QED  BY <2>1, <2>2
  <1>6. CASE v7 \in M!NoneDone
    <2>1. v7.pc = "done" /\ v7.by = "name" /\ DOMAIN v7 = {"pc", "game", "by", "state"}
      BY <1>6 DEF M!NoneDone
    <2>2. v7 \notin M!ByLink /\ v7 \notin M!LinkDone
      BY <2>1 DEF M!ByLink, M!LinkDone
    <2>. QED  BY <1>6, <2>1, <2>2
  <1>7. CASE v7 \in M!NameDone
    <2>1. v7.pc = "done" /\ v7.by = "name" /\ DOMAIN v7 = {"pc", "game", "by", "at", "state"}
      BY <1>7 DEF M!NameDone
    <2>2. v7 \notin M!ByLink /\ v7 \notin M!LinkDone
      BY <2>1 DEF M!ByLink, M!LinkDone
    <2>. QED  BY <1>7, <2>1, <2>2
  <1>. QED  BY <1>1, <1>2, <1>3, <1>4, <1>5, <1>6, <1>7

\* A step that leaves the row and the results alone.
LEMMA MatchingMoves ==
  ASSUME M!MatchingInv, UNCHANGED <<v5, v6>>,
         v1' \subseteq FewGames, v4' \subseteq v1', v2' \subseteq v1' \X Apps,
         v3' \in [Apps -> FewGames \cup {0}], v9' \in [Apps -> FewGames \cup {0}], v10' \in [Apps -> FewGames \cup {0}],
         v11' \subseteq Apps, (v7 \in M!Shapes)',
         (v7.pc = "steam" \/ v7 \in M!ByLink \cup M!LinkDone)' => v5.app \in Apps,
         M!NameIsClear', M!LinksAgree'
  PROVE  M!MatchingInv'
  <1>1. v7'.pc \in {"idle", "steam", "ask", "found", "name", "done"}
    BY DEF M!Shapes, M!Steps, M!ByLink, M!LinkDone, M!IdDone, M!NoneDone, M!NameDone
  <1>2. v5' \in [igdb : FewGames \cup {0}, app : Apps \cup {0}] /\ Results'
    BY DEF M!MatchingInv, M!MatchingTypeOK, Results
  <1>3. M!MatchingTypeOK'
    BY <1>1, <1>2 DEF M!MatchingTypeOK, Results
  <1>. QED  BY <1>3 DEF M!MatchingInv, M!ByLink, M!LinkDone

LEMMA MatchingTypes ==
  ASSUME M!MatchingInv
  PROVE  /\ v1 \subseteq FewGames /\ v4 \subseteq v1 /\ v2 \subseteq v1 \X Apps
         /\ v3 \in [Apps -> FewGames \cup {0}] /\ v9 \in [Apps -> FewGames \cup {0}] /\ v10 \in [Apps -> FewGames \cup {0}]
         /\ v11 \subseteq Apps /\ v5.igdb \in FewGames \cup {0} /\ v5.app \in Apps \cup {0} /\ 0 \notin v1
         /\ Results
         /\ v7 \in M!Shapes
  BY MatchingConstants DEF M!MatchingInv, M!MatchingTypeOK, Results

\* A step that leaves the links alone and goes on without them, what is said
\* of an app still being what they say.
LEMMA WithoutLinks ==
  ASSUME M!MatchingInv, UNCHANGED <<v2, v3, v4, v5, v6, v9, v11>>,
         v1 \subseteq v1', v1' \subseteq FewGames,
         v10' \in [Apps -> FewGames \cup {0}], \A a \in Apps : v10'[a] # 0 => M!Linked(a) = v10'[a],
         (v7 \in M!Steps \cup M!IdDone \cup M!NoneDone \cup M!NameDone)',
         v7'.pc = "steam" => v5.app \in Apps,
         M!NameIsClear'
  PROVE  M!MatchingInv'
  <1>1. v7'.pc \in {"idle", "steam", "name"} \/ (v7'.pc = "done" /\ v7'.by \in {"igdb", "name"})
    BY DEF M!Steps, M!IdDone, M!NoneDone, M!NameDone
  <1>2. (v7 \notin M!ByLink /\ v7 \notin M!LinkDone)'
    BY <1>1 DEF M!ByLink, M!LinkDone
  <1>3. M!LinksAgree'
    <2>1. \A a : M!Linked(a)' = M!Linked(a)
      BY LinkedStays
    <2>. QED  BY <1>1, <1>2, <2>1 DEF M!LinksAgree
  <1>4. (v7 \in M!Shapes)'
    BY DEF M!Shapes
  <1>5. v4' \subseteq v1' /\ v2' \subseteq v1' \X Apps
    BY MatchingTypes
  <1>. QED  BY <1>2, <1>3, <1>4, <1>5, MatchingTypes, MatchingMoves

LEMMA MatchById == ASSUME M!MatchingInv, NEW up \in BOOLEAN, M!ByIGDB(up) PROVE M!MatchingInv'
  <1>1. /\ UNCHANGED <<v2, v3, v4, v5, v6, v9, v10, v11>>
        /\ v1' = IF up /\ v5.igdb # 0 THEN v1 \cup {v5.igdb} ELSE v1
    BY DEF M!ByIGDB
  <1>. PICK id : id = IF v5.igdb \in v1' THEN v5.igdb ELSE 0
    OBVIOUS
  <1>t. v7' = IF v5.app # 0 THEN [pc |-> "steam", id |-> id] ELSE IF id # 0 THEN M!ById(id) ELSE [pc |-> "name"]
    BY DEF M!ByIGDB
  <1>2. v1' \subseteq FewGames /\ v1 \subseteq v1' /\ id \in FewGames \cup {0}
    BY <1>1, MatchingTypes
  <1>3. v5.app = 0 /\ id # 0 => (v7 \in M!IdDone)' /\ v7'.pc = "done" /\ v7'.by = "igdb"
    BY <1>t, <1>2 DEF M!ById, M!IdDone
  <1>4. v5.app # 0 \/ id = 0 => (v7 \in M!Steps)' /\ (v7'.pc = "steam" => v5.app # 0) /\ v7'.pc # "done"
    BY <1>t, <1>2 DEF M!Steps
  <1>5. \A a \in Apps : v10'[a] # 0 => M!Linked(a) = v10'[a]
    BY <1>1 DEF M!MatchingInv, M!LinksAgree
  <1>6. M!NameIsClear'
    BY <1>3, <1>4 DEF M!NameIsClear
  <1>7. v10' \in [Apps -> FewGames \cup {0}] /\ (v7'.pc = "steam" => v5.app \in Apps)
    BY <1>1, <1>3, <1>4, MatchingTypes
  <1>. QED  BY <1>1, <1>2, <1>3, <1>4, <1>5, <1>6, <1>7, WithoutLinks

LEMMA MatchBySteam == ASSUME M!MatchingInv, M!BySteam PROVE M!MatchingInv'
  <1>1. /\ UNCHANGED <<v1, v2, v3, v4, v5, v6, v9, v10, v11>> /\ v7.pc = "steam" /\ v5.app \in Apps
        /\ v7' = [pc |-> IF M!Linked(v5.app) = 0 THEN "ask" ELSE "found",
                  game |-> M!Linked(v5.app), kept |-> TRUE, id |-> v7.id]
    BY ShapeIs DEF M!BySteam
  <1>2. M!Linked(v5.app) \in FewGames \cup {0} /\ v7.id \in FewGames \cup {0}
    BY <1>1, LinkedIs, ShapeIs
  <1>3. v7'.pc \in {"ask", "found"} /\ v7'.game = M!Linked(v5.app) /\ v7'.kept = TRUE /\ (v7 \in M!ByLink)'
        /\ (v7'.pc = "ask" => M!Linked(v5.app) = 0)
    BY <1>1, <1>2 DEF M!ByLink
  <1>4. (v7 \notin M!LinkDone)'
    BY <1>3 DEF M!LinkDone
  <1>5. M!LinksAgree'
    <2>1. M!LinksAgree
      BY DEF M!MatchingInv
    <2>2. \A a : M!Linked(a)' = M!Linked(a)
      BY <1>1, LinkedStays
    <2>. QED  BY <1>1, <1>3, <1>4, <2>1, <2>2 DEF M!LinksAgree
  <1>6. M!NameIsClear'
    BY <1>3 DEF M!NameIsClear
  <1>. QED  BY <1>1, <1>3, <1>5, <1>6, MatchingTypes, MatchingMoves DEF M!Shapes


LEMMA MatchAsk ==
  ASSUME M!MatchingInv, NEW up \in BOOLEAN, NEW saved \in BOOLEAN, M!AskIGDB(up, saved)
  PROVE  M!MatchingInv'
  <1>. PICK g : g = IF up THEN v3[v5.app] ELSE 0
    OBVIOUS
  <1>. PICK app : app = v5.app
    OBVIOUS
  <1>1. /\ v7.pc = "ask" /\ UNCHANGED <<v3, v4, v5, v6, v9, v10, v11>>
        /\ v1' = IF g = 0 THEN v1 ELSE v1 \cup {g}
        /\ v2' = IF g = 0 \/ ~saved THEN v2 ELSE v2 \cup {<<g, app>>}
        /\ v7' = [pc |-> "found", game |-> g, kept |-> saved /\ v7.kept, id |-> v7.id]
    BY DEF M!AskIGDB
  <1>2. v7 \in M!ByLink /\ app \in Apps /\ v7.kept \in BOOLEAN /\ v7.id \in FewGames \cup {0} /\ g \in FewGames \cup {0}
    BY <1>1, ShapeIs, MatchingTypes
  <1>3. v7'.pc = "found" /\ v7'.game = g /\ (v7 \in M!ByLink)' /\ (v7 \notin M!LinkDone)'
        /\ v7'.kept \in BOOLEAN /\ (v7'.kept <=> saved /\ v7.kept)
    BY <1>1, <1>2 DEF M!ByLink, M!LinkDone
  <1>4. v10[app] = 0 /\ (v7.kept => M!Linked(app) = 0)
    BY <1>1 DEF M!MatchingInv, M!LinksAgree
  <1>5. \A a \in Apps : a # app => M!Linked(a)' = M!Linked(a)
    <2>. TAKE a \in Apps
    <2>. HAVE a # app
    <2>1. \A h \in FewGames : <<h, a>> \in v2' <=> <<h, a>> \in v2
      BY <1>1
    <2>. QED  BY <2>1, LinkedStays
  <1>6. v7'.kept /\ g # 0 => M!Linked(app)' = g
    <2>. HAVE v7'.kept /\ g # 0
    <2>1. Linkers(app) = {}
      BY <1>3, <1>4, LinkedIs, MatchingConstants DEF Linkers
    <2>2. Linkers(app)' = {g}
      BY <1>1, <1>2, <1>3, <2>1 DEF Linkers
    <2>. QED  BY <2>2, LinkedIsAfter
  <1>7. \A a \in Apps : v10'[a] # 0 => M!Linked(a)' = v10'[a]
    <2>1. \A a \in Apps : v10[a] # 0 => M!Linked(a) = v10[a]
      BY DEF M!MatchingInv, M!LinksAgree
    <2>. QED  BY <1>1, <1>4, <1>5, <2>1
  <1>8. M!LinksAgree' /\ M!NameIsClear'
    BY <1>1, <1>3, <1>4, <1>6, <1>7 DEF M!LinksAgree, M!NameIsClear
  <1>9. v1' \subseteq FewGames /\ v4' \subseteq v1' /\ v2' \subseteq v1' \X Apps
    BY <1>1, <1>2, MatchingTypes
  <1>. QED  BY <1>1, <1>2, <1>3, <1>8, <1>9, MatchingTypes, MatchingMoves DEF M!Shapes

LEMMA MatchFound == ASSUME M!MatchingInv, M!Found PROVE M!MatchingInv'
  <1>1. /\ v7.pc = "found" /\ UNCHANGED <<v1, v2, v3, v4, v5, v6, v9, v10, v11>>
        /\ v7' = IF v7.id # 0 THEN M!ById(v7.id)
                 ELSE IF v7.game \in v1 THEN [pc |-> "done", game |-> v7.game, by |-> "steam", state |-> "matched", kept |-> v7.kept]
                 ELSE [pc |-> "name"]
    BY DEF M!Found
  <1>2. v7 \in M!ByLink /\ v5.app \in Apps /\ v7.kept \in BOOLEAN /\ v7.id \in FewGames \cup {0} /\ v1 \subseteq FewGames
    BY <1>1, ShapeIs, MatchingTypes
  <1>5. CASE v7.id # 0
    <2>1. (v7 \in M!IdDone)' /\ v7'.pc = "done" /\ v7'.by = "igdb"
      BY <1>1, <1>2, <1>5 DEF M!ById, M!IdDone
    <2>2. M!NameIsClear' /\ \A a \in Apps : v10'[a] # 0 => M!Linked(a) = v10'[a]
      BY <1>1, <2>1 DEF M!MatchingInv, M!LinksAgree, M!NameIsClear
    <2>. QED  BY <1>1, <2>1, <2>2, MatchingTypes, WithoutLinks
  <1>3. CASE v7.id = 0 /\ v7.game \in v1
    <2>1. v7' = [pc |-> "done", game |-> v7.game, by |-> "steam", state |-> "matched", kept |-> v7.kept] /\ v7.game \in FewGames
      BY <1>1, <1>2, <1>3
    <2>2. (v7 \in M!LinkDone)' /\ v7'.pc = "done" /\ v7'.by = "steam" /\ v7'.kept = v7.kept /\ v7'.game = v7.game
      BY <1>2, <2>1 DEF M!LinkDone
    <2>3. IF v7.kept THEN v7.game # 0 => M!Linked(v5.app) = v7.game ELSE v10[v5.app] = 0
      BY <1>1 DEF M!MatchingInv, M!LinksAgree
    <2>4. \A a : M!Linked(a)' = M!Linked(a)
      BY <1>1, LinkedStays
    <2>5. \A a \in Apps : v10'[a] # 0 => M!Linked(a)' = v10'[a]
      BY <1>1, <2>4 DEF M!MatchingInv, M!LinksAgree
    <2>6. M!LinksAgree' /\ M!NameIsClear'
      BY <1>1, <2>2, <2>3, <2>4, <2>5 DEF M!LinksAgree, M!NameIsClear
    <2>. QED  BY <1>1, <1>2, <2>2, <2>6, MatchingTypes, MatchingMoves DEF M!Shapes
  <1>4. CASE v7.id = 0 /\ v7.game \notin v1
    <2>1. (v7 \in M!Steps)' /\ v7'.pc = "name"
      BY <1>1, <1>4 DEF M!Steps
    <2>2. M!NameIsClear' /\ \A a \in Apps : v10'[a] # 0 => M!Linked(a) = v10'[a]
      BY <1>1, <2>1 DEF M!MatchingInv, M!LinksAgree, M!NameIsClear
    <2>. QED  BY <1>1, <2>1, <2>2, MatchingTypes, WithoutLinks
  <1>. QED  BY <1>3, <1>4, <1>5

LEMMA MatchByName == ASSUME M!MatchingInv, NEW rounding \in BOOLEAN, M!ByName(rounding) PROVE M!MatchingInv'
  <1>1. /\ UNCHANGED <<v1, v2, v3, v4, v5, v6, v9, v10, v11>>
        /\ v7' = IF v6 = <<>> THEN [pc |-> "done", game |-> 0, by |-> "name", state |-> "none"]
                 ELSE [pc |-> "done", game |-> 0, by |-> "name", at |-> M!Top,
                       state |-> IF M!Clear(rounding) THEN "matched" ELSE "review"]
    BY DEF M!ByName
  <1>2. \A a \in Apps : v10'[a] # 0 => M!Linked(a) = v10'[a]
    BY <1>1 DEF M!MatchingInv, M!LinksAgree
  <1>3. CASE v6 = <<>>
    <2>1. (v7 \in M!NoneDone)' /\ v7'.pc = "done" /\ v7'.state = "none"
      BY <1>1, <1>3 DEF M!NoneDone
    <2>2. M!NameIsClear'
      BY <2>1 DEF M!NameIsClear
    <2>. QED  BY <1>1, <1>2, <2>1, <2>2, MatchingTypes, WithoutLinks
  <1>4. CASE v6 # <<>>
    <2>1. M!Top \in DOMAIN v6
      BY <1>4, MatchingTypes, TopIsBest
    <2>2. (v7 \in M!NameDone)' /\ v7'.pc = "done" /\ v7'.at = M!Top /\ (v7'.state = "matched" => M!Clear(rounding))
      BY <1>1, <1>4, <2>1 DEF M!NameDone
    <2>3. M!NameIsClear'
      BY <1>1, <1>4, <2>2, ClearIs, MatchingTypes DEF M!NameIsClear
    <2>. QED  BY <1>1, <1>2, <2>2, <2>3, MatchingTypes, WithoutLinks
  <1>. QED  BY <1>3, <1>4

LEMMA MatchClose == ASSUME M!MatchingInv, M!Close PROVE M!MatchingInv'
  <1>1. /\ v7.pc = "done" /\ UNCHANGED <<v1, v2, v3, v4, v5, v6, v9, v11>> /\ v7' = M!Resting
        /\ v10' = IF v7.by = "steam" THEN [v10 EXCEPT ![v5.app] = IF v7.kept THEN v7.game ELSE 0] ELSE v10
    BY DEF M!Close
  <1>2. \A a \in Apps : v10[a] # 0 => M!Linked(a) = v10[a]
    BY DEF M!MatchingInv, M!LinksAgree
  <1>3. v7.by = "steam" => /\ v5.app \in Apps /\ v7.game \in FewGames
                           /\ v7.kept /\ v7.game # 0 => M!Linked(v5.app) = v7.game
    BY <1>1, ShapeIs DEF M!MatchingInv, M!LinksAgree
  <1>4. v10' \in [Apps -> FewGames \cup {0}]
    BY <1>1, <1>3, MatchingTypes
  <1>5. \A a \in Apps : v10'[a] # 0 => M!Linked(a) = v10'[a]
    BY <1>1, <1>2, <1>3, MatchingTypes
  <1>6. (v7 \in M!Steps)' /\ v7'.pc = "idle"
    BY <1>1 DEF M!Resting, M!Steps
  <1>7. M!NameIsClear'
    BY <1>6 DEF M!NameIsClear
  <1>. QED  BY <1>1, <1>4, <1>5, <1>6, <1>7, MatchingTypes, WithoutLinks

LEMMA MatchCommit == ASSUME M!MatchingInv, NEW g \in FewGames, M!Commit(g) PROVE M!MatchingInv'
  <1>. PICK app : app = v5.app
    OBVIOUS
  <1>1. /\ v7.pc = "done" /\ app # 0 /\ g \in v1 /\ v4' = v4 \cup {g} /\ v2' = v2 \cup {<<g, app>>}
        /\ v9' = [v9 EXCEPT ![app] = g] /\ v7' = M!Resting
        /\ v10' = [v10 EXCEPT ![app] = IF v7.by = "steam" /\ v7.kept /\ v7.game = g THEN g ELSE 0]
        /\ UNCHANGED <<v1, v3, v5, v6, v11>>
    BY DEF M!Commit
  <1>2. app \in Apps
    BY <1>1, MatchingTypes
  <1>3. \A a \in Apps : v10[a] # 0 => M!Linked(a) = v10[a]
    BY DEF M!MatchingInv, M!LinksAgree
  <1>4. \A a \in Apps : a # app => M!Linked(a)' = M!Linked(a)
    <2>. TAKE a \in Apps
    <2>. HAVE a # app
    <2>1. \A h \in FewGames : <<h, a>> \in v2' <=> <<h, a>> \in v2
      BY <1>1
    <2>. QED  BY <2>1, LinkedStays
  <1>5. v7.by = "steam" /\ v7.kept /\ v7.game = g => M!Linked(app)' = g
    <2>. HAVE v7.by = "steam" /\ v7.kept /\ v7.game = g
    <2>1. M!Linked(app) = g /\ g # 0
      BY <1>1, ShapeIs, MatchingConstants DEF M!MatchingInv, M!LinksAgree
    <2>2. g \in Linkers(app)
      BY <2>1, LinkedIs
    <2>3. <<g, app>> \in v2
      BY <2>2 DEF Linkers
    <2>. QED  BY <1>1, <2>1, <2>3, LinkedStays
  <1>6. \A a \in Apps : v10'[a] # 0 => M!Linked(a)' = v10'[a]
    BY <1>1, <1>2, <1>3, <1>4, <1>5, MatchingTypes
  <1>7. (v7 \in M!Steps)' /\ v7'.pc = "idle" /\ (v7 \notin M!ByLink)' /\ (v7 \notin M!LinkDone)'
    BY <1>1 DEF M!Resting, M!Steps, M!ByLink, M!LinkDone
  <1>8. M!LinksAgree' /\ M!NameIsClear'
    BY <1>6, <1>7 DEF M!LinksAgree, M!NameIsClear
  <1>9. v1' \subseteq FewGames /\ v4' \subseteq v1' /\ v2' \subseteq v1' \X Apps
        /\ v9' \in [Apps -> FewGames \cup {0}] /\ v10' \in [Apps -> FewGames \cup {0}]
    BY <1>1, <1>2, MatchingTypes
  <1>. QED  BY <1>1, <1>7, <1>8, <1>9, MatchingTypes, MatchingMoves DEF M!Shapes

LEMMA MatchSaveDetails == ASSUME M!MatchingInv, NEW g \in FewGames, M!SaveDetails(g) PROVE M!MatchingInv'
  <1>. PICK app : app = v5.app
    OBVIOUS
  <1>. PICK touched : touched = {a \in Apps : (<<g, a>> \in v2) # (<<g, a>> \in v2')}
    OBVIOUS
  <1>1. /\ g \in v1 /\ v2' = {l \in v2 : l[1] # g} \cup {<<g, a>> : a \in {b \in Apps : v3[b] = g}}
        /\ v10' = [a \in Apps |-> IF a \in touched THEN 0 ELSE v10[a]]
        /\ v7' = IF "kept" \in DOMAIN v7 /\ app \in touched THEN [v7 EXCEPT !.kept = FALSE] ELSE v7
        /\ UNCHANGED <<v1, v3, v4, v5, v6, v9, v11>>
    BY DEF M!SaveDetails
  <1>2. \A a \in Apps : a \notin touched => M!Linked(a)' = M!Linked(a)
    <2>. TAKE a \in Apps
    <2>. HAVE a \notin touched
    <2>1. \A h \in FewGames : <<h, a>> \in v2' <=> <<h, a>> \in v2
      <3>. TAKE h \in FewGames
      <3>1. CASE h = g
        BY <3>1
      <3>2. CASE h # g
        BY <1>1, <3>2
      <3>. QED  BY <3>1, <3>2
    <2>. QED  BY <2>1, LinkedStays
  <1>3. \A a \in Apps : v10[a] # 0 => M!Linked(a) = v10[a]
    BY DEF M!MatchingInv, M!LinksAgree
  <1>4. \A a \in Apps : v10'[a] # 0 => M!Linked(a)' = v10'[a]
    BY <1>1, <1>2, <1>3
  <1>5. v2' \subseteq v1' \X Apps /\ v10' \in [Apps -> FewGames \cup {0}]
    BY <1>1, MatchingTypes
  <1>6. CASE v7 \in M!ByLink \cup M!LinkDone
    <2>1. app \in Apps /\ v7.kept \in BOOLEAN
      BY <1>6, ShapeIs DEF M!MatchingInv
    <2>2. v7' = IF app \in touched THEN [v7 EXCEPT !.kept = FALSE] ELSE v7
      BY <1>1, <1>6 DEF M!ByLink, M!LinkDone
    <2>3. /\ v7'.pc = v7.pc /\ v7'.game = v7.game
          /\ v7'.kept = (IF app \in touched THEN FALSE ELSE v7.kept)
          /\ (v7 \in M!ByLink)' <=> v7 \in M!ByLink
          /\ (v7 \in M!LinkDone)' <=> v7 \in M!LinkDone
      BY <1>6, <2>2 DEF M!ByLink, M!LinkDone
    <2>4. v7.pc = "ask" => v10[app] = 0 /\ (v7.kept => M!Linked(app) = 0)
      BY DEF M!MatchingInv, M!LinksAgree
    <2>5. v7 \in M!LinkDone \/ v7.pc = "found" =>
            IF v7.kept THEN v7.game # 0 => M!Linked(app) = v7.game ELSE v10[app] = 0
      BY DEF M!MatchingInv, M!LinksAgree
    <2>6. v10'[app] = IF app \in touched THEN 0 ELSE v10[app]
      BY <1>1, <2>1
    <2>7. app \notin touched => M!Linked(app)' = M!Linked(app)
      BY <1>2, <2>1
    <2>8. M!LinksAgree'
      BY <1>1, <1>4, <2>3, <2>4, <2>5, <2>6, <2>7 DEF M!LinksAgree
    <2>9. M!NameIsClear'
      <3>1. v7'.pc # "done" \/ v7'.by = "steam"
        BY <1>6, <2>3 DEF M!ByLink, M!LinkDone
      <3>. QED  BY <3>1 DEF M!NameIsClear
    <2>. QED  BY <1>1, <1>5, <1>6, <2>1, <2>3, <2>8, <2>9, MatchingTypes, MatchingMoves DEF M!Shapes
  <1>7. CASE v7 \notin M!ByLink \cup M!LinkDone
    <2>1. v7' = v7
      BY <1>1, <1>7, ShapeIs
    <2>2. (v7 \notin M!ByLink /\ v7 \notin M!LinkDone)' /\ v7.pc \notin {"ask", "found"}
      BY <1>7, <2>1, ShapeIs DEF M!ByLink, M!LinkDone
    <2>3. M!LinksAgree'
      BY <1>4, <2>1, <2>2 DEF M!LinksAgree
    <2>4. M!NameIsClear'
      BY <1>1, <2>1 DEF M!MatchingInv, M!NameIsClear
    <2>5. (v7 \in M!Shapes)' /\ (v7.pc = "steam" => v5.app \in Apps)
      BY <1>1, <2>1, ShapeIs DEF M!MatchingInv, M!Shapes, M!Steps, M!ByLink, M!LinkDone, M!IdDone, M!NoneDone, M!NameDone
    <2>. QED  BY <1>1, <1>5, <2>1, <2>2, <2>3, <2>4, <2>5, MatchingTypes, MatchingMoves
  <1>. QED  BY <1>6, <1>7

LEMMA MatchElsewhere ==
  ASSUME M!MatchingInv, UNCHANGED <<v1, v2, v4, v5, v6, v7, v9, v10>>,
         v3' \in [Apps -> FewGames \cup {0}], v11' \subseteq Apps
  PROVE  M!MatchingInv'
  <1>1. \A a : M!Linked(a)' = M!Linked(a)
    BY LinkedStays
  <1>2. M!LinksAgree' /\ M!NameIsClear'
    BY <1>1 DEF M!MatchingInv, M!LinksAgree, M!NameIsClear, M!LinkDone
  <1>4. (v7 \in M!Shapes)'
    BY DEF M!MatchingInv, M!Shapes, M!Steps, M!ByLink, M!LinkDone, M!IdDone, M!NoneDone, M!NameDone
  <1>5. (v7.pc = "steam" \/ v7 \in M!ByLink \cup M!LinkDone)' => v5.app \in Apps
    BY DEF M!MatchingInv, M!ByLink, M!LinkDone
  <1>. QED  BY <1>2, <1>4, <1>5, MatchingTypes, MatchingMoves

LEMMA MatchingStep == ASSUME M!MatchingInv, M!MatchingNext PROVE M!MatchingInv'
  <1>1. ASSUME NEW a \in Apps, M!SyncOne(a) PROVE M!MatchingInv'
    <2>1. UNCHANGED <<v1, v2, v3, v4, v5, v6, v7, v9, v10>> /\ v11' \subseteq Apps
      BY <1>1, MatchingTypes DEF M!SyncOne
    <2>. QED  BY <2>1, MatchElsewhere, MatchingTypes
  <1>2. ASSUME NEW a \in Apps, NEW g \in FewGames \cup {0}, M!Relist(a, g) PROVE M!MatchingInv'
    <2>1. UNCHANGED <<v1, v2, v4, v5, v6, v7, v9, v10, v11>> /\ v3' \in [Apps -> FewGames \cup {0}]
      BY <1>2, MatchingTypes DEF M!Relist
    <2>. QED  BY <2>1, MatchElsewhere, MatchingTypes
  <1>. QED  BY <1>1, <1>2, MatchById, MatchBySteam, MatchAsk, MatchFound, MatchByName, MatchClose, MatchCommit,
               MatchSaveDetails DEF M!MatchingNext

LEMMA MatchingSafe == ASSUME M!MatchingInv PROVE M!MatchingTypeOK /\ M!NameIsClear /\ M!AppIsRemembered
  <1>1. M!AppIsRemembered
    <2>. SUFFICES ASSUME v7.pc = "done", v7.by = "steam" PROVE v10[v5.app] \in {0, v7.game}
      BY DEF M!AppIsRemembered
    <2>1. v7 \in M!LinkDone /\ v5.app \in Apps /\ v7.game # 0
      BY ShapeIs, MatchingConstants
    <2>. QED  BY <2>1 DEF M!MatchingInv, M!LinksAgree
  <1>. QED  BY <1>1 DEF M!MatchingInv

-----------------------------------------------------------------------------
(* Jobs: v1 is now, v2 stored, v3 loop, v4 next, v5 wake, v6 stopping, v7   *)
(* starts, v8 asked, v9 due and v10 cut.                                   *)

Times == 0..(MaxJobClock + FirstRun + Interval + Jitter)

LEMMA JobsShape ==
  J!JobsTypeOK <=> /\ v1 \in 0..MaxJobClock /\ v7 \in 0..MaxJobStarts
                   /\ v2 \in Times \cup {-1} /\ v4 \in Times
                   /\ v3 \in {"down", "load", "ready", "select", "run"}
                   /\ v5 \in BOOLEAN /\ v6 \in BOOLEAN /\ v8 \in BOOLEAN /\ v9 \in BOOLEAN /\ v10 \in BOOLEAN
  <1>1. J!None..(MaxJobClock + FirstRun + Interval + Jitter) = Times \cup {-1}
    BY JobsConstants DEF J!None, Times
  <1>. QED  BY <1>1 DEF J!JobsTypeOK, Times

LEMMA JobsStart == ASSUME J!JobsInit PROVE J!JobsInv
  <1>1. 0 \in Times /\ MaxJobClock \in Times /\ 0 \in 0..MaxJobClock /\ 0 \in 0..MaxJobStarts
    BY JobsConstants DEF Times
  <1>2. J!JobsTypeOK
    BY <1>1, JobsShape DEF J!JobsInit, J!None
  <1>. QED  BY <1>2 DEF J!JobsInit, J!JobsInv, J!NothingForgotten

LEMMA JobsStep == ASSUME J!JobsInv, J!JobsNext PROVE J!JobsInv'
  <1>t. /\ v1 \in 0..MaxJobClock /\ v7 \in 0..MaxJobStarts
        /\ v2 \in Times \cup {-1} /\ v4 \in Times
        /\ v3 \in {"down", "load", "ready", "select", "run"}
        /\ v5 \in BOOLEAN /\ v6 \in BOOLEAN /\ v8 \in BOOLEAN /\ v9 \in BOOLEAN /\ v10 \in BOOLEAN
    BY JobsShape DEF J!JobsInv
  <1>f. (v8 => v5) /\ (v10 => v2 # -1 /\ v2 <= v1) /\ (v9 => v2 # -1 /\ v2 <= v1)
    BY DEF J!JobsInv, J!NothingForgotten, J!None
  \* What is to be shown of the state after a step.
  <1>q. ASSUME /\ v1' \in 0..MaxJobClock /\ v7' \in 0..MaxJobStarts
               /\ v2' \in Times \cup {-1} /\ v4' \in Times
               /\ v3' \in {"down", "load", "ready", "select", "run"}
               /\ v5' \in BOOLEAN /\ v6' \in BOOLEAN /\ v8' \in BOOLEAN /\ v9' \in BOOLEAN /\ v10' \in BOOLEAN,
               (v8' => v5') /\ (v10' => v2' # -1 /\ v2' <= v1') /\ (v9' => v2' # -1 /\ v2' <= v1')
        PROVE  J!JobsInv'
    <2>1. J!JobsTypeOK'
      <3>1. J!None..(MaxJobClock + FirstRun + Interval + Jitter) = Times \cup {-1}
        BY JobsConstants DEF J!None, Times
      <3>. QED  BY <1>q, <3>1 DEF J!JobsTypeOK, Times
    <2>. QED  BY <1>q, <2>1 DEF J!JobsInv, J!NothingForgotten, J!None
  <1>1. CASE J!StartProcess
    <2>1. v7' \in 0..MaxJobStarts
      BY <1>1, <1>t, JobsConstants DEF J!StartProcess
    <2>2. /\ v3' = "load" /\ v5' = FALSE /\ v6' = FALSE /\ v8' = FALSE
          /\ v1' = v1 /\ v2' = v2 /\ v4' = v4 /\ v9' = v9 /\ v10' = v10
      BY <1>1 DEF J!StartProcess
    <2>. QED  BY <1>t, <1>f, <1>q, <2>1, <2>2
  <1>2. CASE J!RunNow
    BY <1>2, <1>t, <1>f, <1>q DEF J!RunNow
  <1>3. CASE J!Woken \/ J!TimeCame
    <2>1. /\ v3' = "run" /\ v8' = FALSE /\ (v9' <=> v2 # -1 /\ v2 <= v1)
          /\ v1' = v1 /\ v2' = v2 /\ v4' = v4 /\ v6' = v6 /\ v7' = v7 /\ v10' = v10
      BY <1>3 DEF J!Woken, J!TimeCame, J!BeginRun, J!None
    <2>2. v9' \in BOOLEAN /\ v5' \in BOOLEAN
      BY <1>3, <1>t, Zenon DEF J!Woken, J!TimeCame, J!BeginRun
    <2>. QED  BY <1>t, <1>f, <1>q, <2>1, <2>2
  <1>4. CASE J!Shutdown
    BY <1>4, <1>t, <1>f, <1>q DEF J!Shutdown
  <1>5. CASE J!Exit
    BY <1>5, <1>t, <1>f, <1>q DEF J!Exit
  <1>6. CASE J!Crash
    BY <1>6, <1>t, <1>f, <1>q DEF J!Crash
  <1>7. CASE J!Tick
    <2>1. v1' = v1 + 1 /\ v1' \in 0..MaxJobClock /\ (v2 <= v1 => v2 <= v1')
      BY <1>7, <1>t, JobsConstants DEF J!Tick, Times
    <2>. QED  BY <1>7, <1>t, <1>f, <1>q, <2>1 DEF J!Tick
  <1>8. ASSUME NEW delay \in 0..Jitter, NEW fails \in BOOLEAN, J!Load(delay, fails) PROVE J!JobsInv'
    <2>1. /\ v1 + FirstRun \in Times /\ v1 + FirstRun + delay \in Times /\ v1 + Interval + Jitter \in Times
      BY <1>t, JobsConstants DEF Times
    <2>2. v4' \in Times /\ v2' \in Times \cup {-1} /\ (v2 # -1 => v2' = v2)
      BY <1>8, <1>t, <2>1 DEF J!Load, J!None
    <2>3. v3' \in {"select", "ready"} /\ UNCHANGED <<v1, v5, v6, v7, v8, v9, v10>>
      BY <1>8 DEF J!Load
    <2>. QED  BY <1>t, <1>f, <1>q, <2>2, <2>3
  <1>9. ASSUME NEW delay \in 0..Jitter, NEW fails \in BOOLEAN, J!Finish(delay, fails) PROVE J!JobsInv'
    <2>1. v1 + Interval + delay \in Times
      BY <1>t, JobsConstants DEF Times
    <2>2. /\ v3' = "select" /\ v4' \in Times /\ v2' \in Times \cup {-1} /\ v9' = FALSE /\ v10' \in BOOLEAN
          /\ UNCHANGED <<v1, v5, v6, v7, v8>>
      BY <1>9, <1>t, <2>1 DEF J!Finish
    <2>3. v10' => (v9 \/ v10) /\ v2' = v2
      BY <1>9 DEF J!Finish
    <2>. QED  BY <1>t, <1>f, <1>q, <2>2, <2>3
  <1>. QED  BY <1>1, <1>2, <1>3, <1>4, <1>5, <1>6, <1>7, <1>8, <1>9 DEF J!JobsNext

-----------------------------------------------------------------------------
(* The process: v1 is schema, v2 binary, v3 snapshots, v4 pc, v5 running,   *)
(* v6 open, v7 starts, v8 before, v9 tries, v10 late and v11 bare.          *)

\* Rotation keeps what is among the last Keep, as far from the end.
LEMMA KeptHolds ==
  ASSUME NEW S, NEW s \in Seq(S)
  PROVE  /\ Proc!Kept(s) \in Seq(S)
         /\ \A i \in 1..Len(s) : Len(s) - i < Keep =>
              \E j \in 1..Len(Proc!Kept(s)) : Proc!Kept(s)[j] = s[i] /\ Len(Proc!Kept(s)) - j = Len(s) - i
  <1>. DEFINE m == IF Len(s) > Keep THEN Len(s) - Keep + 1 ELSE 1
  <1>1. m \in 1..(Len(s) + 1) /\ Len(s) \in Nat /\ Keep \in Nat
    BY ProcessConstants
  <1>2. Proc!Kept(s) = SubSeq(s, m, Len(s))
    BY DEF Proc!Kept
  <1>3. \A i \in 1..Len(s) : Len(s) - i < Keep => i >= m
    BY <1>1
  <1>. HIDE DEF m
  <1>4. PICK k : k = SubSeq(s, m, Len(s))
    OBVIOUS
  <1>5. /\ k \in Seq(S) /\ Len(k) = Len(s) - m + 1
        /\ \A j \in 1..(Len(s) - m + 1) : k[j] = s[m + j - 1]
    BY <1>1, <1>4
  <1>6. ASSUME NEW i \in 1..Len(s), Len(s) - i < Keep
        PROVE  \E j \in 1..Len(k) : k[j] = s[i] /\ Len(k) - j = Len(s) - i
    <2>1. i - m + 1 \in 1..(Len(s) - m + 1) /\ m + (i - m + 1) - 1 = i
          /\ (Len(s) - m + 1) - (i - m + 1) = Len(s) - i
      BY <1>1, <1>3, <1>6
    <2>. QED  BY <1>5, <2>1
  <1>. QED  BY <1>2, <1>4, <1>5, <1>6

LEMMA OneMore ==
  ASSUME NEW S, NEW s \in Seq(S), NEW e \in S
  PROVE  /\ Append(s, e) \in Seq(S) /\ Len(Append(s, e)) = Len(s) + 1
         /\ Append(s, e)[Len(s) + 1] = e /\ \A i \in 1..Len(s) : Append(s, e)[i] = s[i]
  BY AppendProperties

LEMMA StepNames ==
  /\ DOMAIN Proc!Steps = 1..4
  /\ Proc!Steps[1] = "requests" /\ Proc!Steps[2] = "workers" /\ Proc!Steps[3] = "jobs" /\ Proc!Steps[4] = "covers"
  /\ Proc!Onward(1) = "workers" /\ Proc!Onward(2) = "jobs" /\ Proc!Onward(3) = "covers" /\ Proc!Onward(4) = "close"
  <1>1. Proc!Steps = <<"requests", "workers", "jobs", "covers">>
    BY DEF Proc!Steps
  <1>2. Len(Proc!Steps) = 4 /\ DOMAIN Proc!Steps = 1..4
    BY <1>1
  <1>. QED  BY <1>1, <1>2 DEF Proc!Onward

LEMMA ProcessShape ==
  Proc!ProcessTypeOK <=> /\ v1 \in 0..Latest /\ v2 \in 1..Latest /\ v8 \in 0..Latest
                         /\ v3 \in Seq(0..Latest) /\ v5 \subseteq Proc!Owners
                         /\ v7 \in 0..MaxServes /\ v9 \in Nat
                         /\ v6 \in BOOLEAN /\ v10 \in BOOLEAN /\ v11 \in BOOLEAN
  BY DEF Proc!ProcessTypeOK

LEMMA ProcessStart == ASSUME Proc!ProcessInit PROVE Proc!ProcessInv
  <1>1. Proc!ProcessTypeOK
    <2>1. v1 \in 0..Latest /\ v2 \in 1..Latest /\ v8 \in 0..Latest /\ v7 \in 0..MaxServes /\ v9 \in Nat
      BY ProcessConstants DEF Proc!ProcessInit
    <2>2. v3 \in Seq(0..Latest)
      BY DEF Proc!ProcessInit
    <2>3. v5 \subseteq Proc!Owners /\ v6 \in BOOLEAN /\ v10 \in BOOLEAN /\ v11 \in BOOLEAN
      BY DEF Proc!ProcessInit
    <2>. QED  BY <2>1, <2>2, <2>3, ProcessShape
  <1>2. Proc!SnapshotInv
    BY <1>1 DEF Proc!ProcessInit, Proc!SnapshotInv, Proc!ProcessTypeOK
  <1>3. Proc!OpenInv
    BY DEF Proc!ProcessInit, Proc!OpenInv
  <1>. QED  BY <1>1, <1>2, <1>3 DEF Proc!ProcessInv

LEMMA ProcessTypes == ASSUME Proc!ProcessTypeOK, Proc!ProcessNext PROVE Proc!ProcessTypeOK'
  <1>. USE ProcessConstants
  <1>t. /\ v1 \in 0..Latest /\ v2 \in 1..Latest /\ v8 \in 0..Latest
        /\ v3 \in Seq(0..Latest) /\ v5 \subseteq Proc!Owners
        /\ v7 \in 0..MaxServes /\ v9 \in Nat
        /\ v6 \in BOOLEAN /\ v10 \in BOOLEAN /\ v11 \in BOOLEAN
    BY ProcessShape
  <1>q. ASSUME /\ v1' \in 0..Latest /\ v2' \in 1..Latest /\ v8' \in 0..Latest
               /\ v3' \in Seq(0..Latest) /\ v5' \subseteq Proc!Owners
               /\ v7' \in 0..MaxServes /\ v9' \in Nat
               /\ v6' \in BOOLEAN /\ v10' \in BOOLEAN /\ v11' \in BOOLEAN
        PROVE  Proc!ProcessTypeOK'
    BY <1>q DEF Proc!ProcessTypeOK
  <1>1. CASE Proc!Start \/ Proc!Serve \/ Proc!Command \/ Proc!CommandDone
    <2>1. v7' \in 0..MaxServes
      BY <1>1, <1>t DEF Proc!Start, Proc!Serve, Proc!Command, Proc!CommandDone, Proc!history
    <2>2. /\ v5' \subseteq Proc!Owners /\ v6' \in BOOLEAN /\ v10' \in BOOLEAN
          /\ UNCHANGED <<v1, v2, v3, v8, v9, v11>>
      BY <1>1, <1>t DEF Proc!Start, Proc!Serve, Proc!Command, Proc!CommandDone, Proc!history
    <2>. QED  BY <1>t, <1>q, <2>1, <2>2
  <1>2. CASE Proc!Snapshot
    <2>1. Append(v3, v1) \in Seq(0..Latest)
      BY <1>t
    <2>2. Proc!Kept(Append(v3, v1)) \in Seq(0..Latest)
      BY <2>1, KeptHolds
    <2>. QED  BY <1>2, <1>t, <1>q, <2>2 DEF Proc!Snapshot
  <1>3. ASSUME NEW began \in BOOLEAN, Proc!SnapshotCut(began) PROVE Proc!ProcessTypeOK'
    <2>1. Append(v3, 0) \in Seq(0..Latest)
      BY <1>t, AppendProperties
    <2>2. v3' = IF began THEN Append(v3, 0) ELSE v3
      BY <1>3 DEF Proc!SnapshotCut
    <2>3. v3' \in Seq(0..Latest)
      BY <1>t, <2>1, <2>2
    <2>4. v9' = v9 + 1 /\ v6' = FALSE
          /\ v1' = v1 /\ v2' = v2 /\ v5' = v5 /\ v7' = v7 /\ v8' = v8 /\ v10' = v10 /\ v11' = v11
      BY <1>3 DEF Proc!SnapshotCut
    <2>5. v9' \in Nat /\ v6' \in BOOLEAN
      <3>1. v9 \in Nat
        BY <1>t
      <3>2. v9' = v9 + 1
        BY <2>4
      <3>3. v9' \in Nat
        BY <3>1, <3>2
      <3>4. v6' \in BOOLEAN
        BY <2>4
      <3>. QED  BY <3>3, <3>4
    <2>6. /\ v1' \in 0..Latest /\ v2' \in 1..Latest /\ v8' \in 0..Latest /\ v5' \subseteq Proc!Owners
          /\ v7' \in 0..MaxServes /\ v10' \in BOOLEAN /\ v11' \in BOOLEAN
      BY <1>t, <2>4, Zenon
    <2>. QED  BY <1>q, <2>3, <2>5, <2>6
  <1>4. CASE Proc!ApplyMigration
    <2>1. v1' \in 0..Latest
      BY <1>4, <1>t DEF Proc!ApplyMigration
    <2>. QED  BY <1>4, <1>t, <1>q, <2>1 DEF Proc!ApplyMigration
  <1>5. CASE Proc!Signal \/ Proc!Close \/ Proc!Exit \/ Proc!Crash
    BY <1>5, <1>t, <1>q DEF Proc!Signal, Proc!Close, Proc!Exit, Proc!Crash, Proc!history
  <1>6. ASSUME NEW o \in Proc!Owners, Proc!OwnerStops(o) PROVE Proc!ProcessTypeOK'
    BY <1>6, <1>t, <1>q DEF Proc!OwnerStops, Proc!history
  <1>7. ASSUME NEW i, Proc!Stopped(i) \/ Proc!OutOfTime(i) PROVE Proc!ProcessTypeOK'
    BY <1>7, <1>t, <1>q DEF Proc!Stopped, Proc!OutOfTime, Proc!history
  <1>8. ASSUME NEW v \in 1..Latest, Proc!Install(v) PROVE Proc!ProcessTypeOK'
    BY <1>8, <1>t, <1>q DEF Proc!Install
  <1>9. ASSUME NEW i \in DOMAIN v3, Proc!Restore(i) PROVE Proc!ProcessTypeOK'
    <2>1. PICK n : n = v3[i]
      OBVIOUS
    <2>2. n \in 0..Latest /\ n # 0
      BY <1>9, <1>t, <2>1, ElementOfSeq DEF Proc!Restore
    <2>3. n \in 1..Latest
      BY <2>2
    <2>. QED  BY <1>9, <1>t, <1>q, <2>1, <2>2, <2>3 DEF Proc!Restore
  <1>. QED  BY <1>1, <1>2, <1>3, <1>4, <1>5, <1>6, <1>7, <1>8, <1>9 DEF Proc!ProcessNext

LEMMA ProcessSnapshots == ASSUME Proc!ProcessInv, Proc!ProcessNext PROVE Proc!SnapshotInv'
  <1>t. /\ v1 \in Nat /\ v2 \in Nat /\ v8 \in Nat /\ v9 \in Nat /\ v3 \in Seq(0..Latest) /\ Keep \in Nat
        /\ v1 \in 0..Latest
        /\ v11 \in BOOLEAN
    BY ProcessConstants DEF Proc!ProcessInv, Proc!ProcessTypeOK
  <1>s. /\ v1 >= v8
        /\ v8 # 0 /\ ~v11 /\ v9 <= Keep /\ (v1 > v8 \/ (v4 = "migrate" /\ v1 < v2)) => Proc!Held(v8, v9)
    BY DEF Proc!ProcessInv, Proc!SnapshotInv
  \* Steps that leave schema, binary, snapshots and what is remembered of them.
  <1>a. ASSUME UNCHANGED <<v1, v2, v3, v8, v9, v11>>, v4' = "migrate" => v4 = "migrate"
        PROVE  Proc!SnapshotInv'
    <2>1. v8' # 0 /\ ~v11' /\ v9' <= Keep /\ (v1' > v8' \/ (v4' = "migrate" /\ v1' < v2')) => Proc!Held(v8, v9)
      BY <1>a, <1>s
    <2>. QED  BY <1>a, <1>s, <2>1 DEF Proc!SnapshotInv, Proc!Held
  <1>1. CASE Proc!Start \/ Proc!Serve \/ Proc!Command \/ Proc!CommandDone
    BY <1>1, <1>a DEF Proc!Start, Proc!Serve, Proc!Command, Proc!CommandDone, Proc!history
  <1>2. CASE Proc!Snapshot
    <2>1. /\ v3' = IF Proc!NeedsSnapshot THEN Proc!Kept(Append(v3, v1)) ELSE v3
          /\ v9' = IF Proc!NeedsSnapshot THEN v9 + 1 ELSE v9
          /\ UNCHANGED <<v1, v2, v8, v11>>
      BY <1>2 DEF Proc!Snapshot
    <2>. SUFFICES ASSUME v8 # 0, ~v11, v9' <= Keep, v1 > v8 \/ v1 < v2
                  PROVE  \E i \in 1..Len(v3') : v3'[i] = v8 /\ Len(v3') - i < v9'
      BY <1>s, <2>1 DEF Proc!SnapshotInv, Proc!Held
    <2>2. CASE Proc!NeedsSnapshot
      <3>1. PICK s : s = Append(v3, v1)
        OBVIOUS
      <3>2. s \in Seq(0..Latest) /\ Len(s) = Len(v3) + 1 /\ s[Len(v3) + 1] = v1 /\ \A i \in 1..Len(v3) : s[i] = v3[i]
        <4>1. v3 \in Seq(0..Latest) /\ v1 \in 0..Latest
          BY <1>t
        <4>2. /\ Append(v3, v1) \in Seq(0..Latest) /\ Len(Append(v3, v1)) = Len(v3) + 1
              /\ Append(v3, v1)[Len(v3) + 1] = v1 /\ \A i \in 1..Len(v3) : Append(v3, v1)[i] = v3[i]
          BY <4>1, OneMore
        <4>. QED  BY <3>1, <4>2
      <3>3. PICK i \in 1..Len(s) : s[i] = v8 /\ Len(s) - i < v9 + 1
        <4>1. CASE v1 = v8
          <5>1. Len(v3) + 1 \in 1..Len(s) /\ Len(s) - (Len(v3) + 1) < v9 + 1
            BY <1>t, <3>2
          <5>. QED  BY <3>2, <4>1, <5>1
        <4>2. CASE v1 > v8
          <5>1. PICK i \in 1..Len(v3) : v3[i] = v8 /\ Len(v3) - i < v9
            BY <1>s, <1>t, <2>1, <2>2, <4>2 DEF Proc!Held
          <5>2. i \in 1..Len(s) /\ Len(s) - i < v9 + 1
            BY <1>t, <3>2, <5>1
          <5>. QED  BY <3>2, <5>1, <5>2
        <4>. QED  BY <1>s, <1>t, <4>1, <4>2
      <3>4. Len(s) - i < Keep
        BY <1>t, <2>1, <2>2, <3>2, <3>3
      <3>5. PICK j \in 1..Len(Proc!Kept(s)) : Proc!Kept(s)[j] = s[i] /\ Len(Proc!Kept(s)) - j = Len(s) - i
        BY <3>2, <3>4, KeptHolds
      <3>. QED  BY <2>1, <2>2, <3>1, <3>3, <3>5
    <2>3. CASE ~Proc!NeedsSnapshot
      BY <1>s, <1>t, <2>1, <2>3 DEF Proc!NeedsSnapshot, Proc!Held
    <2>. QED  BY <2>2, <2>3
  <1>3. ASSUME NEW began \in BOOLEAN, Proc!SnapshotCut(began) PROVE Proc!SnapshotInv'
    <2>1. /\ v3' = IF began THEN Append(v3, 0) ELSE v3
          /\ v9' = v9 + 1 /\ v4' = "down" /\ UNCHANGED <<v1, v2, v8, v11>>
      BY <1>3 DEF Proc!SnapshotCut
    <2>. SUFFICES ASSUME v8 # 0, ~v11, v9 + 1 <= Keep, v1 > v8
                  PROVE  \E i \in 1..Len(v3') : v3'[i] = v8 /\ Len(v3') - i < v9 + 1
      BY <1>s, <2>1 DEF Proc!SnapshotInv, Proc!Held
    <2>2. PICK i \in 1..Len(v3) : v3[i] = v8 /\ Len(v3) - i < v9
      BY <1>s, <1>t DEF Proc!Held
    <2>3. CASE began
      <3>1. PICK s : s = Append(v3, 0)
        OBVIOUS
      <3>2. Len(s) = Len(v3) + 1 /\ \A k \in 1..Len(v3) : s[k] = v3[k]
        <4>1. 0 \in 0..Latest
          BY ProcessConstants
        <4>. QED  BY <1>t, <3>1, <4>1, OneMore
      <3>3. i \in 1..Len(s) /\ Len(s) - i < v9 + 1
        BY <1>t, <2>2, <3>2
      <3>. QED  BY <2>1, <2>2, <2>3, <3>1, <3>2, <3>3
    <2>4. CASE ~began
      BY <1>t, <2>1, <2>2, <2>4
    <2>. QED  BY <2>3, <2>4
  <1>4. CASE Proc!ApplyMigration
    <2>1. /\ v4 \in {"migrate", "command"} /\ v1 < v2 /\ UNCHANGED <<v2, v3, v8, v9>>
          /\ (v1' = v1 /\ v11' = v11 /\ v4' = "down") \/ (v1' = v1 + 1 /\ v11' = (v11 \/ v4 = "command"))
      BY <1>4 DEF Proc!ApplyMigration
    <2>2. v8 # 0 /\ ~v11' /\ v9 <= Keep /\ (v1' > v8 \/ v4' = "migrate") => Proc!Held(v8, v9) \/ v1' = v1
      BY <1>s, <1>t, <2>1
    <2>3. v1' = v1 /\ v8 # 0 /\ ~v11' /\ v9 <= Keep /\ (v1' > v8 \/ v4' = "migrate") => Proc!Held(v8, v9)
      BY <1>s, <1>t, <2>1
    <2>4. v1' >= v8
      BY <1>s, <1>t, <2>1
    <2>. QED  BY <2>1, <2>2, <2>3, <2>4 DEF Proc!SnapshotInv, Proc!Held
  <1>5. CASE Proc!Signal \/ Proc!Close \/ Proc!Exit \/ Proc!Crash
    BY <1>5, <1>a DEF Proc!Signal, Proc!Close, Proc!Exit, Proc!Crash, Proc!history, Proc!Steps
  <1>6. ASSUME NEW o \in Proc!Owners, Proc!OwnerStops(o) PROVE Proc!SnapshotInv'
    BY <1>6, <1>a DEF Proc!OwnerStops, Proc!history
  <1>7. ASSUME NEW i \in DOMAIN Proc!Steps, Proc!Stopped(i) \/ Proc!OutOfTime(i) PROVE Proc!SnapshotInv'
    <2>1. Proc!Onward(i) # "migrate"
      BY StepNames
    <2>. QED  BY <1>7, <1>a, <2>1 DEF Proc!Stopped, Proc!OutOfTime, Proc!history
  <1>8. ASSUME NEW v \in 1..Latest, Proc!Install(v) PROVE Proc!SnapshotInv'
    BY <1>8, <1>t DEF Proc!Install, Proc!SnapshotInv
  <1>9. ASSUME NEW i \in DOMAIN v3, Proc!Restore(i) PROVE Proc!SnapshotInv'
    <2>1. DOMAIN v3 = 1..Len(v3)
      BY <1>t
    <2>2. v3[i] \in 0..Latest
      BY <1>t, <2>1, ElementOfSeq
    <2>3. v3[i] \in Nat
      BY <2>2
    <2>. QED  BY <1>9, <2>3 DEF Proc!Restore, Proc!SnapshotInv
  <1>. QED  BY <1>1, <1>2, <1>3, <1>4, <1>5, <1>6, <1>7, <1>8, <1>9 DEF Proc!ProcessNext

LEMMA ProcessOpens == ASSUME Proc!ProcessInv, Proc!ProcessNext PROVE Proc!OpenInv'
  <1>. USE DEF Proc!ProcessInv, Proc!OpenInv
  <1>1. CASE Proc!Start \/ Proc!Serve \/ Proc!Command \/ Proc!CommandDone
    BY <1>1 DEF Proc!Start, Proc!Serve, Proc!Command, Proc!CommandDone, Proc!history, Proc!Owners
  <1>2. CASE Proc!Snapshot
    BY <1>2 DEF Proc!Snapshot, Proc!Owners
  <1>3. ASSUME NEW began \in BOOLEAN, Proc!SnapshotCut(began) PROVE Proc!OpenInv'
    BY <1>3 DEF Proc!SnapshotCut, Proc!Owners
  <1>4. CASE Proc!ApplyMigration
    BY <1>4 DEF Proc!ApplyMigration, Proc!Owners
  <1>5. CASE Proc!Signal \/ Proc!Close \/ Proc!Exit \/ Proc!Crash
    BY <1>5, StepNames DEF Proc!Signal, Proc!Close, Proc!Exit, Proc!Crash, Proc!history, Proc!Owners
  <1>6. ASSUME NEW o \in Proc!Owners, Proc!OwnerStops(o) PROVE Proc!OpenInv'
    BY <1>6 DEF Proc!OwnerStops, Proc!history, Proc!Owners
  <1>7. ASSUME NEW i \in DOMAIN Proc!Steps, Proc!Stopped(i) \/ Proc!OutOfTime(i) PROVE Proc!OpenInv'
    <2>1. i \in {1, 2, 3, 4}
      BY StepNames
    <2>. QED  BY <1>7, <2>1, StepNames DEF Proc!Stopped, Proc!OutOfTime, Proc!Stopping, Proc!history, Proc!Owners
  <1>8. ASSUME NEW v \in 1..Latest, Proc!Install(v) PROVE Proc!OpenInv'
    BY <1>8 DEF Proc!Install, Proc!Owners
  <1>9. ASSUME NEW i \in DOMAIN v3, Proc!Restore(i) PROVE Proc!OpenInv'
    BY <1>9 DEF Proc!Restore, Proc!Owners
  <1>. QED  BY <1>1, <1>2, <1>3, <1>4, <1>5, <1>6, <1>7, <1>8, <1>9 DEF Proc!ProcessNext

LEMMA ProcessStep == ASSUME Proc!ProcessInv, Proc!ProcessNext PROVE Proc!ProcessInv'
  BY ProcessTypes, ProcessSnapshots, ProcessOpens DEF Proc!ProcessInv

LEMMA ProcessSafe == ASSUME Proc!ProcessInv PROVE Proc!SnapshotSurvives /\ Proc!ClosedLast
  <1>1. Proc!SnapshotSurvives
    BY DEF Proc!ProcessInv, Proc!ProcessTypeOK, Proc!SnapshotInv, Proc!Held, Proc!SnapshotSurvives
  <1>2. Proc!ClosedLast
    BY DEF Proc!ProcessInv, Proc!ProcessTypeOK, Proc!OpenInv, Proc!Owners, Proc!ClosedLast
  <1>. QED  BY <1>1, <1>2

-----------------------------------------------------------------------------
(* Alerts: v1 is recorded, v2 notes, v3 subs, v4 alert, v5 deliver, v6      *)
(* digest, v7 pushes, v8 mails, v9 stops, v10 owed and v11 unsent.         *)

NoteKeys == Keys \cup {N!NoKey}

\* What is told of the notifications, for steps to change it.
Told(s) == /\ s \in Seq(N!Note) /\ Len(s) \in Nat /\ DOMAIN s = 1..Len(s)
           /\ \A i \in 1..Len(s) : s[i] \in N!Note /\ s[i].key \in NoteKeys

LEMMA SeqIsTold == \A s \in Seq(N!Note) : Told(s)
  <1>1. ASSUME NEW s \in Seq(N!Note), NEW i \in 1..Len(s) PROVE s[i] \in N!Note /\ s[i].key \in NoteKeys
    <2>1. s[i] \in N!Note
      BY <1>1, ElementOfSeq
    <2>. QED  BY <2>1 DEF N!Note, NoteKeys
  <1>. QED  BY <1>1 DEF Told

\* A flag of a notification is set.
LEMMA NoteWith ==
  ASSUME NEW r \in N!Note, NEW q,
         \/ q = [r EXCEPT !.read = TRUE] \/ q = [r EXCEPT !.old = TRUE]
         \/ q = [r EXCEPT !.pushed = TRUE] \/ q = [r EXCEPT !.emailed = TRUE]
  PROVE  /\ q \in N!Note /\ q.key = r.key
         /\ q = [r EXCEPT !.pushed = TRUE] \/ q.pushed = r.pushed
         /\ q = [r EXCEPT !.emailed = TRUE] \/ q.emailed = r.emailed
         /\ q = [r EXCEPT !.pushed = TRUE] => q.pushed /\ q.emailed = r.emailed
         /\ q = [r EXCEPT !.emailed = TRUE] => q.emailed /\ q.pushed = r.pushed
         /\ q = [r EXCEPT !.read = TRUE] \/ q = [r EXCEPT !.old = TRUE] => q.pushed = r.pushed /\ q.emailed = r.emailed
  BY DEF N!Note

LEMMA OneReplaced ==
  ASSUME NEW S, NEW s \in Seq(S), NEW i \in 1..Len(s), NEW e \in S
  PROVE  /\ [s EXCEPT ![i] = e] \in Seq(S) /\ Len([s EXCEPT ![i] = e]) = Len(s)
         /\ [s EXCEPT ![i] = e][i] = e /\ \A j \in 1..Len(s) : j # i => [s EXCEPT ![i] = e][j] = s[j]
  OBVIOUS

\* A notification is written.
LEMMA NoteAdded ==
  ASSUME v2 \in Seq(N!Note), NEW key \in NoteKeys, N!Notify(key)
  PROVE  /\ v2' \in Seq(N!Note) /\ Len(v2') = Len(v2) + 1
         /\ \A i \in 1..Len(v2) : v2'[i] = v2[i]
         /\ v2'[Len(v2) + 1].key = key /\ ~v2'[Len(v2) + 1].emailed
  <1>. DEFINE e == [key |-> key, read |-> FALSE, old |-> FALSE, pushed |-> FALSE, emailed |-> FALSE]
  <1>1. e \in N!Note /\ e.key = key /\ ~e.emailed
    BY DEF N!Note, NoteKeys
  <1>2. v2' = Append(v2, e)
    BY DEF N!Notify
  <1>. HIDE DEF e
  <1>3. Append(v2, e) \in Seq(N!Note) /\ Len(Append(v2, e)) = Len(v2) + 1
        /\ Append(v2, e)[Len(v2) + 1] = e /\ \A i \in 1..Len(v2) : Append(v2, e)[i] = v2[i]
    BY <1>1, OneMore
  <1>. QED  BY <1>1, <1>2, <1>3

LEMMA AlertsTypes ==
  N!AlertsTypeOK <=> /\ v1 \subseteq Keys /\ Len(v2) <= MaxNotes
                     /\ \A n \in DOMAIN v2 : v2[n].key \in NoteKeys
                     /\ v3 \in [Endpoints -> -1..(MaxFailures - 1)]
                     /\ v9.alerts \subseteq Keys /\ v9.mails \cup v9.unmarked \subseteq 1..MaxNotes
                     /\ v9.count \in 0..MaxStops
                     /\ v10 \cup v11 \subseteq (1..MaxNotes) \X Endpoints
  BY DEF N!AlertsTypeOK, NoteKeys, N!Ids

LEMMA AlertsStart == ASSUME N!AlertsInit PROVE N!AlertsInv
  <1>. USE AlertsConstants
  <1>1. v2 = << >> /\ v2 \in Seq(N!Note) /\ Len(v2) = 0 /\ DOMAIN v2 = {}
    BY DEF N!AlertsInit
  <1>2. v9.alerts = {} /\ v9.mails = {} /\ v9.unmarked = {} /\ v9.count = 0 /\ v10 = {} /\ v11 = {} /\ DOMAIN v9 = {"alerts", "mails", "unmarked", "count"}
    BY DEF N!AlertsInit
  <1>3. v3 \in [Endpoints -> -1..(MaxFailures - 1)] /\ 0 \in 0..MaxStops
    BY DEF N!AlertsInit, N!None
  <1>4. N!AlertsTypeOK
    BY <1>1, <1>2, <1>3, AlertsTypes DEF N!AlertsInit
  <1>5. N!AlertInv
    BY <1>1 DEF N!AlertsInit, N!AlertInv, N!Resting
  <1>6. N!DeliverInv
    BY <1>1 DEF N!AlertsInit, N!DeliverInv, N!Resting
  <1>7. N!DigestInv
    BY <1>1 DEF N!AlertsInit, N!DigestInv, N!Resting
  <1>8. v7 \in [N!Ids \X Endpoints -> Nat]
    BY DEF N!AlertsInit
  <1>9. N!OwedInv
    BY <1>2 DEF N!OwedInv
  <1>. QED  BY <1>1, <1>2, <1>4, <1>5, <1>6, <1>7, <1>8, <1>9 DEF N!AlertsInv

\* Steps of one of the three leave what holds of the others, as long as they
\* keep the keys of the notifications, their pushed or their emailed flags.
LEMMA AlertKept ==
  ASSUME N!AlertInv, v1' = v1, v4' = v4, v9'.alerts = v9.alerts, Len(v2') = Len(v2),
         \A i \in 1..Len(v2) : v2'[i].key = v2[i].key
  PROVE  N!AlertInv'
  BY DEF N!AlertInv

LEMMA DeliverKept ==
  ASSUME N!DeliverInv, v5' = v5, v7' = v7, Len(v2) \in Nat, Len(v2') \in Nat, Len(v2) <= Len(v2'),
         v9.unmarked \subseteq v9'.unmarked, \A i \in 1..Len(v2) : v2'[i].pushed = v2[i].pushed
  PROVE  N!DeliverInv'
  <1>1. \A i \in 1..Len(v2) : i \in 1..Len(v2')
    OBVIOUS
  <1>. QED  BY <1>1 DEF N!DeliverInv

LEMMA OwedKept ==
  ASSUME N!OwedInv, UNCHANGED <<v5, v7, v10, v11>>
  PROVE  N!OwedInv'
  BY DEF N!OwedInv, N!Sending

LEMMA DigestKept ==
  ASSUME N!DigestInv, v6' = v6, v8' = v8, v9'.mails = v9.mails, Len(v2) \in Nat, Len(v2') \in Nat, Len(v2) <= Len(v2'),
         \A i \in 1..Len(v2) : v2[i].emailed => v2'[i].emailed,
         \A i \in 1..Len(v2') : v2'[i].emailed => i \in 1..Len(v2) /\ v2[i].emailed
  PROVE  N!DigestInv'
  <1>1. \A i \in 1..Len(v2) : i \in 1..Len(v2')
    OBVIOUS
  <1>. QED  BY <1>1 DEF N!DigestInv

\* What a step shows to keep all of it.
LEMMA AlertsAfter ==
  ASSUME v1' \subseteq Keys, v2' \in Seq(N!Note), Len(v2') <= MaxNotes,
         v3' \in [Endpoints -> -1..(MaxFailures - 1)],
         v9'.alerts \subseteq Keys, v9'.mails \subseteq N!Ids, v9'.unmarked \subseteq N!Ids, v9'.count \in 0..MaxStops,
         DOMAIN v9' = {"alerts", "mails", "unmarked", "count"}, v7' \in [N!Ids \X Endpoints -> Nat],
         N!AlertInv', N!DeliverInv', N!OwedInv', N!DigestInv'
  PROVE  N!AlertsInv'
  <1>1. \A n \in DOMAIN v2' : v2'[n].key \in Keys \cup {N!NoKey}
    BY SeqIsTold DEF Told, NoteKeys
  <1>2. N!AlertsTypeOK'
    BY <1>1 DEF N!AlertsTypeOK, N!OwedInv
  <1>. QED  BY <1>2 DEF N!AlertsInv

LEMMA AlertsBefore ==
  ASSUME N!AlertsInv
  PROVE  /\ v1 \subseteq Keys /\ v2 \in Seq(N!Note) /\ Len(v2) <= MaxNotes
         /\ v3 \in [Endpoints -> -1..(MaxFailures - 1)]
         /\ v9.alerts \subseteq Keys /\ v9.mails \subseteq N!Ids /\ v9.unmarked \subseteq N!Ids
         /\ v9.count \in 0..MaxStops
         /\ DOMAIN v9 = {"alerts", "mails", "unmarked", "count"} /\ v7 \in [N!Ids \X Endpoints -> Nat]
         /\ N!AlertInv /\ N!DeliverInv /\ N!OwedInv /\ N!DigestInv
         /\ Told(v2)
  <1>1. Told(v2)
    BY SeqIsTold DEF N!AlertsInv
  <1>. QED  BY <1>1 DEF N!AlertsInv, N!AlertsTypeOK

\* A step of the alert job, or of nobody's: the notifications stay, or grow by one.
LEMMA AlertJobStep ==
  ASSUME N!AlertsInv,
         \/ \E hits \in SUBSET Keys : N!SelectHits(hits)
         \/ \E key \in Keys : N!Once(key)
         \/ N!NotifyAlert \/ N!AlertCut \/ N!NotifySocial
  PROVE  N!AlertsInv'
  <1>. USE AlertsBefore, AlertsConstants
  <1>1. ASSUME NEW hits \in SUBSET Keys, N!SelectHits(hits) PROVE N!AlertsInv'
    <2>1. UNCHANGED <<v1, v2, v3, v5, v6, v7, v8, v9, v10, v11>> /\ v4' = [pc |-> "once", todo |-> hits] /\ v4 = N!Resting
      BY <1>1 DEF N!SelectHits, N!pushVars
    <2>2. N!AlertInv'
      BY <2>1 DEF N!AlertInv, N!Resting
    <2>. QED  BY <2>1, <2>2, DeliverKept, OwedKept, DigestKept, AlertsAfter DEF Told
  <1>2. ASSUME NEW key \in Keys, N!Once(key) PROVE N!AlertsInv'
    <2>1. /\ UNCHANGED <<v2, v3, v5, v6, v7, v8, v9, v10, v11>> /\ v4.pc = "once" /\ key \in v4.todo /\ v1' = v1 \cup {key}
          /\ v4' = IF key \notin v1 THEN [pc |-> "notify", todo |-> v4.todo \ {key}, key |-> key]
                   ELSE IF v4.todo = {key} THEN N!Resting ELSE [pc |-> "once", todo |-> v4.todo \ {key}]
      BY <1>2 DEF N!Once, N!pushVars
    <2>2. /\ v4.todo \subseteq Keys
          /\ \A i \in 1..Len(v2) : v2[i].key \in v1 \cup {N!NoKey}
          /\ \A i, j \in 1..Len(v2) : v2[i].key = v2[j].key /\ v2[i].key # N!NoKey => i = j
          /\ \A k \in v1 : (\E i \in 1..Len(v2) : v2[i].key = k) \/ k \in v9.alerts
      BY <2>1 DEF N!AlertInv, N!Resting
    <2>3. CASE key \notin v1
      <3>1. v4'.pc = "notify" /\ v4'.todo \subseteq Keys /\ v4'.key = key
        BY <2>1, <2>2, <2>3
      <3>2. \A i \in 1..Len(v2) : v2[i].key # key
        BY <2>2, <2>3 DEF N!NoKey
      <3>3. N!AlertInv'
        BY <2>1, <2>2, <3>1, <3>2 DEF N!AlertInv
      <3>. QED  BY <2>1, <3>3, DeliverKept, OwedKept, DigestKept, AlertsAfter DEF Told
    <2>4. CASE key \in v1
      <3>1. v1' = v1 /\ (v4' = N!Resting \/ (v4'.pc = "once" /\ v4'.todo \subseteq Keys))
        BY <2>1, <2>2, <2>4
      <3>2. v4'.pc # "notify"
        BY <3>1 DEF N!Resting
      <3>3. N!AlertInv'
        BY <2>1, <2>2, <3>1, <3>2 DEF N!AlertInv
      <3>. QED  BY <2>1, <3>1, <3>3, DeliverKept, OwedKept, DigestKept, AlertsAfter DEF Told
    <2>. QED  BY <2>3, <2>4
  <1>3. ASSUME NEW key \in NoteKeys, N!Notify(key), Len(v2) < MaxNotes, UNCHANGED <<v1, v3, v5, v6, v7, v8, v9, v10, v11>>,
               N!AlertInv' PROVE N!AlertsInv'
    <2>1. /\ v2' \in Seq(N!Note) /\ Len(v2') = Len(v2) + 1 /\ \A i \in 1..Len(v2) : v2'[i] = v2[i]
      BY <1>3, NoteAdded
    <2>2. Len(v2') \in Nat /\ Len(v2') <= MaxNotes /\ Len(v2) <= Len(v2') /\ Len(v2) \in Nat
      BY <1>3, <2>1 DEF Told
    <2>3. ASSUME NEW i \in 1..Len(v2'), v2'[i].emailed PROVE i \in 1..Len(v2) /\ v2[i].emailed
      <3>1. ~v2'[Len(v2) + 1].emailed
        BY <1>3, NoteAdded
      <3>2. i \in 1..Len(v2) \/ i = Len(v2) + 1
        BY <2>1, <2>2, <2>3
      <3>. QED  BY <2>1, <2>3, <3>1, <3>2
    <2>. QED  BY <1>3, <2>1, <2>2, <2>3, DeliverKept, OwedKept, DigestKept, AlertsAfter
  <1>4. CASE N!NotifyAlert
    <2>1. /\ v4.pc = "notify" /\ Len(v2) < MaxNotes /\ N!Notify(v4.key) /\ UNCHANGED <<v1, v3, v5, v6, v7, v8, v9, v10, v11>>
          /\ v4' = IF v4.todo = {} THEN N!Resting ELSE [pc |-> "once", todo |-> v4.todo]
      BY <1>4 DEF N!NotifyAlert, N!CanNotify, N!pushVars
    <2>2. /\ v4.todo \subseteq Keys /\ v4.key \in v1 /\ v4.key \in Keys /\ v4.key # N!NoKey
          /\ \A i \in 1..Len(v2) : v2[i].key # v4.key
          /\ \A i \in 1..Len(v2) : v2[i].key \in v1 \cup {N!NoKey}
          /\ \A i, j \in 1..Len(v2) : v2[i].key = v2[j].key /\ v2[i].key # N!NoKey => i = j
          /\ \A k \in v1 : (\E i \in 1..Len(v2) : v2[i].key = k) \/ k \in v9.alerts \/ v4.key = k
      BY <2>1 DEF N!AlertInv, N!Resting, N!NoKey
    <2>3. /\ Len(v2') = Len(v2) + 1 /\ \A i \in 1..Len(v2) : v2'[i] = v2[i]
          /\ v2'[Len(v2) + 1].key = v4.key
      <3>1. v4.key \in NoteKeys
        BY <2>2 DEF NoteKeys
      <3>. QED  BY <2>1, <3>1, NoteAdded
    <2>4. /\ Len(v2) + 1 \in 1..Len(v2') /\ \A i \in 1..Len(v2) : i \in 1..Len(v2')
          /\ \A i \in 1..Len(v2') : i \in 1..Len(v2) \/ i = Len(v2) + 1
      BY <2>3 DEF Told
    <2>5. v4'.pc # "notify" /\ (v4' = N!Resting \/ (v4'.pc = "once" /\ v4'.todo \subseteq Keys))
      BY <2>1, <2>2 DEF N!Resting
    <2>6. N!AlertInv'
      <3>1. \A i \in 1..Len(v2') : v2'[i].key \in v1 \cup {N!NoKey}
        BY <2>2, <2>3, <2>4
      <3>2. \A i, j \in 1..Len(v2') : v2'[i].key = v2'[j].key /\ v2'[i].key # N!NoKey => i = j
        BY <2>2, <2>3, <2>4
      <3>3. \A k \in v1 : (\E i \in 1..Len(v2') : v2'[i].key = k) \/ k \in v9.alerts
        BY <2>2, <2>3, <2>4
      <3>. QED  BY <2>1, <2>5, <3>1, <3>2, <3>3 DEF N!AlertInv
    <2>. QED  BY <1>3, <2>1, <2>2, <2>6 DEF NoteKeys
  <1>5. CASE N!AlertCut
    <2>1. /\ v4' = N!Resting /\ UNCHANGED <<v1, v2, v3, v5, v6, v7, v8, v10, v11>> /\ v9.count < MaxStops
          /\ v9' = [v9 EXCEPT !.count = v9.count + 1,
                              !.alerts = IF v4.pc = "notify" THEN v9.alerts \cup {v4.key} ELSE v9.alerts]
      BY <1>5 DEF N!AlertCut, N!pushVars
    <2>2. /\ v9'.mails = v9.mails /\ v9'.unmarked = v9.unmarked /\ v9'.count = v9.count + 1 /\ DOMAIN v9' = {"alerts", "mails", "unmarked", "count"}
          /\ v9'.alerts = IF v4.pc = "notify" THEN v9.alerts \cup {v4.key} ELSE v9.alerts
      BY <2>1
    <2>3. v9'.count \in 0..MaxStops
      BY <2>1, <2>2
    <2>4. v9'.alerts \subseteq Keys
      BY <2>2 DEF N!AlertInv
    <2>5. N!AlertInv'
      BY <2>1, <2>2 DEF N!AlertInv, N!Resting
    <2>. QED  BY <2>1, <2>2, <2>3, <2>4, <2>5, DeliverKept, OwedKept, DigestKept, AlertsAfter DEF Told
  <1>6. CASE N!NotifySocial
    <2>1. Len(v2) < MaxNotes /\ N!Notify(N!NoKey) /\ UNCHANGED <<v1, v3, v4, v5, v6, v7, v8, v9, v10, v11>>
      BY <1>6 DEF N!NotifySocial, N!CanNotify, N!pushVars
    <2>2. N!NoKey \in NoteKeys
      BY DEF NoteKeys
    <2>3. /\ Len(v2') = Len(v2) + 1 /\ \A i \in 1..Len(v2) : v2'[i] = v2[i]
          /\ v2'[Len(v2) + 1].key = N!NoKey
      BY <2>1, <2>2, NoteAdded
    <2>4. /\ Len(v2) + 1 \in 1..Len(v2') /\ \A i \in 1..Len(v2) : i \in 1..Len(v2')
          /\ \A i \in 1..Len(v2') : i \in 1..Len(v2) \/ i = Len(v2) + 1
      BY <2>3 DEF Told
    <2>5. N!AlertInv'
      <3>1. \A i \in 1..Len(v2') : v2'[i].key \in v1 \cup {N!NoKey}
        BY <2>3, <2>4 DEF N!AlertInv
      <3>2. \A i, j \in 1..Len(v2') : v2'[i].key = v2'[j].key /\ v2'[i].key # N!NoKey => i = j
        BY <2>3, <2>4 DEF N!AlertInv
      <3>3. v4.pc = "notify" => v4.key \in Keys /\ v4.key # N!NoKey
        BY DEF N!AlertInv, N!NoKey
      <3>4. v4.pc = "notify" => \A i \in 1..Len(v2') : v2'[i].key # v4.key
        BY <2>3, <2>4, <3>3 DEF N!AlertInv
      <3>5. \A k \in v1 :
              (\E i \in 1..Len(v2') : v2'[i].key = k) \/ k \in v9.alerts \/ (v4.pc = "notify" /\ v4.key = k)
        <4>1. \A k \in v1 :
                (\E i \in 1..Len(v2) : v2[i].key = k) \/ k \in v9.alerts \/ (v4.pc = "notify" /\ v4.key = k)
          BY DEF N!AlertInv
        <4>2. \A k : (\E i \in 1..Len(v2) : v2[i].key = k) => \E i \in 1..Len(v2') : v2'[i].key = k
          BY <2>3, <2>4
        <4>. QED  BY <4>1, <4>2, Zenon
      <3>. QED  BY <2>1, <3>1, <3>2, <3>4, <3>5 DEF N!AlertInv
    <2>. QED  BY <1>3, <2>1, <2>2, <2>5
  <1>. QED  BY <1>1, <1>2, <1>4, <1>5, <1>6

\* What a step of the delivery shows.
LEMMA DeliverAfter ==
  ASSUME \/ v5' = N!Resting
         \/ /\ v5'.pc = "mark" \/ (v5'.pc = "send" /\ DOMAIN v5' = {"pc", "n", "todo", "push", "to"})
            /\ \A m \in v5'.todo : m \in 1..Len(v2') /\ ~v2'[m].pushed
            /\ v5'.pc = "send" =>
                 /\ v5'.n \in 1..Len(v2') /\ (v2'[v5'.n].pushed \/ v5'.n \in v9'.unmarked)
                 /\ \A f \in v5'.to : f \in Endpoints /\ (v7'[<<v5'.n, f>>] = 0 \/ v5'.n \in v9'.unmarked),
         \A m \in N!Ids, f \in Endpoints :
           /\ v7'[<<m, f>>] > 1 => m \in v9'.unmarked
           /\ v7'[<<m, f>>] > 0 => m \in 1..Len(v2') /\ (v2'[m].pushed \/ m \in v9'.unmarked)
  PROVE  N!DeliverInv'
  BY DEF N!DeliverInv, N!Resting

LEMMA OnToTodo ==
  ASSUME NEW todo, NEW push, NEW d, d = N!OnTo(todo, push)
  PROVE  \/ d = N!Resting
         \/ d.pc = "mark" /\ d.todo = todo /\ d # N!Resting
  BY DEF N!OnTo, N!Resting

\* What a push changes: one browser's count and what is left to do.
LEMMA OnePushCounted ==
  ASSUME NEW n \in N!Ids, NEW e \in Endpoints, NEW a, v7 \in [N!Ids \X Endpoints -> Nat],
         v7' = IF a = "ok" THEN [v7 EXCEPT ![<<n, e>>] = v7[<<n, e>>] + 1] ELSE v7
  PROVE  /\ v7' \in [N!Ids \X Endpoints -> Nat]
         /\ v7[<<n, e>>] \in Nat
         /\ \A m \in N!Ids, f \in Endpoints :
              v7'[<<m, f>>] = IF a = "ok" /\ m = n /\ f = e THEN v7[<<n, e>>] + 1 ELSE v7[<<m, f>>]
  <1>1. <<n, e>> \in N!Ids \X Endpoints
    OBVIOUS
  <1>2. PICK k : k = v7[<<n, e>>]
    OBVIOUS
  <1>3. k \in Nat /\ k + 1 \in Nat
    BY <1>1, <1>2
  <1>4. CASE a = "ok"
    <2>1. v7' = [v7 EXCEPT ![<<n, e>>] = k + 1]
      BY <1>2, <1>4
    <2>2. v7' \in [N!Ids \X Endpoints -> Nat] /\ v7'[<<n, e>>] = k + 1
      BY <1>1, <1>3, <2>1
    <2>3. ASSUME NEW m \in N!Ids, NEW f \in Endpoints, m # n \/ f # e PROVE v7'[<<m, f>>] = v7[<<m, f>>]
      <3>1. <<m, f>> \in N!Ids \X Endpoints /\ <<m, f>> # <<n, e>>
        BY <2>3
      <3>. QED  BY <2>1, <3>1
    <2>. QED  BY <1>2, <1>3, <1>4, <2>2, <2>3
  <1>5. CASE a # "ok"
    BY <1>2, <1>3, <1>5
  <1>. QED  BY <1>4, <1>5

LEMMA PushSent ==
  ASSUME N!AlertsInv, NEW e \in Endpoints, NEW a \in {"ok", "gone", "failed"}, N!Send(e, a)
  PROVE  N!AlertsInv'
  <1>1. /\ v5.pc = "send" /\ e \in v5.to /\ v3' = [v3 EXCEPT ![e] = N!AfterSend(e, a)]
        /\ v7' = IF a = "ok" THEN [v7 EXCEPT ![<<v5.n, e>>] = v7[<<v5.n, e>>] + 1] ELSE v7
        /\ v11' = IF a = "ok" THEN v11 ELSE v11 \cup {<<v5.n, e>>}
        /\ v5' = IF v5.to = {e} THEN N!OnTo(v5.todo, v5.push) ELSE [v5 EXCEPT !.to = v5.to \ {e}]
        /\ UNCHANGED <<v1, v2, v4, v6, v8, v9, v10>>
    BY DEF N!Send
  <1>2. v3' \in [Endpoints -> -1..(MaxFailures - 1)]
    <2>1. v3 \in [Endpoints -> -1..(MaxFailures - 1)] /\ MaxFailures \in Nat \ {0}
      BY AlertsBefore, AlertsConstants
    <2>2. v3[e] \in -1..(MaxFailures - 1) /\ 0 \in -1..(MaxFailures - 1) /\ -1 \in -1..(MaxFailures - 1)
      BY <2>1
    <2>3. N!AfterSend(e, a) \in -1..(MaxFailures - 1)
      BY <2>1, <2>2 DEF N!AfterSend, N!None
    <2>. QED  BY <1>1, <2>1, <2>3
  <1>3. /\ Told(v2) /\ Len(v2) \in Nat /\ Len(v2) <= MaxNotes /\ v7 \in [N!Ids \X Endpoints -> Nat]
        /\ N!AlertInv /\ N!DeliverInv /\ N!OwedInv /\ N!DigestInv
    BY AlertsBefore DEF Told
  <1>5. PICK sent : sent = v5.n
    OBVIOUS
  <1>4. /\ sent \in 1..Len(v2) /\ (v2[sent].pushed \/ sent \in v9.unmarked)
        /\ DOMAIN v5 = {"pc", "n", "todo", "push", "to"}
        /\ \A f \in v5.to : f \in Endpoints /\ (v7[<<sent, f>>] = 0 \/ sent \in v9.unmarked)
        /\ \A n \in v5.todo : n \in 1..Len(v2) /\ ~v2[n].pushed
    BY <1>1, <1>3, <1>5 DEF N!DeliverInv, N!Resting
  <1>6. sent \in N!Ids
    <2>1. MaxNotes \in Nat
      BY AlertsConstants
    <2>. QED  BY <1>3, <1>4, <2>1 DEF N!Ids
  <1>7. /\ v7' \in [N!Ids \X Endpoints -> Nat] /\ v7[<<sent, e>>] \in Nat
        /\ \A n \in N!Ids, f \in Endpoints :
             v7'[<<n, f>>] = IF a = "ok" /\ n = sent /\ f = e THEN v7[<<sent, e>>] + 1 ELSE v7[<<n, f>>]
    <2>1. v7' = IF a = "ok" THEN [v7 EXCEPT ![<<sent, e>>] = v7[<<sent, e>>] + 1] ELSE v7
      BY <1>1, <1>5
    <2>. QED  BY <1>3, <1>6, <2>1, OnePushCounted
  <1>8. ASSUME NEW n \in N!Ids, NEW f \in Endpoints
        PROVE  /\ v7'[<<n, f>>] > 1 => n \in v9'.unmarked
               /\ v7'[<<n, f>>] > 0 => n \in 1..Len(v2') /\ (v2'[n].pushed \/ n \in v9'.unmarked)
    <2>1. /\ v7[<<n, f>>] > 1 => n \in v9.unmarked
          /\ v7[<<n, f>>] > 0 => n \in 1..Len(v2) /\ (v2[n].pushed \/ n \in v9.unmarked)
      BY <1>3 DEF N!DeliverInv
    <2>2. v2' = v2 /\ v9' = v9
      BY <1>1
    <2>3. CASE a = "ok" /\ n = sent /\ f = e
      <3>1. v7'[<<n, f>>] > 1 => v7[<<sent, e>>] # 0
        BY <1>7, <2>3
      <3>2. v7[<<sent, e>>] = 0 \/ sent \in v9.unmarked
        BY <1>1, <1>4
      <3>. QED  BY <1>4, <2>2, <2>3, <3>1, <3>2
    <2>4. CASE ~(a = "ok" /\ n = sent /\ f = e)
      <3>1. v7'[<<n, f>>] = v7[<<n, f>>]
        BY <1>7, <2>4, Zenon
      <3>. QED  BY <2>1, <2>2, <3>1
    <2>. QED  BY <2>3, <2>4
  <1>9. N!DeliverInv'
    <2>1. \A n \in v5.todo : n \in 1..Len(v2') /\ ~v2'[n].pushed
      BY <1>1, <1>4
    <2>2. CASE v5.to = {e}
      <3>1. v5' = N!Resting \/ (v5'.pc = "mark" /\ v5'.todo = v5.todo)
        BY <1>1, <2>2, OnToTodo
      <3>2. v5' # N!Resting => \A n \in v5'.todo : n \in 1..Len(v2') /\ ~v2'[n].pushed
        BY <2>1, <3>1
      <3>3. v5'.pc = "mark" => v5'.pc # "send"
        OBVIOUS
      <3>. QED  BY <1>8, <3>1, <3>2, <3>3, DeliverAfter
    <2>3. CASE v5.to # {e}
      <3>1. /\ v5'.pc = "send" /\ v5'.todo = v5.todo /\ v5'.n = sent /\ v5'.to = v5.to \ {e}
            /\ DOMAIN v5' = {"pc", "n", "todo", "push", "to"}
        BY <1>1, <1>4, <1>5, <2>3
      <3>2. ASSUME NEW f \in v5'.to PROVE f \in Endpoints /\ (v7'[<<v5'.n, f>>] = 0 \/ v5'.n \in v9'.unmarked)
        <4>1. f \in Endpoints /\ f # e /\ (v7[<<sent, f>>] = 0 \/ sent \in v9.unmarked)
          BY <1>4, <3>1, <3>2
        <4>2. v7'[<<sent, f>>] = v7[<<sent, f>>]
          BY <1>6, <1>7, <4>1, Zenon
        <4>. QED  BY <1>1, <3>1, <4>1, <4>2
      <3>3. \A n \in v5'.todo : n \in 1..Len(v2') /\ ~v2'[n].pushed
        BY <2>1, <3>1
      <3>4. v5'.n \in 1..Len(v2') /\ (v2'[v5'.n].pushed \/ v5'.n \in v9'.unmarked)
        BY <1>1, <1>4, <3>1
      <3>. QED  BY <1>8, <3>1, <3>2, <3>3, <3>4, DeliverAfter
    <2>. QED  BY <2>2, <2>3
  <1>10. N!OwedInv'
    <2>1. v10' \subseteq N!Ids \X Endpoints /\ v11' \subseteq N!Ids \X Endpoints
      BY <1>1, <1>3, <1>5, <1>6 DEF N!OwedInv
    <2>2. ASSUME NEW n \in N!Ids, NEW f \in Endpoints, <<n, f>> \in v10'
          PROVE  v7'[<<n, f>>] > 0 \/ <<n, f>> \in v11' \/ N!Sending(n, f)'
      <3>1. v7[<<n, f>>] > 0 \/ <<n, f>> \in v11 \/ N!Sending(n, f)
        BY <1>1, <1>3, <2>2 DEF N!OwedInv
      <3>2. CASE n = sent /\ f = e
        <4>1. CASE a = "ok"
          BY <1>7, <3>2, <4>1
        <4>2. CASE a # "ok"
          BY <1>1, <1>5, <3>2, <4>2
        <4>. QED  BY <4>1, <4>2
      <3>3. CASE ~(n = sent /\ f = e)
        <4>1. v7'[<<n, f>>] = v7[<<n, f>>]
          BY <1>7, <3>3, Zenon
        <4>2. v11 \subseteq v11'
          BY <1>1
        <4>3. N!Sending(n, f) => N!Sending(n, f)'
          <5>1. SUFFICES ASSUME v5.n = n, f \in v5.to PROVE v5'.pc = "send" /\ v5'.n = n /\ f \in v5'.to
            BY DEF N!Sending
          <5>2. f # e /\ v5.to # {e}
            BY <1>5, <3>3, <5>1
          <5>3. v5' = [v5 EXCEPT !.to = v5.to \ {e}]
            BY <1>1, <5>2
          <5>. QED  BY <1>1, <1>4, <5>1, <5>2, <5>3
        <4>. QED  BY <3>1, <4>1, <4>2, <4>3
      <3>. QED  BY <3>2, <3>3
    <2>. QED  BY <2>1, <2>2 DEF N!OwedInv
  <1>11. N!AlertInv' /\ N!DigestInv'
    BY <1>1, <1>3, AlertKept, DigestKept
  <1>. QED  BY <1>1, <1>2, <1>7, <1>9, <1>10, <1>11, AlertsBefore, AlertsAfter

\* A row's turn: it is marked, or its mark fails, and it is pushed or passed over.
LEMMA RowMarked ==
  ASSUME N!AlertsInv, NEW n \in N!Ids, NEW marked \in BOOLEAN, N!MarkPushed(n, marked)
  PROVE  N!AlertsInv'
  <1>. USE AlertsBefore, AlertsConstants
  <1>. DEFINE to == IF v5.push THEN N!Subscribed ELSE {}
  <1>1. /\ v5.pc = "mark" /\ n \in v5.todo /\ UNCHANGED <<v1, v3, v4, v6, v7, v8, v11>>
        /\ v2' = IF marked THEN [v2 EXCEPT ![n].pushed = TRUE] ELSE v2
        /\ v9' = IF marked THEN v9 ELSE [v9 EXCEPT !.count = v9.count + 1, !.unmarked = v9.unmarked \cup {n}]
        /\ marked \/ v9.count < MaxStops
        /\ v5' = IF to = {} THEN N!OnTo(v5.todo \ {n}, v5.push)
                 ELSE [pc |-> "send", n |-> n, todo |-> v5.todo \ {n}, push |-> v5.push, to |-> to]
        /\ v10' = v10 \cup {<<n, e>> : e \in to}
    BY DEF N!MarkPushed, N!IsNext, N!SendOrSkip
  <1>2. n \in 1..Len(v2) /\ ~v2[n].pushed /\ \A m \in v5.todo : m \in 1..Len(v2) /\ ~v2[m].pushed
    BY <1>1 DEF N!DeliverInv, N!Resting
  <1>3. /\ v2' \in Seq(N!Note) /\ Len(v2') = Len(v2)
        /\ \A i \in 1..Len(v2) : v2'[i].key = v2[i].key /\ v2'[i].emailed = v2[i].emailed /\ (i # n => v2'[i] = v2[i])
        /\ v2'[n].pushed <=> marked
    <2>1. CASE marked
      <3>1. PICK r : r = v2[n]
        OBVIOUS
      <3>2. PICK q : q = [r EXCEPT !.pushed = TRUE]
        OBVIOUS
      <3>3. v2' = [v2 EXCEPT ![n] = q]
        BY <1>1, <1>2, <2>1, <3>1, <3>2
      <3>4. r \in N!Note
        BY <1>2, <3>1 DEF Told
      <3>5. q \in N!Note /\ q.key = r.key /\ q.emailed = r.emailed /\ q.pushed
        BY <3>2, <3>4, NoteWith
      <3>6. /\ [v2 EXCEPT ![n] = q] \in Seq(N!Note) /\ Len([v2 EXCEPT ![n] = q]) = Len(v2)
            /\ [v2 EXCEPT ![n] = q][n] = q /\ \A j \in 1..Len(v2) : j # n => [v2 EXCEPT ![n] = q][j] = v2[j]
        BY <1>2, <3>5, OneReplaced DEF Told
      <3>. QED  BY <1>2, <2>1, <3>1, <3>3, <3>5, <3>6
    <2>2. CASE ~marked
      BY <1>1, <1>2, <2>2
    <2>. QED  BY <2>1, <2>2
  <1>4. /\ v9'.alerts = v9.alerts /\ v9'.mails = v9.mails /\ v9'.count \in 0..MaxStops
        /\ DOMAIN v9' = {"alerts", "mails", "unmarked", "count"}
        /\ v9'.unmarked = (IF marked THEN v9.unmarked ELSE v9.unmarked \cup {n})
    <2>1. CASE marked
      BY <1>1, <2>1
    <2>2. CASE ~marked
      <3>1. v9' = [v9 EXCEPT !.count = v9.count + 1, !.unmarked = v9.unmarked \cup {n}] /\ v9.count < MaxStops
        BY <1>1, <2>2
      <3>2. /\ v9'.mails = v9.mails /\ v9'.alerts = v9.alerts /\ v9'.count = v9.count + 1
            /\ v9'.unmarked = v9.unmarked \cup {n} /\ DOMAIN v9' = {"alerts", "mails", "unmarked", "count"}
        BY <3>1
      <3>3. v9'.count \in 0..MaxStops
        BY <3>1, <3>2
      <3>. QED  BY <2>2, <3>2, <3>3
    <2>. QED  BY <2>1, <2>2
  <1>5. v2'[n].pushed \/ n \in v9'.unmarked
    BY <1>3, <1>4
  <1>6. v9.unmarked \subseteq v9'.unmarked /\ v9'.unmarked \subseteq N!Ids
    BY <1>4
  <1>7. \A f \in Endpoints : v7[<<n, f>>] > 0 => n \in v9.unmarked
    BY <1>2 DEF N!DeliverInv
  <1>8. \A m \in N!Ids, f \in Endpoints :
          /\ v7'[<<m, f>>] > 1 => m \in v9'.unmarked
          /\ v7'[<<m, f>>] > 0 => m \in 1..Len(v2') /\ (v2'[m].pushed \/ m \in v9'.unmarked)
    <2>1. \A m \in N!Ids, f \in Endpoints :
            /\ v7[<<m, f>>] > 1 => m \in v9.unmarked
            /\ v7[<<m, f>>] > 0 => m \in 1..Len(v2) /\ (v2[m].pushed \/ m \in v9.unmarked)
      BY DEF N!DeliverInv
    <2>. QED  BY <1>1, <1>3, <1>5, <1>6, <2>1
  <1>9. \A m \in v5.todo \ {n} : m \in 1..Len(v2) /\ ~v2'[m].pushed
    BY <1>2, <1>3
  <1>t. to \subseteq Endpoints
    BY DEF N!Subscribed
  <1>10. N!DeliverInv'
    <2>1. CASE to # {}
      <3>1. /\ v5'.pc = "send" /\ v5'.n = n /\ v5'.todo = v5.todo \ {n} /\ v5'.to = to
            /\ DOMAIN v5' = {"pc", "n", "todo", "push", "to"}
        BY <1>1, <2>1
      <3>2. ASSUME NEW f \in to PROVE f \in Endpoints /\ (v7'[<<n, f>>] = 0 \/ n \in v9'.unmarked)
        <4>1. f \in Endpoints /\ v7' = v7
          BY <1>1, <1>t
        <4>2. v7[<<n, f>>] \in Nat
          BY <4>1
        <4>. QED  BY <1>6, <1>7, <4>1, <4>2
      <3>. HIDE DEF to
      <3>. QED  BY <1>2, <1>3, <1>5, <1>8, <1>9, <3>1, <3>2, DeliverAfter
    <2>2. CASE to = {}
      <3>1. v5' = N!OnTo(v5.todo \ {n}, v5.push)
        BY <1>1, <2>2, Zenon
      <3>2. v5' = N!Resting \/ (v5'.pc = "mark" /\ v5'.todo = v5.todo \ {n})
        BY <3>1 DEF N!OnTo, N!Resting
      <3>3. Len(v2') = Len(v2) /\ (v5'.pc = "mark" => v5'.pc # "send")
        BY <1>3
      <3>. HIDE DEF to
      <3>. QED  BY <1>8, <1>9, <3>2, <3>3, DeliverAfter
    <2>. QED  BY <2>1, <2>2
  <1>11. N!OwedInv'
    <2>1. v10' \subseteq N!Ids \X Endpoints /\ v11' \subseteq N!Ids \X Endpoints
      BY <1>1, <1>t DEF N!OwedInv
    <2>2. ASSUME NEW m \in N!Ids, NEW f \in Endpoints, <<m, f>> \in v10'
          PROVE  v7'[<<m, f>>] > 0 \/ <<m, f>> \in v11' \/ N!Sending(m, f)'
      <3>1. CASE <<m, f>> \in v10
        <4>1. v7[<<m, f>>] > 0 \/ <<m, f>> \in v11
          BY <1>1, <3>1 DEF N!OwedInv, N!Sending
        <4>. QED  BY <1>1, <4>1
      <3>2. CASE <<m, f>> \notin v10
        <4>1. m = n /\ f \in to
          BY <1>1, <2>2, <3>2
        <4>2. v5'.pc = "send" /\ v5'.n = n /\ v5'.to = to
          BY <1>1, <4>1
        <4>. QED  BY <4>1, <4>2 DEF N!Sending
      <3>. QED  BY <3>1, <3>2
    <2>. QED  BY <2>1, <2>2 DEF N!OwedInv
  <1>12. N!AlertInv' /\ N!DigestInv'
    BY <1>1, <1>3, <1>4, AlertKept, DigestKept DEF Told
  <1>. QED  BY <1>1, <1>3, <1>4, <1>6, <1>10, <1>11, <1>12, AlertsAfter

\* A step of the delivery, or of a browser that subscribes.
LEMMA DeliverStep ==
  ASSUME N!AlertsInv,
         \/ \E e \in Endpoints : N!Subscribe(e) \/ N!Unsubscribe(e) \/ \E a \in {"ok", "gone", "failed"} : N!Send(e, a)
         \/ \E push \in BOOLEAN : N!Deliver(push)
         \/ N!DeliverCut
         \/ \E n \in N!Ids, marked \in BOOLEAN : N!MarkPushed(n, marked)
  PROVE  N!AlertsInv'
  <1>. USE AlertsBefore, AlertsConstants
  <1>r. 0 \in -1..(MaxFailures - 1) /\ -1 \in -1..(MaxFailures - 1)
    OBVIOUS
  <1>1. ASSUME NEW e \in Endpoints, N!Subscribe(e) \/ N!Unsubscribe(e) PROVE N!AlertsInv'
    <2>1. UNCHANGED <<v1, v2, v4, v5, v6, v7, v8, v9, v10, v11>> /\ (v3' = [v3 EXCEPT ![e] = 0] \/ v3' = [v3 EXCEPT ![e] = -1])
      BY <1>1 DEF N!Subscribe, N!Unsubscribe, N!None, N!pushVars
    <2>2. v3' \in [Endpoints -> -1..(MaxFailures - 1)]
      BY <1>r, <2>1
    <2>. QED  BY <2>1, <2>2, AlertKept, DeliverKept, OwedKept, DigestKept, AlertsAfter DEF Told
  <1>2. ASSUME NEW e \in Endpoints, NEW a \in {"ok", "gone", "failed"}, N!Send(e, a) PROVE N!AlertsInv'
    BY <1>2, PushSent
  <1>3. ASSUME NEW push \in BOOLEAN, N!Deliver(push) PROVE N!AlertsInv'
    <2>1. /\ v5 = N!Resting /\ v5'.pc = "mark" /\ v5'.todo = N!Oldest(N!ToPush)
          /\ UNCHANGED <<v1, v2, v3, v4, v6, v7, v8, v9, v10, v11>>
      BY <1>3 DEF N!Deliver, N!pushVars
    <2>2. \A n \in v5'.todo : n \in 1..Len(v2) /\ ~v2[n].pushed
      BY <2>1 DEF N!Oldest, N!ToPush, Told
    <2>3. N!DeliverInv'
      BY <2>1, <2>2 DEF N!DeliverInv
    <2>4. N!OwedInv'
      BY <2>1 DEF N!OwedInv, N!Sending, N!Resting
    <2>. QED  BY <2>1, <2>3, <2>4, AlertKept, DigestKept, AlertsAfter DEF Told
  <1>4. CASE N!DeliverCut
    <2>1. /\ v5' = N!Resting /\ UNCHANGED <<v1, v2, v3, v4, v6, v7, v8, v10>> /\ v9.count < MaxStops
          /\ v9' = [v9 EXCEPT !.count = v9.count + 1]
          /\ v11' = IF v5.pc = "send" THEN v11 \cup {<<v5.n, e>> : e \in v5.to} ELSE v11
      BY <1>4 DEF N!DeliverCut
    <2>2. /\ v9'.mails = v9.mails /\ v9'.alerts = v9.alerts /\ v9'.count = v9.count + 1
          /\ v9'.unmarked = v9.unmarked /\ DOMAIN v9' = {"alerts", "mails", "unmarked", "count"}
      BY <2>1
    <2>3. v9'.count \in 0..MaxStops
      BY <2>1, <2>2
    <2>4. N!DeliverInv'
      BY <2>1, <2>2 DEF N!DeliverInv, N!Resting
    <2>5. N!OwedInv'
      <3>1. ASSUME v5.pc = "send" PROVE v5.n \in N!Ids /\ v5.to \subseteq Endpoints
        <4>1. v5.n \in 1..Len(v2) /\ v5.to \subseteq Endpoints
          BY <3>1 DEF N!DeliverInv, N!Resting
        <4>2. Len(v2) \in Nat /\ Len(v2) <= MaxNotes /\ MaxNotes \in Nat
          BY DEF Told
        <4>. HIDE AlertsBefore
        <4>. QED  BY <4>1, <4>2 DEF N!Ids
      <3>2. v11' \subseteq N!Ids \X Endpoints /\ v11 \subseteq v11'
        BY <2>1, <3>1 DEF N!OwedInv
      <3>3. \A n \in N!Ids, e \in Endpoints : N!Sending(n, e) => <<n, e>> \in v11'
        BY <2>1 DEF N!Sending
      <3>. QED  BY <2>1, <3>2, <3>3 DEF N!OwedInv
    <2>. QED  BY <2>1, <2>2, <2>3, <2>4, <2>5, AlertKept, DigestKept, AlertsAfter DEF Told
  <1>5. ASSUME NEW n \in N!Ids, NEW marked \in BOOLEAN, N!MarkPushed(n, marked) PROVE N!AlertsInv'
    BY <1>5, RowMarked
  <1>. QED  BY <1>1, <1>2, <1>3, <1>4, <1>5

\* A step of the digest, of the person or of time.
LEMMA DigestStep ==
  ASSUME N!AlertsInv,
         \/ N!SendMail \/ N!DigestCut \/ N!SixHours
         \/ \E n \in N!Ids : N!MarkRead(n) \/ \E marked \in BOOLEAN : N!MarkEmailed(n, marked)
  PROVE  N!AlertsInv'
  <1>. USE AlertsBefore, AlertsConstants
  <1>1. CASE N!SendMail
    <2>. DEFINE ns == N!Newest(N!Unmailed)
    <2>1. /\ v6 = N!Resting /\ v6'.pc = "mark" /\ v6'.ids = ns /\ v6' # N!Resting
          /\ v8' = [n \in N!Ids |-> IF n \in ns THEN v8[n] + 1 ELSE v8[n]]
          /\ UNCHANGED <<v1, v2, v3, v4, v5, v7, v9, v10, v11>>
      BY <1>1 DEF N!SendMail, N!Resting, N!pushVars
    <2>2. v8 \in [N!Ids -> Nat]
      BY DEF N!DigestInv
    <2>3. v8' \in [N!Ids -> Nat]
      BY <2>1, <2>2
    <2>4. ns \subseteq 1..Len(v2) /\ \A n \in ns : ~v2[n].emailed
      BY DEF N!Newest, N!Unmailed
    <2>. HIDE DEF ns
    <2>9. \A n \in ns : n \in N!Ids
      BY <2>4 DEF N!Ids, Told
    <2>5. \A n \in N!Ids : /\ v8[n] > 1 => n \in v9.mails
                           /\ v8[n] > 0 => (n \in 1..Len(v2) /\ v2[n].emailed) \/ n \in v9.mails
      BY <2>1 DEF N!DigestInv
    <2>6. ASSUME NEW n \in N!Ids
          PROVE  /\ v8'[n] > 1 => n \in v9.mails
                 /\ v8'[n] > 0 => (n \in 1..Len(v2) /\ v2[n].emailed) \/ n \in ns \/ n \in v9.mails
                 /\ v8'[n] >= v8[n] /\ (n \in ns => v8'[n] > 0)
      <3>1. CASE n \in ns
        <4>1. v8[n] \in Nat /\ v8'[n] = v8[n] + 1 /\ (v8[n] > 0 => n \in v9.mails)
          BY <2>1, <2>2, <2>4, <2>5, <3>1
        <4>. QED  BY <3>1, <4>1
      <3>2. CASE n \notin ns
        <4>1. v8'[n] = v8[n] /\ v8[n] \in Nat
          BY <2>1, <2>2, <3>2
        <4>. QED  BY <2>5, <3>2, <4>1
      <3>. QED  BY <3>1, <3>2
    <2>a. \A n \in 1..Len(v2) : v2[n].emailed => v8'[n] > 0
      <3>1. \A n \in 1..Len(v2) : n \in N!Ids
        BY DEF N!Ids, Told
      <3>2. \A n \in 1..Len(v2) : v2[n].emailed => v8[n] > 0
        BY DEF N!DigestInv
      <3>3. \A n \in 1..Len(v2) : v8[n] \in Nat /\ v8'[n] \in Nat
        BY <2>2, <2>3, <3>1
      <3>. HIDE AlertsBefore
      <3>. QED  BY <2>6, <3>1, <3>2, <3>3
    <2>7. N!DigestInv'
      BY <2>1, <2>3, <2>4, <2>6, <2>9, <2>a DEF N!DigestInv
    <2>. QED  BY <2>1, <2>7, AlertKept, DeliverKept, OwedKept, AlertsAfter DEF Told
  <1>2. CASE N!DigestCut
    <2>1. /\ v6 # N!Resting /\ v6' = N!Resting /\ UNCHANGED <<v1, v2, v3, v4, v5, v7, v8, v10, v11>> /\ v9.count < MaxStops
          /\ v9' = [v9 EXCEPT !.count = v9.count + 1, !.mails = v9.mails \cup v6.ids]
      BY <1>2 DEF N!DigestCut, N!pushVars
    <2>2. /\ v9'.mails = v9.mails \cup v6.ids /\ v9'.alerts = v9.alerts /\ v9'.unmarked = v9.unmarked /\ v9'.count = v9.count + 1
          /\ DOMAIN v9' = {"alerts", "mails", "unmarked", "count"}
      BY <2>1
    <2>3. v9'.count \in 0..MaxStops
      BY <2>1, <2>2
    <2>4. v6.ids \subseteq 1..Len(v2)
      BY <2>1 DEF N!DigestInv
    <2>5. v9'.mails \subseteq N!Ids
      BY <2>2, <2>4 DEF N!Ids, Told
    <2>6. N!DigestInv'
      BY <2>1, <2>2 DEF N!DigestInv, N!Resting
    <2>. QED  BY <2>1, <2>2, <2>3, <2>5, <2>6, AlertKept, DeliverKept, OwedKept, AlertsAfter DEF Told
  \* A step that only sets flags of notifications, or counts a mark that failed.
  <1>a. ASSUME v2' \in Seq(N!Note), Len(v2') = Len(v2), UNCHANGED <<v1, v3, v4, v5, v7, v8, v10, v11>>, N!DigestInv',
               v9'.alerts = v9.alerts, v9'.unmarked = v9.unmarked, v9'.mails \subseteq N!Ids, v9'.count \in 0..MaxStops,
               DOMAIN v9' = {"alerts", "mails", "unmarked", "count"},
               \A i \in 1..Len(v2) : v2'[i].key = v2[i].key /\ v2'[i].pushed = v2[i].pushed
        PROVE  N!AlertsInv'
    BY <1>a, AlertKept, DeliverKept, OwedKept, AlertsAfter DEF Told
  <1>3. ASSUME NEW n \in N!Ids, NEW marked \in BOOLEAN, N!MarkEmailed(n, marked) PROVE N!AlertsInv'
    <2>1. /\ v6.pc = "mark" /\ n \in v6.ids /\ v2' = IF marked THEN [v2 EXCEPT ![n].emailed = TRUE] ELSE v2
          /\ v9' = IF marked THEN v9 ELSE [v9 EXCEPT !.count = v9.count + 1, !.mails = v9.mails \cup {n}]
          /\ marked \/ v9.count < MaxStops
          /\ UNCHANGED <<v1, v3, v4, v5, v7, v8, v10, v11>>
          /\ v6' = IF v6.ids = {n} THEN N!Resting ELSE [pc |-> "mark", ids |-> v6.ids \ {n}]
      BY <1>3 DEF N!MarkEmailed, N!pushVars
    <2>2. v6.ids \subseteq 1..Len(v2) /\ n \in 1..Len(v2) /\ \A m \in v6.ids : v8[m] > 0
      BY <2>1 DEF N!DigestInv, N!Resting
    <2>3. /\ v2' \in Seq(N!Note) /\ Len(v2') = Len(v2)
          /\ \A i \in 1..Len(v2) : v2'[i].key = v2[i].key /\ v2'[i].pushed = v2[i].pushed /\ (i # n => v2'[i] = v2[i])
          /\ IF marked THEN v2'[n].emailed ELSE v2' = v2
      <3>1. CASE marked
        <4>1. PICK r : r = v2[n]
          OBVIOUS
        <4>2. PICK q : q = [r EXCEPT !.emailed = TRUE]
          OBVIOUS
        <4>3. v2' = [v2 EXCEPT ![n] = q]
          BY <2>1, <2>2, <3>1, <4>1, <4>2
        <4>4. r \in N!Note
          BY <2>2, <4>1 DEF Told
        <4>5. q \in N!Note /\ q.key = r.key /\ q.pushed = r.pushed /\ q.emailed
          BY <4>2, <4>4, NoteWith
        <4>6. /\ [v2 EXCEPT ![n] = q] \in Seq(N!Note) /\ Len([v2 EXCEPT ![n] = q]) = Len(v2)
              /\ [v2 EXCEPT ![n] = q][n] = q /\ \A j \in 1..Len(v2) : j # n => [v2 EXCEPT ![n] = q][j] = v2[j]
          BY <2>2, <4>5, OneReplaced DEF Told
        <4>. QED  BY <2>2, <3>1, <4>1, <4>3, <4>5, <4>6
      <3>2. CASE ~marked
        BY <2>1, <3>2
      <3>. QED  BY <3>1, <3>2
    <2>4. /\ v9'.alerts = v9.alerts /\ v9'.unmarked = v9.unmarked /\ v9'.count \in 0..MaxStops
          /\ DOMAIN v9' = {"alerts", "mails", "unmarked", "count"}
          /\ v9'.mails = (IF marked THEN v9.mails ELSE v9.mails \cup {n})
      <3>1. CASE marked
        BY <2>1, <3>1
      <3>2. CASE ~marked
        <4>1. v9' = [v9 EXCEPT !.count = v9.count + 1, !.mails = v9.mails \cup {n}] /\ v9.count < MaxStops
          BY <2>1, <3>2
        <4>2. /\ v9'.unmarked = v9.unmarked /\ v9'.alerts = v9.alerts /\ v9'.count = v9.count + 1
              /\ v9'.mails = v9.mails \cup {n} /\ DOMAIN v9' = {"alerts", "mails", "unmarked", "count"}
          BY <4>1
        <4>3. v9'.count \in 0..MaxStops
          BY <4>1, <4>2
        <4>. QED  BY <3>2, <4>2, <4>3
      <3>. QED  BY <3>1, <3>2
    <2>5. (v2'[n].emailed \/ n \in v9'.mails) /\ v9.mails \subseteq v9'.mails /\ v9'.mails \subseteq N!Ids
      BY <2>3, <2>4
    <2>6. v6' = N!Resting \/ (v6'.pc = "mark" /\ v6' # N!Resting /\ v6'.ids = v6.ids \ {n})
      BY <2>1 DEF N!Resting
    <2>7. v6' = N!Resting => v6.ids \ {n} = {}
      BY <2>1 DEF N!Resting
    <2>8. N!DigestInv'
      <3>1. v8' \in [N!Ids -> Nat] /\ \A m \in N!Ids : v8'[m] > 1 => m \in v9'.mails
        BY <2>1, <2>5 DEF N!DigestInv
      <3>2. \A m \in N!Ids : v8'[m] > 0 => \/ m \in 1..Len(v2) /\ v2'[m].emailed
                                           \/ v6' # N!Resting /\ m \in v6'.ids
                                           \/ m \in v9'.mails
        <4>1. \A m \in N!Ids : v8[m] > 0 => (m \in 1..Len(v2) /\ v2[m].emailed) \/ m \in v6.ids \/ m \in v9.mails
          BY DEF N!DigestInv
        <4>. QED  BY <2>1, <2>2, <2>3, <2>5, <2>6, <2>7, <4>1
      <3>3. \A m \in 1..Len(v2') : v2'[m].emailed => v8'[m] > 0
        <4>1. \A m \in 1..Len(v2) : v2[m].emailed => v8[m] > 0
          BY DEF N!DigestInv
        <4>. QED  BY <2>1, <2>2, <2>3, <4>1
      <3>4. v6' # N!Resting => v6'.pc = "mark" /\ v6'.ids \subseteq 1..Len(v2') /\ \A m \in v6'.ids : v8'[m] > 0
        BY <2>1, <2>2, <2>3, <2>6
      <3>. QED  BY <2>3, <3>1, <3>2, <3>3, <3>4 DEF N!DigestInv
    <2>. QED  BY <1>a, <2>1, <2>3, <2>4, <2>5, <2>8
  \* Notifications, each as it was or marked.
  <1>b. ASSUME DOMAIN v2' = 1..Len(v2), v2' = [i \in 1..Len(v2) |-> v2'[i]], UNCHANGED <<v1, v3, v4, v5, v6, v7, v8, v9, v10, v11>>,
               \A i \in 1..Len(v2) : /\ v2'[i] \in N!Note /\ v2'[i].key = v2[i].key
                                     /\ v2'[i].pushed = v2[i].pushed /\ v2'[i].emailed = v2[i].emailed
        PROVE  N!AlertsInv'
    <2>1. v2' \in [1..Len(v2) -> N!Note] /\ Len(v2) \in Nat
      BY <1>b DEF Told
    <2>2. v2' \in Seq(N!Note)
      BY <2>1, ListedIsSeq
    <2>3. Len(v2') = Len(v2)
      BY <1>b, <2>1, <2>2
    <2>. QED  BY <1>a, <1>b, <2>1, <2>2, <2>3, DigestKept
  <1>4. ASSUME NEW n \in N!Ids, N!MarkRead(n) PROVE N!AlertsInv'
    <2>1. UNCHANGED <<v1, v3, v4, v5, v6, v7, v8, v9, v10, v11>>
          /\ v2' = [i \in DOMAIN v2 |-> IF i <= n THEN [v2[i] EXCEPT !.read = TRUE] ELSE v2[i]]
      BY <1>4 DEF N!MarkRead, N!pushVars
    <2>2. DOMAIN v2' = 1..Len(v2) /\ v2' = [i \in 1..Len(v2) |-> v2'[i]]
          /\ \A i \in 1..Len(v2) : v2'[i] = v2[i] \/ v2'[i] = [v2[i] EXCEPT !.read = TRUE]
      BY <2>1 DEF Told
    <2>3. ASSUME NEW i \in 1..Len(v2)
          PROVE  /\ v2'[i] \in N!Note /\ v2'[i].key = v2[i].key
                 /\ v2'[i].pushed = v2[i].pushed /\ v2'[i].emailed = v2[i].emailed
      <3>1. PICK r, q : r = v2[i] /\ q = v2'[i]
        OBVIOUS
      <3>2. r \in N!Note /\ (q = r \/ q = [r EXCEPT !.read = TRUE])
        BY <2>2, <2>3, <3>1 DEF Told
      <3>3. q \in N!Note /\ q.key = r.key /\ q.pushed = r.pushed /\ q.emailed = r.emailed
        BY <3>2, NoteWith
      <3>. QED  BY <3>1, <3>3
    <2>. QED  BY <1>b, <2>1, <2>2, <2>3
  <1>5. CASE N!SixHours
    <2>1. UNCHANGED <<v1, v3, v4, v5, v6, v7, v8, v9, v10, v11>>
          /\ v2' = [i \in DOMAIN v2 |-> [v2[i] EXCEPT !.old = TRUE]]
      BY <1>5 DEF N!SixHours, N!pushVars
    <2>2. DOMAIN v2' = 1..Len(v2) /\ v2' = [i \in 1..Len(v2) |-> v2'[i]]
          /\ \A i \in 1..Len(v2) : v2'[i] = [v2[i] EXCEPT !.old = TRUE]
      BY <2>1 DEF Told
    <2>3. ASSUME NEW i \in 1..Len(v2)
          PROVE  /\ v2'[i] \in N!Note /\ v2'[i].key = v2[i].key
                 /\ v2'[i].pushed = v2[i].pushed /\ v2'[i].emailed = v2[i].emailed
      <3>1. PICK r, q : r = v2[i] /\ q = v2'[i]
        OBVIOUS
      <3>2. r \in N!Note /\ (q = [r EXCEPT !.old = TRUE])
        BY <2>2, <2>3, <3>1 DEF Told
      <3>3. q \in N!Note /\ q.key = r.key /\ q.pushed = r.pushed /\ q.emailed = r.emailed
        BY <3>2, NoteWith
      <3>. QED  BY <3>1, <3>3
    <2>. QED  BY <1>b, <2>1, <2>2, <2>3
  <1>. QED  BY <1>1, <1>2, <1>3, <1>4, <1>5

LEMMA AlertsStep == ASSUME N!AlertsInv, N!AlertsNext PROVE N!AlertsInv'
  BY AlertJobStep, DeliverStep, DigestStep DEF N!AlertsNext

LEMMA AlertsCardinality == \A S : N!Cardinality(S) = Cardinality(S)
  BY DEF N!Cardinality, Cardinality

\* Two notifications of a key are one, so that there is at most one.
LEMMA AlertsSafe == ASSUME N!AlertsInv PROVE N!DeliveredOnce /\ N!AlertsTypeOK
  <1>. USE AlertsBefore
  <1>1. ASSUME NEW key \in Keys PROVE N!Cardinality(N!NotesOf(key)) <= 1
    <2>1. key # N!NoKey
      BY AlertsConstants DEF N!NoKey
    <2>2. \A i, j \in N!NotesOf(key) : i = j
      BY <2>1 DEF N!NotesOf, N!AlertInv, Told
    <2>3. CASE N!NotesOf(key) = {}
      BY <2>3, AlertsCardinality, FS_EmptySet
    <2>4. CASE N!NotesOf(key) # {}
      <3>0. PICK i : i \in N!NotesOf(key)
        BY <2>4
      <3>1. N!NotesOf(key) = {i}
        BY <2>2, <3>0
      <3>2. Cardinality({i}) = 1
        BY FS_Singleton
      <3>. QED  BY <3>1, <3>2, AlertsCardinality
    <2>. QED  BY <2>3, <2>4
  <1>2. ASSUME NEW key \in Keys, key \in v1, N!NotesOf(key) = {}
        PROVE  key \in v9.alerts \/ (v4.pc = "notify" /\ v4.key = key)
    <2>1. \A i \in 1..Len(v2) : v2[i].key # key
      BY <1>2 DEF N!NotesOf, Told
    <2>2. \A k \in v1 :
            (\E i \in 1..Len(v2) : v2[i].key = k) \/ k \in v9.alerts \/ (v4.pc = "notify" /\ v4.key = k)
      BY DEF N!AlertInv
    <2>. QED  BY <1>2, <2>1, <2>2, Zenon
  <1>3. ASSUME NEW n \in N!Ids, NEW e \in Endpoints
        PROVE  /\ v7[<<n, e>>] > 1 => n \in v9.unmarked
               /\ <<n, e>> \in v10 /\ v7[<<n, e>>] = 0 =>
                    <<n, e>> \in v11 \/ (v5.pc = "send" /\ v5.n = n /\ e \in v5.to)
    BY DEF N!DeliverInv, N!OwedInv, N!Sending
  <1>4. \A n \in N!Ids : v8[n] > 1 => n \in v9.mails
    BY DEF N!DigestInv
  <1>5. \A n \in DOMAIN v2 : v2[n].emailed => v8[n] > 0
    BY DEF N!DigestInv, Told
  <1>. QED  BY <1>1, <1>2, <1>3, <1>4, <1>5 DEF N!DeliveredOnce, N!AlertsInv

-----------------------------------------------------------------------------
(* Play time: v1 is total, v2 link, v3 syncOn, v4 base, v5 row, v6 preview, *)
(* v7 writing, v8 sync, v9 timer, v10 started, v11 stop, v12 logged and v13 *)
(* slips.                                                                  *)

LEMMA TimeCardinality == \A S : Time!Cardinality(S) = Cardinality(S)
  BY DEF Time!Cardinality, Cardinality

\* The minutes Steam reported are finitely many, and at least a profile's own.
LEMMA MinutesReported ==
  ASSUME v1 \in [Profiles -> 0..MaxMinutes]
  PROVE  /\ IsFiniteSet(Time!Reported) /\ Time!Cardinality(Time!Reported) \in Nat
         /\ \A p \in Profiles : v1[p] <= Time!Cardinality(Time!Reported)
  <1>1. IsFiniteSet(Time!Reported)
    <2>1. IsFiniteSet(1..MaxMinutes)
      BY PlaytimeConstants, FS_Interval
    <2>2. IsFiniteSet(Profiles \X (1..MaxMinutes))
      BY <2>1, PlaytimeConstants, FS_Product
    <2>3. Time!Reported \subseteq Profiles \X (1..MaxMinutes)
      BY DEF Time!Reported
    <2>. QED  BY <2>2, <2>3, FS_Subset
  <1>2. Cardinality(Time!Reported) \in Nat
    BY <1>1, FS_CardinalityType
  <1>3. ASSUME NEW p \in Profiles PROVE v1[p] <= Cardinality(Time!Reported)
    <2>1. PICK n \in 0..MaxMinutes : n = v1[p]
      OBVIOUS
    <2>2. IsFiniteSet(1..n) /\ Cardinality(1..n) = n
      <3>1. n \in Int /\ 1 \in Int
        BY PlaytimeConstants
      <3>2. IsFiniteSet(1..n) /\ Cardinality(1..n) = IF 1 > n THEN 0 ELSE n - 1 + 1
        BY <3>1, FS_Interval
      <3>. QED  BY <3>2, PlaytimeConstants
    <2>3. IsFiniteSet({p}) /\ Cardinality({p}) = 1
      BY FS_Singleton
    <2>4. PICK T : T = {p} \X (1..n)
      OBVIOUS
    <2>5. Cardinality(T) = 1 * n
      <3>1. Cardinality({p} \X (1..n)) = Cardinality({p}) * Cardinality(1..n)
        BY <2>2, <2>3, FS_Product
      <3>. QED  BY <2>2, <2>3, <2>4, <3>1
    <2>6. T \subseteq Time!Reported
      BY <2>1, <2>4, PlaytimeConstants DEF Time!Reported
    <2>7. Cardinality(T) <= Cardinality(Time!Reported)
      BY <1>1, <2>6, FS_Subset
    <2>8. 1 * n = n
      BY PlaytimeConstants
    <2>. QED  BY <2>1, <2>5, <2>7, <2>8
  <1>. QED  BY <1>1, <1>2, <1>3, TimeCardinality

\* A minute played is one more.
LEMMA MinutePlayed ==
  ASSUME v1 \in [Profiles -> 0..MaxMinutes], NEW q \in Profiles, v1[q] < MaxMinutes,
         v1' = [v1 EXCEPT ![q] = v1[q] + 1]
  PROVE  Time!Cardinality(Time!Reported)' = Time!Cardinality(Time!Reported) + 1
  <1>1. PICK m \in 0..MaxMinutes : m = v1[q]
    OBVIOUS
  <1>2. m + 1 \in 1..MaxMinutes /\ \A i \in 1..MaxMinutes : i <= m + 1 <=> i <= m \/ i = m + 1
    BY <1>1, PlaytimeConstants
  <1>3. Time!Reported' = Time!Reported \cup {<<q, m + 1>>}
    <2>1. ASSUME NEW p \in Profiles, NEW i \in 1..MaxMinutes
          PROVE  i <= v1'[p] <=> i <= v1[p] \/ (p = q /\ i = m + 1)
      <3>1. CASE p = q
        BY <1>1, <1>2, <3>1
      <3>2. CASE p # q
        BY <3>2
      <3>. QED  BY <3>1, <3>2
    <2>2. ASSUME NEW r \in Profiles \X (1..MaxMinutes)
          PROVE  r \in Time!Reported' <=> r \in Time!Reported \cup {<<q, m + 1>>}
      <3>1. PICK p \in Profiles, i \in 1..MaxMinutes : r = <<p, i>>
        OBVIOUS
      <3>2. <<p, i>> = <<q, m + 1>> <=> p = q /\ i = m + 1
        OBVIOUS
      <3>. QED  BY <2>1, <3>1, <3>2 DEF Time!Reported
    <2>3. <<q, m + 1>> \in Profiles \X (1..MaxMinutes)
      BY <1>2
    <2>4. Time!Reported \subseteq Profiles \X (1..MaxMinutes) /\ Time!Reported' \subseteq Profiles \X (1..MaxMinutes)
      BY DEF Time!Reported
    <2>. QED  BY <2>2, <2>3, <2>4
  <1>4. <<q, m + 1>> \notin Time!Reported
    BY <1>1, PlaytimeConstants DEF Time!Reported
  <1>5. Cardinality(Time!Reported \cup {<<q, m + 1>>}) = Cardinality(Time!Reported) + 1
    BY <1>4, MinutesReported, FS_AddElement
  <1>. QED  BY <1>3, <1>5, TimeCardinality

LEMMA MinutesSame ==
  ASSUME v1' = v1 PROVE Time!Cardinality(Time!Reported)' = Time!Cardinality(Time!Reported)
  <1>1. Time!Reported' = Time!Reported
    BY DEF Time!Reported
  <1>. QED  BY <1>1

\* The type invariant in pieces that arithmetic can use.
LEMMA PlaytimeShape ==
  Time!PlaytimeTypeOK <=>
    /\ v1 \in [Profiles -> 0..MaxMinutes] /\ v2 \in Profiles \cup {"none"} /\ v3 \in BOOLEAN
    /\ v4 \in -1..MaxMinutes /\ v6 \in -1..MaxMinutes /\ v7 \in -1..MaxMinutes /\ v5 \in -1..MaxRow
    /\ v9 \in 0..v10 /\ v10 \in 0..MaxTimers
    /\ v11 \in [Tabs -> [pc : {"idle", "clear", "log"}, n : 0..MaxTimers]]
    /\ v12 \in [1..MaxTimers -> Nat]
  BY DEF Time!PlaytimeTypeOK, Time!NoProfile

LEMMA PlaytimeStart == ASSUME Time!PlaytimeInit PROVE Time!PlaytimeInv
  <1>. USE PlaytimeConstants
  <1>1. v1 \in [Profiles -> 0..MaxMinutes]
    <2>1. {0, 1} \subseteq 0..MaxMinutes
      OBVIOUS
    <2>. QED  BY <2>1 DEF Time!PlaytimeInit
  <1>2. Time!PlaytimeTypeOK
    <2>1. /\ v4 \in -1..MaxMinutes /\ v6 \in -1..MaxMinutes /\ v7 \in -1..MaxMinutes /\ v5 \in -1..MaxRow
          /\ v9 \in 0..v10 /\ v10 \in 0..MaxTimers /\ 0 \in 0..MaxTimers
      BY DEF Time!PlaytimeInit, Time!Unknown
    <2>2. v11 \in [Tabs -> [pc : {"idle", "clear", "log"}, n : 0..MaxTimers]]
      BY <2>1 DEF Time!PlaytimeInit, Time!AtRest
    <2>3. v2 \in Profiles \cup {"none"} /\ v3 \in BOOLEAN /\ v12 \in [1..MaxTimers -> Nat]
      BY DEF Time!PlaytimeInit, Time!NoProfile
    <2>. QED  BY <1>1, <2>1, <2>2, <2>3, PlaytimeShape
  <1>3. v8 = Time!Asleep /\ v2 = Time!NoProfile /\ v3 = FALSE /\ v4 = -1 /\ v5 = -1 /\ v6 = -1 /\ v7 = -1
    BY DEF Time!PlaytimeInit, Time!Unknown
  <1>4. v8.pc = "idle"
    BY <1>3 DEF Time!Asleep
  <1>5. Time!SteamInv
    <2>1. PICK p : p \in Profiles
      OBVIOUS
    <2>2. v1[p] \in Nat
      BY <1>1, <2>1
    <2>3. Time!OfProfile(p)
      BY <1>3, <1>4, <2>1, <2>2 DEF Time!OfProfile, Time!Unknown
    <2>4. v5 <= Time!Cardinality(Time!Reported)
      BY <1>1, <1>3, MinutesReported
    <2>. QED  BY <1>3, <2>1, <2>3, <2>4 DEF Time!SteamInv, Time!SyncShape
  <1>6. Time!TimerInv
    BY DEF Time!PlaytimeInit, Time!TimerInv, Time!AtRest
  <1>. QED  BY <1>2, <1>5, <1>6 DEF Time!PlaytimeInv

\* Types: the numbers stay within their bounds.
LEMMA SteamTypes ==
  ASSUME Time!PlaytimeInv, Time!SteamNext
  PROVE  /\ Time!PlaytimeTypeOK' /\ Time!SyncShape' /\ (v3' => v2' # Time!NoProfile)
         /\ UNCHANGED <<v9, v10, v11, v12>>
  <1>. USE PlaytimeConstants
  <1>. DEFINE Kept == /\ Time!PlaytimeTypeOK' /\ Time!SyncShape' /\ (v3' => v2' # Time!NoProfile)
                      /\ UNCHANGED <<v9, v10, v11, v12>>
  <1>. SUFFICES Kept
    OBVIOUS
  <1>t. /\ v1 \in [Profiles -> 0..MaxMinutes] /\ v2 \in Profiles \cup {"none"} /\ v3 \in BOOLEAN
        /\ v4 \in -1..MaxMinutes /\ v6 \in -1..MaxMinutes /\ v7 \in -1..MaxMinutes /\ v5 \in -1..MaxRow
        /\ v9 \in 0..v10 /\ v10 \in 0..MaxTimers
        /\ v11 \in [Tabs -> [pc : {"idle", "clear", "log"}, n : 0..MaxTimers]]
        /\ v12 \in [1..MaxTimers -> Nat]
    BY PlaytimeShape DEF Time!PlaytimeInv
  <1>s. Time!SyncShape /\ (v3 => v2 # Time!NoProfile)
    BY DEF Time!PlaytimeInv, Time!SteamInv
  <1>q. ASSUME /\ v1' \in [Profiles -> 0..MaxMinutes] /\ v2' \in Profiles \cup {"none"} /\ v3' \in BOOLEAN
               /\ v4' \in -1..MaxMinutes /\ v6' \in -1..MaxMinutes /\ v7' \in -1..MaxMinutes /\ v5' \in -1..MaxRow,
               Time!SyncShape', v3' => v2' # Time!NoProfile, UNCHANGED <<v9, v10, v11, v12>>
        PROVE  Kept
    BY <1>q, <1>t DEF Time!PlaytimeTypeOK, Time!NoProfile
  <1>. HIDE DEF Kept
  <1>u. ASSUME v8' = v8 PROVE Time!SyncShape'
    BY <1>u, <1>s DEF Time!SyncShape
  <1>1. ASSUME NEW p \in Profiles, Time!Play(p) PROVE Kept
    <2>1. v1[p] + 1 \in 0..MaxMinutes /\ v1' = [v1 EXCEPT ![p] = v1[p] + 1]
      BY <1>1, <1>t DEF Time!Play
    <2>2. UNCHANGED <<v2, v3, v4, v5, v6, v7, v8, v9, v10, v11, v12>>
      BY <1>1 DEF Time!Play, Time!timerVars
    <2>3. v1' \in [Profiles -> 0..MaxMinutes]
      BY <1>t, <2>1
    <2>. QED  BY <1>q, <1>s, <1>t, <1>u, <2>2, <2>3
  <1>2. ASSUME NEW p \in Profiles, Time!SteamPreview(p) PROVE Kept
    <2>1. v2' = p /\ p # "none" /\ v6' = v1[p] /\ UNCHANGED <<v1, v3, v4, v5, v7, v8, v9, v10, v11, v12>>
      BY <1>2 DEF Time!SteamPreview, Time!timerVars
    <2>2. v6' \in -1..MaxMinutes
      BY <1>t, <2>1
    <2>. QED  BY <1>q, <1>t, <1>u, <2>1, <2>2 DEF Time!NoProfile
  <1>3. CASE Time!SetSteamSync
    <2>1. v2 # Time!NoProfile /\ v3' \in BOOLEAN /\ UNCHANGED <<v1, v2, v4, v5, v6, v7, v8, v9, v10, v11, v12>>
      BY <1>3 DEF Time!SetSteamSync, Time!timerVars
    <2>. QED  BY <1>q, <1>t, <1>u, <2>1
  <1>4. CASE Time!UnlinkSteam
    <2>1. v2' = Time!NoProfile /\ v3' = FALSE /\ UNCHANGED <<v1, v4, v5, v6, v7, v8, v9, v10, v11, v12>>
      BY <1>4 DEF Time!UnlinkSteam, Time!timerVars
    <2>. QED  BY <1>q, <1>t, <1>u, <2>1 DEF Time!NoProfile
  <1>5. CASE Time!ForgetBaseline
    <2>1. v4' = -1 /\ UNCHANGED <<v1, v2, v3, v5, v6, v7, v8, v9, v10, v11, v12>>
      BY <1>5 DEF Time!ForgetBaseline, Time!timerVars, Time!Unknown
    <2>. QED  BY <1>q, <1>s, <1>t, <1>u, <2>1
  <1>6. CASE Time!Import
    <2>1. /\ v5' = (IF v5 > v6 THEN v5 ELSE v6) /\ v7' = v6 /\ v6' = -1
          /\ UNCHANGED <<v1, v2, v3, v4, v8, v9, v10, v11, v12>>
      BY <1>6 DEF Time!Import, Time!timerVars, Time!Bigger, Time!Unknown
    <2>2. v5' \in -1..MaxRow /\ v6' \in -1..MaxMinutes
      BY <1>t, <2>1
    <2>. QED  BY <1>q, <1>s, <1>t, <1>u, <2>1, <2>2
  <1>7. CASE Time!BaselineSteam
    <2>1. /\ v4' = (IF v4 > v7 THEN v4 ELSE v7) /\ v7' = -1
          /\ UNCHANGED <<v1, v2, v3, v5, v6, v8, v9, v10, v11, v12>>
      BY <1>7 DEF Time!BaselineSteam, Time!timerVars, Time!Bigger, Time!Unknown
    <2>2. v4' \in -1..MaxMinutes /\ v7' \in -1..MaxMinutes
      BY <1>t, <2>1
    <2>. QED  BY <1>q, <1>s, <1>t, <1>u, <2>1, <2>2
  <1>8. CASE Time!ImportCut
    <2>1. v7' = -1 /\ UNCHANGED <<v1, v2, v3, v4, v5, v6, v8, v9, v10, v11, v12>>
      BY <1>8 DEF Time!ImportCut, Time!timerVars, Time!Unknown
    <2>. QED  BY <1>q, <1>s, <1>t, <1>u, <2>1
  <1>9. CASE Time!AddGame \/ Time!RemoveGame
    <2>1. v5' \in {0, -1} /\ UNCHANGED <<v1, v2, v3, v4, v6, v7, v8, v9, v10, v11, v12>>
      BY <1>9 DEF Time!AddGame, Time!RemoveGame, Time!timerVars, Time!Unknown
    <2>2. v5' \in -1..MaxRow
      BY <2>1
    <2>. QED  BY <1>q, <1>s, <1>t, <1>u, <2>1, <2>2
  \* The sync's own steps.
  <1>v. ASSUME UNCHANGED <<v1, v2, v3, v4, v6, v7, v9, v10, v11, v12>>, v5' \in -1..MaxRow, Time!SyncShape'
        PROVE  Kept
    BY <1>q, <1>s, <1>t, <1>v
  <1>10. CASE Time!SyncSteam
    <2>1. v8' = [pc |-> "owned", of |-> v2] /\ v3 /\ UNCHANGED <<v1, v2, v3, v4, v5, v6, v7, v9, v10, v11, v12>>
      BY <1>10 DEF Time!SyncSteam, Time!timerVars
    <2>2. v2 \in Profiles
      BY <1>s, <1>t, <2>1 DEF Time!NoProfile
    <2>3. Time!SyncShape'
      BY <2>1, <2>2 DEF Time!SyncShape
    <2>. QED  BY <1>t, <1>v, <2>1, <2>3
  <1>11. CASE Time!OwnedGames
    <2>1. v8' = [pc |-> "read", now |-> v1[v8.of]] /\ v8.pc = "owned" /\ UNCHANGED <<v1, v2, v3, v4, v5, v6, v7, v9, v10, v11, v12>>
      BY <1>11 DEF Time!OwnedGames, Time!timerVars
    <2>2. v8.of \in Profiles
      BY <1>s, <2>1 DEF Time!SyncShape, Time!Asleep
    <2>3. v1[v8.of] \in 0..MaxMinutes
      BY <1>t, <2>2
    <2>4. Time!SyncShape'
      BY <2>1, <2>3 DEF Time!SyncShape
    <2>. QED  BY <1>t, <1>v, <2>1, <2>4
  <1>12. CASE Time!SyncRead
    <2>1. /\ v8.pc = "read" /\ UNCHANGED <<v1, v2, v3, v4, v5, v6, v7, v9, v10, v11, v12>>
          /\ v8' = IF v4 = v8.now THEN Time!Asleep
                   ELSE IF v4 # -1 /\ v8.now > v4 /\ v5 # -1
                   THEN [pc |-> "log", now |-> v8.now, before |-> v4]
                   ELSE [pc |-> "store", now |-> v8.now, logged |-> FALSE]
      BY <1>12 DEF Time!SyncRead, Time!timerVars, Time!Unknown
    <2>2. v8.now \in 0..MaxMinutes
      BY <1>s, <2>1 DEF Time!SyncShape, Time!Asleep
    <2>3. v4 # -1 /\ v8.now > v4 => v4 \in 0..v8.now
      BY <1>t, <2>2
    <2>4. \/ v8' = Time!Asleep
          \/ v8'.pc = "log" /\ v8'.now \in 0..MaxMinutes /\ v8'.before \in 0..v8'.now
          \/ v8'.pc = "store" /\ v8'.now \in 0..MaxMinutes /\ v8'.logged = FALSE
      BY <2>1, <2>2, <2>3
    <2>5. Time!SyncShape'
      BY <2>4 DEF Time!SyncShape
    <2>. QED  BY <1>t, <1>v, <2>1, <2>5
  <1>13. CASE Time!SyncLog
    <2>1. /\ v8.pc = "log" /\ v5 + v8.now - v8.before <= MaxRow
          /\ \/ v5' = v5 + (v8.now - v8.before) /\ v8' = [pc |-> "store", now |-> v8.now, logged |-> TRUE]
             \/ v5' = v5 /\ v8' = Time!Asleep
          /\ UNCHANGED <<v1, v2, v3, v4, v6, v7, v9, v10, v11, v12>>
      BY <1>13 DEF Time!SyncLog, Time!timerVars
    <2>2. v8.now \in 0..MaxMinutes /\ v8.before \in 0..v8.now
      BY <1>s, <2>1 DEF Time!SyncShape, Time!Asleep
    <2>3. v5' \in -1..MaxRow
      <3>1. PICK x, y : x = v8.now /\ y = v8.before
        OBVIOUS
      <3>2. x \in 0..MaxMinutes /\ y \in 0..x /\ v5 + x - y <= MaxRow /\ (v5' = v5 + (x - y) \/ v5' = v5)
        BY <2>1, <2>2, <3>1
      <3>. QED  BY <1>t, <3>2
    <2>4. v8' = Time!Asleep \/ (v8'.pc = "store" /\ v8'.now \in 0..MaxMinutes /\ v8'.logged = TRUE)
      BY <2>1, <2>2
    <2>5. Time!SyncShape'
      BY <2>4 DEF Time!SyncShape
    <2>. QED  BY <1>v, <2>1, <2>3, <2>5
  <1>14. CASE Time!SyncStore
    <2>1. v8.pc = "store" /\ v4' = v8.now /\ v8' = Time!Asleep /\ UNCHANGED <<v1, v2, v3, v5, v6, v7, v9, v10, v11, v12>>
      BY <1>14 DEF Time!SyncStore, Time!timerVars
    <2>2. v8.now \in 0..MaxMinutes
      BY <1>s, <2>1 DEF Time!SyncShape, Time!Asleep
    <2>3. v4' \in -1..MaxMinutes
      BY <2>1, <2>2
    <2>4. Time!SyncShape'
      BY <2>1 DEF Time!SyncShape
    <2>. QED  BY <1>q, <1>s, <1>t, <2>1, <2>3, <2>4
  <1>15. CASE Time!SyncCut
    <2>1. v8' = Time!Asleep /\ UNCHANGED <<v1, v2, v3, v4, v5, v6, v7, v9, v10, v11, v12>>
      BY <1>15 DEF Time!SyncCut, Time!timerVars
    <2>2. Time!SyncShape'
      BY <2>1 DEF Time!SyncShape
    <2>. QED  BY <1>t, <1>v, <2>1, <2>2
  <1>. QED  BY <1>1, <1>2, <1>3, <1>4, <1>5, <1>6, <1>7, <1>8, <1>9, <1>10, <1>11, <1>12, <1>13, <1>14, <1>15
            DEF Time!SteamNext

\* What holds of the profile that counts, after a step: of x, its minutes, and
\* c, all that were reported.
LEMMA ProfileAfter ==
  ASSUME NEW p \in Profiles, NEW x, NEW c, x = v1'[p], c = Time!Cardinality(Time!Reported)',
         v2' = "none" \/ v2' = p,
         v4' <= x, v6' <= x, v7' <= x,
         v8'.pc = "owned" => v8'.of = p,
         v8'.pc \in {"read", "log", "store"} => v8'.now <= x,
         (v2' # "none" \/ v8' # Time!Asleep) /\ v4' # -1 /\ v7' = -1 /\ ~(v8'.pc = "store" /\ v8'.logged) => v5' + x - v4' <= c,
         v2' # "none" /\ v4' = -1 /\ v7' = -1 /\ v6' # -1 => v5' + x - v6' <= c,
         v2' # "none" /\ v7' # -1 => v5' + x - (IF v4' > v7' THEN v4' ELSE v7') <= c,
         v8'.pc = "read" => v5' + x - v8'.now <= c /\ v4' <= v8'.now,
         v8'.pc = "log" => v5' + x - v8'.before <= c,
         v8'.pc = "store" => v5' + x - v8'.now <= c,
         v2' # "none" /\ v8'.pc = "log" => v4' = v8'.before,
         v2' # "none" /\ v8'.pc = "store" /\ v8'.logged => v4' # -1
  PROVE  Time!OfProfile(p)'
  BY DEF Time!OfProfile, Time!Owed, Time!Bigger, Time!Unknown, Time!NoProfile

\* What the steps keep while nothing slipped: c is how many minutes were
\* reported, and p the profile that counts.
LEMMA SteamCounts ==
  ASSUME Time!PlaytimeInv, Time!SteamNext, "steam" \notin v13'
  PROVE  /\ v5' <= Time!Cardinality(Time!Reported)'
         /\ v8' # Time!Asleep => v7' = Time!Unknown
         /\ \E p \in Profiles : Time!OfProfile(p)'
  <1>. USE PlaytimeConstants
  <1>. DEFINE Kept == /\ v5' <= Time!Cardinality(Time!Reported)'
                      /\ v8' # Time!Asleep => v7' = Time!Unknown
                      /\ \E p \in Profiles : Time!OfProfile(p)'
  <1>. SUFFICES Kept
    OBVIOUS
  <1>k. ASSUME NEW p \in Profiles, v5' <= Time!Cardinality(Time!Reported)', v8' # Time!Asleep => v7' = -1, Time!OfProfile(p)'
        PROVE  Kept
    BY <1>k DEF Time!Unknown
  <1>. HIDE DEF Kept
  <1>t. /\ v1 \in [Profiles -> 0..MaxMinutes] /\ v2 \in Profiles \cup {"none"} /\ v3 \in BOOLEAN
        /\ v4 \in -1..MaxMinutes /\ v6 \in -1..MaxMinutes /\ v7 \in -1..MaxMinutes /\ v5 \in -1..MaxRow
    BY PlaytimeShape DEF Time!PlaytimeInv
  <1>s. Time!SyncShape /\ (v3 => v2 # Time!NoProfile)
    BY DEF Time!PlaytimeInv, Time!SteamInv
  <1>n. "steam" \notin v13
    BY DEF Time!SteamNext, Time!Play, Time!SteamPreview, Time!SetSteamSync, Time!UnlinkSteam, Time!ForgetBaseline,
           Time!Import, Time!BaselineSteam, Time!ImportCut, Time!AddGame, Time!RemoveGame, Time!SyncSteam,
           Time!OwnedGames, Time!SyncRead, Time!SyncLog, Time!SyncStore, Time!SyncCut, Time!Slip
  <1>c. PICK c : c = Time!Cardinality(Time!Reported)
    OBVIOUS
  <1>m. c \in Nat /\ v5 <= c /\ \A q \in Profiles : v1[q] <= c
    BY <1>c, <1>t, <1>n, MinutesReported DEF Time!PlaytimeInv, Time!SteamInv
  <1>w. v8 # Time!Asleep => v7 = -1
    BY <1>n DEF Time!PlaytimeInv, Time!SteamInv, Time!Unknown
  <1>p. PICK p \in Profiles : Time!OfProfile(p)
    BY <1>n DEF Time!PlaytimeInv, Time!SteamInv
  <1>x. PICK x \in 0..MaxMinutes : x = v1[p]
    BY <1>t
  <1>o. /\ v2 = "none" \/ v2 = p
        /\ v4 <= x /\ v6 <= x /\ v7 <= x
        /\ v8.pc = "owned" => v8.of = p
        /\ v8.pc \in {"read", "log", "store"} => v8.now <= x
        /\ (v2 # "none" \/ v8 # Time!Asleep) /\ v4 # -1 /\ v7 = -1 /\ ~(v8.pc = "store" /\ v8.logged) => v5 + x - v4 <= c
        /\ v2 # "none" /\ v4 = -1 /\ v7 = -1 /\ v6 # -1 => v5 + x - v6 <= c
        /\ v2 # "none" /\ v7 # -1 => v5 + x - (IF v4 > v7 THEN v4 ELSE v7) <= c
        /\ v8.pc = "read" => v5 + x - v8.now <= c /\ v4 <= v8.now
        /\ v8.pc = "log" => v5 + x - v8.before <= c
        /\ v8.pc = "store" => v5 + x - v8.now <= c
        /\ v2 # "none" /\ v8.pc = "log" => v4 = v8.before
        /\ v2 # "none" /\ v8.pc = "store" /\ v8.logged => v4 # -1
    BY <1>p, <1>x, <1>c DEF Time!OfProfile, Time!Owed, Time!Bigger, Time!Unknown, Time!NoProfile
  \* Where the sync is, in numbers.
  <1>y. PICK now, before : now = v8.now /\ before = v8.before
    OBVIOUS
  <1>z. /\ v8.pc \in {"read", "log", "store"} => now \in 0..MaxMinutes
        /\ v8.pc = "log" => before \in 0..now
        /\ v8 = Time!Asleep => v8.pc = "idle"
    BY <1>s, <1>y DEF Time!SyncShape, Time!Asleep
  \* Reading as many minutes as there were before.
  <1>e. v1' = v1 => c = Time!Cardinality(Time!Reported)' /\ x = v1'[p]
    BY <1>c, <1>x, MinutesSame
  <1>1. ASSUME NEW q \in Profiles, Time!Play(q) PROVE Kept
    <2>1. v1[q] < MaxMinutes /\ v1' = [v1 EXCEPT ![q] = v1[q] + 1] /\ UNCHANGED <<v2, v3, v4, v5, v6, v7, v8>>
      BY <1>1 DEF Time!Play
    <2>2. Time!Cardinality(Time!Reported)' = c + 1
      BY <1>c, <1>t, <2>1, MinutePlayed
    <2>3. PICK y : y = v1'[p]
      OBVIOUS
    <2>4. y = x \/ y = x + 1
      BY <1>t, <1>x, <2>1, <2>3
    <2>. QED  BY <1>k, <1>m, <1>o, <1>t, <1>w, <1>y, <1>z, <2>1, <2>2, <2>3, <2>4, ProfileAfter
  <1>2. ASSUME NEW q \in Profiles, Time!SteamPreview(q) PROVE Kept
    <2>1. v2' = q /\ q # "none" /\ v6' = v1[q] /\ UNCHANGED <<v1, v3, v4, v5, v7, v8>>
      BY <1>2 DEF Time!SteamPreview
    <2>2. v2 = q \/ (v4 = -1 /\ v6 = -1 /\ v7 = -1 /\ v8 = Time!Asleep)
      BY <1>2 DEF Time!SteamPreview, Time!Slip, Time!Unknown
    <2>3. CASE v2 = q
      <3>1. q = p /\ v6' = x
        BY <1>o, <1>x, <2>1, <2>3
      <3>2. v5 + x - v6' <= c /\ v2' = v2 /\ v6' <= x
        BY <1>m, <1>t, <2>1, <2>3, <3>1
      <3>3. Time!OfProfile(p)'
        BY <1>e, <1>o, <2>1, <3>1, <3>2, ProfileAfter
      <3>. QED  BY <1>e, <1>k, <1>m, <1>w, <2>1, <3>3
    <2>4. CASE v4 = -1 /\ v6 = -1 /\ v7 = -1 /\ v8 = Time!Asleep
      <3>1. PICK y \in 0..MaxMinutes : y = v1[q]
        BY <1>t
      <3>2. c = Time!Cardinality(Time!Reported)' /\ y = v1'[q]
        BY <1>e, <2>1, <3>1
      <3>3. v5 + y - v6' <= c /\ v6' = y /\ -1 <= y /\ v8'.pc = "idle"
        BY <1>m, <1>t, <1>z, <2>1, <2>4, <3>1
      <3>4. Time!OfProfile(q)'
        BY <2>1, <2>4, <3>1, <3>2, <3>3, ProfileAfter
      <3>. QED  BY <1>k, <1>m, <2>1, <2>4, <3>2, <3>4
    <2>. QED  BY <2>2, <2>3, <2>4
  <1>3. CASE Time!SetSteamSync
    <2>1. UNCHANGED <<v1, v2, v4, v5, v6, v7, v8>>
      BY <1>3 DEF Time!SetSteamSync
    <2>. QED  BY <1>e, <1>k, <1>m, <1>o, <1>w, <2>1, ProfileAfter
  <1>4. CASE Time!UnlinkSteam
    <2>1. v2' = "none" /\ UNCHANGED <<v1, v4, v5, v6, v7, v8>>
      BY <1>4 DEF Time!UnlinkSteam, Time!NoProfile
    <2>. QED  BY <1>e, <1>k, <1>m, <1>o, <1>w, <2>1, ProfileAfter
  <1>5. CASE Time!ForgetBaseline
    <2>1. v2 = "none" /\ v4' = -1 /\ UNCHANGED <<v1, v2, v5, v6, v7, v8>>
      BY <1>5 DEF Time!ForgetBaseline, Time!Unknown, Time!NoProfile
    <2>. QED  BY <1>e, <1>k, <1>m, <1>o, <1>t, <1>w, <1>y, <1>z, <2>1, ProfileAfter
  <1>6. CASE Time!Import
    <2>1. /\ v6 # -1 /\ v7 = -1 /\ v8 = Time!Asleep
          /\ v5' = (IF v5 > v6 THEN v5 ELSE v6) /\ v7' = v6 /\ v6' = -1 /\ UNCHANGED <<v1, v2, v4, v8>>
      BY <1>6 DEF Time!Import, Time!Slip, Time!Bigger, Time!Unknown
    <2>2. x <= c /\ v5' <= c /\ v8.pc = "idle"
      BY <1>m, <1>o, <1>t, <1>x, <1>z, <2>1
    <2>3. v2 # "none" => v5' + x - (IF v4 > v6 THEN v4 ELSE v6) <= c
      BY <1>m, <1>o, <1>t, <2>1, <2>2
    <2>. QED  BY <1>e, <1>k, <1>m, <1>o, <2>1, <2>2, <2>3, ProfileAfter
  <1>7. CASE Time!BaselineSteam
    <2>1. v7 # -1 /\ v4' = (IF v4 > v7 THEN v4 ELSE v7) /\ v7' = -1 /\ UNCHANGED <<v1, v2, v5, v6, v8>>
      BY <1>7 DEF Time!BaselineSteam, Time!Bigger, Time!Unknown
    <2>2. v8 = Time!Asleep /\ v8.pc = "idle" /\ v4' # -1 /\ v4' <= x
      BY <1>o, <1>t, <1>w, <1>z, <2>1
    <2>. QED  BY <1>e, <1>k, <1>m, <1>o, <2>1, <2>2, ProfileAfter
  <1>8. CASE Time!ImportCut
    BY <1>8 DEF Time!ImportCut, Time!Slip
  <1>9. CASE Time!AddGame
    <2>1. v5 = -1 /\ v5' = 0 /\ UNCHANGED <<v1, v2, v4, v6, v7, v8>>
      BY <1>9 DEF Time!AddGame, Time!Unknown
    <2>2. x <= c
      BY <1>m, <1>x
    <2>. QED  BY <1>e, <1>k, <1>m, <1>o, <1>t, <1>w, <1>y, <1>z, <2>1, <2>2, ProfileAfter
  <1>10. CASE Time!RemoveGame
    <2>1. v5 # -1 /\ v5' = -1 /\ UNCHANGED <<v1, v2, v4, v6, v7, v8>>
      BY <1>10 DEF Time!RemoveGame, Time!Unknown
    <2>. QED  BY <1>e, <1>k, <1>m, <1>o, <1>t, <1>w, <1>y, <1>z, <2>1, ProfileAfter
  <1>11. CASE Time!SyncSteam
    <2>1. /\ v7 = -1 /\ v3 /\ v8'.pc = "owned" /\ v8'.of = v2 /\ UNCHANGED <<v1, v2, v4, v5, v6, v7>>
          /\ v8 = Time!Asleep
      BY <1>11 DEF Time!SyncSteam, Time!Slip, Time!Unknown
    <2>2. v2 # "none" /\ v2 = p /\ v8.pc = "idle"
      BY <1>o, <1>s, <1>z, <2>1 DEF Time!NoProfile
    <2>. QED  BY <1>e, <1>k, <1>m, <1>o, <2>1, <2>2, ProfileAfter
  <1>12. CASE Time!OwnedGames
    <2>1. v8.pc = "owned" /\ v8'.pc = "read" /\ v8'.now = v1[v8.of] /\ UNCHANGED <<v1, v2, v4, v5, v6, v7>>
      BY <1>12 DEF Time!OwnedGames
    <2>2. v8'.now = x /\ v7 = -1 /\ v8 # Time!Asleep
      BY <1>o, <1>w, <1>x, <1>z, <2>1
    <2>. QED  BY <1>e, <1>k, <1>m, <1>o, <1>t, <2>1, <2>2, ProfileAfter
  <1>13. CASE Time!SyncRead
    <2>1. /\ v8.pc = "read" /\ UNCHANGED <<v1, v2, v4, v5, v6, v7>>
          /\ \/ v8' = Time!Asleep
             \/ v4 # -1 /\ v8'.pc = "log" /\ v8'.now = now /\ v8'.before = v4
             \/ v8'.pc = "store" /\ v8'.now = now /\ v8'.logged = FALSE
      BY <1>13, <1>y DEF Time!SyncRead, Time!Unknown
    <2>2. v7 = -1 /\ v8 # Time!Asleep /\ now <= x /\ v5 + x - now <= c
      BY <1>o, <1>w, <1>y, <1>z, <2>1
    <2>3. v4 # -1 => v5 + x - v4 <= c
      BY <1>o, <2>1, <2>2
    <2>4. v8' = Time!Asleep => v8'.pc = "idle"
      BY DEF Time!Asleep
    <2>. QED  BY <1>e, <1>k, <1>m, <1>o, <1>t, <2>1, <2>2, <2>3, <2>4, ProfileAfter
  <1>14. CASE Time!SyncLog
    <2>1. /\ v8.pc = "log" /\ UNCHANGED <<v1, v2, v4, v6, v7>>
          /\ \/ v5' = v5 + (now - before) /\ v8'.pc = "store" /\ v8'.now = now /\ v8'.logged = TRUE
             \/ v5' = v5 /\ v8' = Time!Asleep
      BY <1>14, <1>y DEF Time!SyncLog
    <2>2. v7 = -1 /\ v8 # Time!Asleep /\ now <= x /\ v5 + x - before <= c /\ (v2 # "none" => v4 = before /\ v4 # -1)
      BY <1>o, <1>t, <1>w, <1>y, <1>z, <2>1
    <2>3. v4 # -1 => v5 + x - v4 <= c
      BY <1>o, <2>1, <2>2
    <2>4. v8' = Time!Asleep => v8'.pc = "idle"
      BY DEF Time!Asleep
    <2>5. v5 + (now - before) <= c /\ v5 + (now - before) + x - now <= c
      BY <1>m, <1>t, <1>z, <2>1, <2>2
    <2>. QED  BY <1>e, <1>k, <1>m, <1>o, <2>1, <2>2, <2>3, <2>4, <2>5, ProfileAfter
  <1>15. CASE Time!SyncStore
    <2>1. v8.pc = "store" /\ v4' = now /\ v8' = Time!Asleep /\ UNCHANGED <<v1, v2, v5, v6, v7>>
      BY <1>15, <1>y DEF Time!SyncStore
    <2>2. v7 = -1 /\ now # -1 /\ now <= x /\ v5 + x - now <= c
      BY <1>o, <1>w, <1>y, <1>z, <2>1
    <2>3. v8'.pc = "idle"
      BY <2>1 DEF Time!Asleep
    <2>. QED  BY <1>e, <1>k, <1>m, <1>o, <2>1, <2>2, <2>3, ProfileAfter
  <1>16. CASE Time!SyncCut
    <2>1. v8 # Time!Asleep /\ ~(v8.pc = "store" /\ v8.logged) /\ v8' = Time!Asleep /\ UNCHANGED <<v1, v2, v4, v5, v6, v7>>
      BY <1>16 DEF Time!SyncCut, Time!Slip
    <2>2. v7 = -1 /\ (v4 # -1 => v5 + x - v4 <= c)
      BY <1>o, <1>w, <2>1
    <2>3. v8'.pc = "idle"
      BY <2>1 DEF Time!Asleep
    <2>. QED  BY <1>e, <1>k, <1>m, <1>o, <2>1, <2>2, <2>3, ProfileAfter
  <1>. QED  BY <1>1, <1>2, <1>3, <1>4, <1>5, <1>6, <1>7, <1>8, <1>9, <1>10, <1>11, <1>12, <1>13, <1>14, <1>15, <1>16
            DEF Time!SteamNext

LEMMA TimerSame ==
  ASSUME Time!TimerInv, UNCHANGED <<v9, v10, v11, v12>>, "timer" \notin v13' => "timer" \notin v13
  PROVE  Time!TimerInv'
  BY DEF Time!TimerInv

LEMMA SteamStep == ASSUME Time!PlaytimeInv, Time!SteamNext PROVE Time!PlaytimeInv'
  <1>1. v13' = v13 \/ v13' = v13 \cup {"steam"}
    BY DEF Time!SteamNext, Time!Play, Time!SteamPreview, Time!SetSteamSync, Time!UnlinkSteam, Time!ForgetBaseline,
           Time!Import, Time!BaselineSteam, Time!ImportCut, Time!AddGame, Time!RemoveGame, Time!SyncSteam,
           Time!OwnedGames, Time!SyncRead, Time!SyncLog, Time!SyncStore, Time!SyncCut, Time!Slip
  <1>2. Time!PlaytimeTypeOK' /\ Time!SyncShape' /\ (v3' => v2' # Time!NoProfile) /\ UNCHANGED <<v9, v10, v11, v12>>
    BY SteamTypes
  <1>3. Time!TimerInv'
    BY <1>1, <1>2, TimerSame DEF Time!PlaytimeInv
  <1>4. Time!SteamInv'
    BY <1>2, SteamCounts DEF Time!SteamInv
  <1>. QED  BY <1>2, <1>3, <1>4 DEF Time!PlaytimeInv

LEMMA SteamSame ==
  ASSUME Time!SteamInv, UNCHANGED <<v1, v2, v3, v4, v5, v6, v7, v8>>, "steam" \notin v13' => "steam" \notin v13
  PROVE  Time!SteamInv'
  <1>1. Time!Cardinality(Time!Reported)' = Time!Cardinality(Time!Reported)
    BY MinutesSame
  <1>2. \A p : Time!OfProfile(p)' <=> Time!OfProfile(p)
    BY <1>1 DEF Time!OfProfile, Time!Owed
  <1>. QED  BY <1>1, <1>2 DEF Time!SteamInv, Time!SyncShape

\* A device with a timer is where stop says; every timer is one's that started.
LEMMA TimerStep == ASSUME Time!PlaytimeInv, Time!TimerNext PROVE Time!PlaytimeInv'
  <1>. USE PlaytimeConstants
  <1>t. /\ v9 \in 0..v10 /\ v10 \in 0..MaxTimers
        /\ v11 \in [Tabs -> [pc : {"idle", "clear", "log"}, n : 0..MaxTimers]]
        /\ v12 \in [1..MaxTimers -> Nat]
    BY PlaytimeShape DEF Time!PlaytimeInv
  <1>s. UNCHANGED <<v1, v2, v3, v4, v5, v6, v7, v8>>
    BY DEF Time!TimerNext, Time!StartTimer, Time!GetTimer, Time!ClearTimer, Time!LogTimer, Time!steamVars
  <1>n. v13' = v13 \/ v13' = v13 \cup {"timer"}
    BY DEF Time!TimerNext, Time!StartTimer, Time!GetTimer, Time!ClearTimer, Time!LogTimer, Time!Slip
  <1>q. ASSUME /\ v9' \in 0..v10' /\ v10' \in 0..MaxTimers
               /\ v11' \in [Tabs -> [pc : {"idle", "clear", "log"}, n : 0..MaxTimers]]
               /\ v12' \in [1..MaxTimers -> Nat],
               Time!TimerInv'
        PROVE  Time!PlaytimeInv'
    <2>1. Time!PlaytimeTypeOK'
      <3>1. /\ v1' \in [Profiles -> 0..MaxMinutes] /\ v2' \in Profiles \cup {"none"} /\ v3' \in BOOLEAN
            /\ v4' \in -1..MaxMinutes /\ v6' \in -1..MaxMinutes /\ v7' \in -1..MaxMinutes /\ v5' \in -1..MaxRow
        BY <1>s, PlaytimeShape DEF Time!PlaytimeInv
      <3>. QED  BY <1>q, <3>1 DEF Time!PlaytimeTypeOK, Time!NoProfile
    <2>2. Time!SteamInv'
      BY <1>n, <1>s, SteamSame DEF Time!PlaytimeInv
    <2>. QED  BY <1>q, <2>1, <2>2 DEF Time!PlaytimeInv
  <1>i. "timer" \notin v13' =>
          /\ \A d \in Tabs : v11[d].pc # "idle" => v11[d].n \in 1..v10 /\ v12[v11[d].n] = 0
          /\ \A d, e \in Tabs : v11[d].pc # "idle" /\ v11[e].pc # "idle" /\ v11[d].n = v11[e].n => d = e
          /\ \A d \in Tabs : v11[d].pc = "log" => v9 # v11[d].n
          /\ v9 # 0 => v12[v9] = 0
          /\ \A n \in 1..MaxTimers : v12[n] <= 1 /\ (n > v10 => v12[n] = 0)
    BY <1>n DEF Time!PlaytimeInv, Time!TimerInv
  <1>1. CASE Time!StartTimer
    <2>1. v10 < MaxTimers /\ v10' = v10 + 1 /\ v9' = v10 + 1 /\ UNCHANGED <<v11, v12, v13>>
      BY <1>1 DEF Time!StartTimer
    <2>2. v9' \in 0..v10' /\ v10' \in 0..MaxTimers /\ v9' \in 1..MaxTimers /\ v9' > v10
      BY <1>t, <2>1
    <2>3. \A k : k \in 1..v10 => k \in 1..v10' /\ k # v9'
      BY <1>t, <2>1
    <2>4. \A n \in 1..MaxTimers : n > v10' => n > v10
      BY <1>t, <2>1
    <2>5. Time!TimerInv'
      BY <1>i, <2>1, <2>2, <2>3, <2>4 DEF Time!TimerInv
    <2>. QED  BY <1>q, <1>t, <2>1, <2>2, <2>5
  <1>2. ASSUME NEW d \in Tabs, Time!GetTimer(d) PROVE Time!PlaytimeInv'
    <2>1. /\ v11[d].pc = "idle" /\ v9 # 0 /\ v11' = [v11 EXCEPT ![d] = [pc |-> "clear", n |-> v9]] /\ UNCHANGED <<v9, v10, v12>>
      BY <1>2 DEF Time!GetTimer, Time!AtRest
    <2>2. "timer" \notin v13' => \A e \in Tabs : ~(v11[e].pc = "clear" /\ v11[e].n = v9)
      BY <1>2 DEF Time!GetTimer, Time!Slip
    <2>3. v9 \in 1..v10 /\ v9 \in 0..MaxTimers
      BY <1>t, <2>1
    <2>4. v11' \in [Tabs -> [pc : {"idle", "clear", "log"}, n : 0..MaxTimers]]
      BY <1>t, <2>1, <2>3
    <2>5. v11'[d].pc = "clear" /\ v11'[d].n = v9 /\ \A e \in Tabs : e # d => v11'[e] = v11[e]
      BY <1>t, <2>1
    <2>6. \A e \in Tabs : v11[e].pc \in {"idle", "clear", "log"}
      BY <1>t
    <2>7. "timer" \notin v13' => \A e \in Tabs : e # d /\ v11[e].pc # "idle" => v11[e].n # v9
      BY <1>i, <2>2, <2>6
    <2>8. Time!TimerInv'
      BY <1>i, <2>1, <2>3, <2>5, <2>7 DEF Time!TimerInv
    <2>. QED  BY <1>q, <1>t, <2>1, <2>4, <2>8
  <1>3. ASSUME NEW d \in Tabs, NEW log \in BOOLEAN, Time!ClearTimer(d, log) PROVE Time!PlaytimeInv'
    <2>1. /\ v11[d].pc = "clear" /\ v9' = 0 /\ UNCHANGED <<v10, v12, v13>>
          /\ v11' = [v11 EXCEPT ![d] = IF log THEN [pc |-> "log", n |-> v11[d].n] ELSE [pc |-> "idle", n |-> 0]]
      BY <1>3 DEF Time!ClearTimer, Time!AtRest
    <2>2. v11[d].n \in 0..MaxTimers /\ 0 \in 0..MaxTimers /\ 0 \in 0..v10
      BY <1>t
    <2>3. v11' \in [Tabs -> [pc : {"idle", "clear", "log"}, n : 0..MaxTimers]]
      BY <1>t, <2>1, <2>2
    <2>4. /\ v11'[d].pc \in {"idle", "log"} /\ (v11'[d].pc # "idle" => v11'[d].n = v11[d].n)
          /\ \A e \in Tabs : e # d => v11'[e] = v11[e]
      BY <1>t, <2>1
    <2>5. \A e \in Tabs : v11'[e].pc # "idle" => v11[e].pc # "idle" /\ v11'[e].n = v11[e].n
      BY <2>1, <2>4
    <2>6. "timer" \notin v13' => \A e \in Tabs : v11[e].pc # "idle" => v11[e].n # 0
      BY <1>i, <1>t
    <2>7. Time!TimerInv'
      BY <1>i, <2>1, <2>5, <2>6 DEF Time!TimerInv
    <2>. QED  BY <1>q, <1>t, <2>1, <2>2, <2>3, <2>7
  <1>4. ASSUME NEW d \in Tabs, NEW ok \in BOOLEAN, Time!LogTimer(d, ok) PROVE Time!PlaytimeInv'
    <2>1. /\ v11[d].pc = "log" /\ UNCHANGED <<v9, v10, v13>> /\ v11' = [v11 EXCEPT ![d] = [pc |-> "idle", n |-> 0]]
          /\ v12' = IF ok THEN [v12 EXCEPT ![v11[d].n] = v12[v11[d].n] + 1] ELSE v12
      BY <1>4 DEF Time!LogTimer, Time!AtRest
    <2>2. 0 \in 0..MaxTimers
      OBVIOUS
    <2>3. v11' \in [Tabs -> [pc : {"idle", "clear", "log"}, n : 0..MaxTimers]]
      BY <1>t, <2>1, <2>2
    <2>4. v11'[d].pc = "idle" /\ \A e \in Tabs : e # d => v11'[e] = v11[e]
      BY <1>t, <2>1
    <2>5. PICK k : k = v11[d].n
      OBVIOUS
    <2>6. v12' \in [1..MaxTimers -> Nat] /\ \A n \in 1..MaxTimers : v12'[n] = IF ok /\ n = k THEN v12[n] + 1 ELSE v12[n]
      <3>1. CASE ok
        <4>1. v12' = [v12 EXCEPT ![k] = v12[k] + 1]
          BY <2>1, <2>5, <3>1
        <4>2. \A n \in 1..MaxTimers : v12[n] \in Nat /\ v12'[n] = IF n = k THEN v12[n] + 1 ELSE v12[n]
          BY <1>t, <4>1
        <4>3. v12' \in [1..MaxTimers -> Nat]
          <5>1. \A n \in 1..MaxTimers : v12'[n] \in Nat
            BY <4>2
          <5>2. v12' = [n \in 1..MaxTimers |-> v12'[n]]
            BY <1>t, <4>1
          <5>. QED  BY <5>1, <5>2
        <4>. QED  BY <3>1, <4>2, <4>3
      <3>2. CASE ~ok
        BY <1>t, <2>1, <3>2
      <3>. QED  BY <3>1, <3>2
    <2>7. "timer" \notin v13' => /\ k \in 1..v10 /\ v12[k] = 0 /\ v9 # k
                                 /\ \A e \in Tabs : e # d /\ v11[e].pc # "idle" => v11[e].n # k
      BY <1>i, <2>1, <2>5
    <2>8. \A m \in 1..v10 : m \in 1..MaxTimers
      BY <1>t
    <2>9. Time!TimerInv'
      BY <1>i, <1>t, <2>1, <2>4, <2>6, <2>7, <2>8 DEF Time!TimerInv
    <2>. QED  BY <1>q, <1>t, <2>1, <2>3, <2>6, <2>9
  <1>. QED  BY <1>1, <1>2, <1>3, <1>4 DEF Time!TimerNext

LEMMA PlaytimeSafe == ASSUME Time!PlaytimeInv PROVE Time!MinutesCountOnce /\ Time!PlaytimeTypeOK
  BY DEF Time!PlaytimeInv, Time!SteamInv, Time!TimerInv, Time!MinutesCountOnce

-----------------------------------------------------------------------------
(* The parts together.                                                     *)

\* A step that leaves a part's variables alone leaves what it preserves.
LEMMA IgdbSame == ASSUME I!IgdbInv, UNCHANGED pool PROVE I!IgdbInv'
  BY DEF pool, I!IgdbInv, I!IgdbTypeOK, I!Usable

LEMMA CatalogSame == ASSUME C!CatalogInv, UNCHANGED pool PROVE C!CatalogInv'
  <1>1. C!Busy' = C!Busy /\ C!Holding' = C!Holding
    BY DEF pool, C!Busy, C!Holding
  <1>2. C!CatalogTypeOK' /\ C!FailureBacksOff'
    BY DEF pool, C!CatalogInv, C!CatalogTypeOK, C!FailureBacksOff
  <1>3. {v5'[w].key : w \in C!Busy'} = {v5[w].key : w \in C!Busy}
    BY <1>1 DEF pool
  <1>. QED  BY <1>1, <1>2, <1>3 DEF pool, C!CatalogInv

LEMMA LimiterSame == ASSUME L!LimiterInv, UNCHANGED pool PROVE L!LimiterInv'
  <1>1. \A l : L!At(l)' = L!At(l)
    BY DEF pool, L!At
  <1>2. \A w : L!Turn(w, v1)' <=> L!Turn(w, v1)
    BY DEF pool, L!Turn, L!Same
  <1>3. \A l : L!Stand(L!At(l), v1[l])' <=> L!Stand(L!At(l), v1[l])
    BY DEF pool, L!Stand, L!At
  <1>. QED  BY <1>1, <1>2, <1>3 DEF pool, L!LimiterInv

LEMMA DiscoverSame == ASSUME W!DiscoverInv, UNCHANGED pool PROVE W!DiscoverInv'
  BY DEF pool, W!DiscoverInv, W!ShelvesHold, W!Recent

LEMMA BackfillSame == ASSUME B!BackfillInv, UNCHANGED pool PROVE B!BackfillInv'
  <1>1. B!BackfillTypeOK' /\ B!MarkedIsSettled'
    BY DEF pool, B!BackfillInv, B!BackfillTypeOK, B!MarkedIsSettled
  <1>. QED  BY <1>1 DEF pool, B!BackfillInv, B!ByMarker

LEMMA EnrichSame == ASSUME E!EnrichInv, UNCHANGED pool PROVE E!EnrichInv'
  BY DEF pool, E!EnrichInv, E!RankInv, E!DetailInv, E!WellFormed, E!Saved, E!ToCome

LEMMA DeltaSame == ASSUME D!DeltaInv, UNCHANGED pool PROVE D!DeltaInv'
  <1>1. D!DeltaTypeOK' /\ D!DeltaComplete'
    BY DEF pool, D!DeltaInv, D!DeltaTypeOK, D!DeltaComplete, D!Missed
  <1>2. D!Listed(v5)' = D!Listed(v5) /\ \A g : D!Accounted(g)' <=> D!Accounted(g)
    BY DEF pool, D!Listed, D!Accounted
  <1>3. \A g : D!Position(g, v5)' = D!Position(g, v5)
    BY DEF pool, D!Position, D!Listed, D!Before
  <1>4. D!Passed => D!Passed'
    BY <1>2, <1>3 DEF pool, D!Passed
  <1>. QED  BY <1>1, <1>2, <1>4 DEF pool, D!DeltaInv

LEMMA MatchingSame == ASSUME M!MatchingInv, UNCHANGED pool PROVE M!MatchingInv'
  BY MatchElsewhere, MatchingTypes DEF pool

LEMMA JobsSame == ASSUME J!JobsInv, UNCHANGED pool PROVE J!JobsInv'
  BY DEF pool, J!JobsInv, J!JobsTypeOK, J!NothingForgotten

LEMMA AlertsSame == ASSUME N!AlertsInv, UNCHANGED pool PROVE N!AlertsInv'
  BY DEF pool, N!AlertsInv, N!AlertsTypeOK, N!AlertInv, N!DeliverInv, N!OwedInv, N!DigestInv, N!Sending

LEMMA PlaytimeSame == ASSUME Time!PlaytimeInv, UNCHANGED pool PROVE Time!PlaytimeInv'
  <1>1. Time!PlaytimeTypeOK'
    BY DEF pool, Time!PlaytimeInv, Time!PlaytimeTypeOK
  <1>2. Time!SteamInv' /\ Time!TimerInv'
    BY SteamSame, TimerSame DEF pool, Time!PlaytimeInv
  <1>. QED  BY <1>1, <1>2 DEF Time!PlaytimeInv

LEMMA ProcessSame == ASSUME Proc!ProcessInv, UNCHANGED pool PROVE Proc!ProcessInv'
  BY DEF pool, Proc!ProcessInv, Proc!ProcessTypeOK, Proc!SnapshotInv, Proc!OpenInv, Proc!Held

LEMMA PartsStart == ASSUME BackgroundInit PROVE PartsInv
  <1>1. part \in Parts
    BY DEF BackgroundInit
  <1>2. CASE part = "catalog"
    BY <1>1, <1>2, CatalogStart DEF BackgroundInit, PartsInv
  <1>3. CASE part = "limiter"
    BY <1>1, <1>3, LimiterStart DEF BackgroundInit, PartsInv
  <1>4. CASE part = "igdb"
    BY <1>1, <1>4, IgdbStart DEF BackgroundInit, PartsInv
  <1>5. CASE part = "delta"
    BY <1>1, <1>5, DeltaStart DEF BackgroundInit, PartsInv
  <1>6. CASE part = "enrich"
    BY <1>1, <1>6, EnrichStart DEF BackgroundInit, PartsInv
  <1>7. CASE part = "backfill"
    BY <1>1, <1>7, BackfillStart DEF BackgroundInit, PartsInv
  <1>8. CASE part = "matching"
    BY <1>1, <1>8, MatchingStart DEF BackgroundInit, PartsInv
  <1>9. CASE part = "discover"
    BY <1>1, <1>9, DiscoverStart DEF BackgroundInit, PartsInv
  <1>10. CASE part = "jobs"
    BY <1>1, <1>10, JobsStart DEF BackgroundInit, PartsInv
  <1>11. CASE part = "alerts"
    BY <1>1, <1>11, AlertsStart DEF BackgroundInit, PartsInv
  <1>12. CASE part \in {"steam", "timer"}
    BY <1>1, <1>12, PlaytimeStart DEF BackgroundInit, PartsInv
  <1>13. CASE part = "process"
    BY <1>1, <1>13, ProcessStart DEF BackgroundInit, PartsInv
  <1>. QED  BY <1>1, <1>2, <1>3, <1>4, <1>5, <1>6, <1>7, <1>8, <1>9, <1>10, <1>11, <1>12, <1>13, PartsConstants

LEMMA PartsStep == ASSUME PartsInv, BackgroundNext PROVE PartsInv'
  <1>1. CASE Of("catalog") /\ C!CatalogNext
    BY <1>1, CatalogStep DEF Of, PartsInv
  <1>2. CASE Of("limiter") /\ L!LimiterNext
    BY <1>2, LimiterStep DEF Of, PartsInv
  <1>3. CASE Of("igdb") /\ I!IgdbNext
    BY <1>3, IgdbStep DEF Of, PartsInv
  <1>4. CASE Of("delta") /\ D!DeltaNext
    BY <1>4, DeltaStep DEF Of, PartsInv
  <1>5. CASE Of("enrich") /\ E!EnrichNext
    BY <1>5, EnrichStep DEF Of, PartsInv
  <1>6. CASE Of("backfill") /\ B!BackfillNext
    BY <1>6, BackfillStep DEF Of, PartsInv
  <1>7. CASE Of("matching") /\ M!MatchingNext
    BY <1>7, MatchingStep DEF Of, PartsInv
  <1>8. CASE Of("discover") /\ W!DiscoverNext
    BY <1>8, DiscoverStep DEF Of, PartsInv
  <1>9. CASE Of("jobs") /\ J!JobsNext
    BY <1>9, JobsStep DEF Of, PartsInv
  <1>10. CASE Of("alerts") /\ N!AlertsNext
    BY <1>10, AlertsStep DEF Of, PartsInv
  <1>11. CASE Of("steam") /\ Time!SteamNext
    BY <1>11, SteamStep DEF Of, PartsInv
  <1>12. CASE Of("timer") /\ Time!TimerNext
    BY <1>12, TimerStep DEF Of, PartsInv
  <1>13. CASE Of("process") /\ Proc!ProcessNext
    BY <1>13, ProcessStep DEF Of, PartsInv
  <1>. QED  BY <1>1, <1>2, <1>3, <1>4, <1>5, <1>6, <1>7, <1>8, <1>9, <1>10, <1>11, <1>12, <1>13 DEF BackgroundNext

LEMMA PartsStutter == ASSUME PartsInv, UNCHANGED <<part, pool>> PROVE PartsInv'
  <1>1. UNCHANGED pool /\ part' = part
    BY DEF pool
  <1>. QED  BY <1>1, CatalogSame, LimiterSame, IgdbSame, DeltaSame, EnrichSame, BackfillSame, MatchingSame,
               DiscoverSame, JobsSame, AlertsSame, PlaytimeSame, ProcessSame DEF PartsInv

LEMMA PartsHold == BackgroundSpec => []PartsInv
  <1>1. PartsInv /\ [BackgroundNext]_<<part, pool>> => PartsInv'
    BY PartsStep, PartsStutter
  <1>. QED  BY PartsStart, <1>1, PTL DEF BackgroundSpec

\* Whatever the queries, callers, games, alerts, profiles, versions and bounds
\* are, the variables of each part hold values of their own shape.
THEOREM BackgroundTypesOK == BackgroundSpec => []TypesOK
  <1>1. PartsInv => TypesOK
    <2>. SUFFICES ASSUME PartsInv PROVE TypesOK
      OBVIOUS
    <2>1. /\ part = "catalog" => C!CatalogTypeOK
          /\ part = "limiter" => L!LimiterTypeOK
          /\ part = "igdb" => I!IgdbTypeOK
          /\ part = "delta" => D!DeltaTypeOK
      BY LimiterSafe, DeltaSafe DEF PartsInv, C!CatalogInv, I!IgdbInv
    <2>2. /\ part = "enrich" => E!EnrichTypeOK
          /\ part = "backfill" => B!BackfillTypeOK
          /\ part = "matching" => M!MatchingTypeOK
          /\ part = "discover" => W!DiscoverTypeOK
      BY EnrichSafe, MatchingSafe, DiscoverSafe DEF PartsInv, B!BackfillInv
    <2>3. /\ part = "jobs" => J!JobsTypeOK
          /\ part = "alerts" => N!AlertsTypeOK
          /\ part \in {"steam", "timer"} => Time!PlaytimeTypeOK
          /\ part = "process" => Proc!ProcessTypeOK
      BY AlertsSafe, PlaytimeSafe DEF PartsInv, J!JobsInv, Proc!ProcessInv
    <2>. QED  BY <2>1, <2>2, <2>3 DEF TypesOK
  <1>. QED  BY <1>1, PartsHold, PTL

\* The search cache, the limiter and the IGDB client, for as many searches,
\* slots, callers and requests as there are: every reserved key and every slot
\* has the one worker that gives it back, a failed query is not asked for
\* again within the hour, the caller whose turn it is has a timer, a wake-up or
\* a cancelled context, and no more tokens are fetched than were lost, and one.
THEOREM IgdbStaysShared == BackgroundSpec => []IgdbIsShared
  <1>1. PartsInv => IgdbIsShared
    BY CatalogSafe, LimiterSafe, IgdbSafe DEF PartsInv, IgdbIsShared
  <1>. QED  BY <1>1, PartsHold, PTL

\* The delta sync, the details job and the backfills, for any catalog, page
\* and batch: what changed at IGDB is stored once a run has passed it (but for
\* the seconds and the shifts DeltaComplete names), a refreshed game has its
\* times to beat, a marked row is settled, and a run asks again only for rows
\* whose request or write failed in it.
THEOREM CatalogStaysComplete == BackgroundSpec => []CatalogIsComplete
  <1>1. PartsInv => CatalogIsComplete
    BY DeltaSafe, EnrichSafe, BackfillSafe DEF PartsInv, CatalogIsComplete
  <1>. QED  BY <1>1, PartsHold, PTL

\* Matching, whatever the titles, results and links: a name is taken without a
\* review only when it is clear, and an app that was matched is remembered.
THEOREM GamesStayFound == BackgroundSpec => []GamesAreFound
  <1>1. PartsInv => GamesAreFound
    BY MatchingSafe DEF PartsInv, GamesAreFound
  <1>. QED  BY <1>1, PartsHold, PTL

\* Discover, for any TTL and any number of readers: the shelves a request takes
\* were read less than TTL and one slow computation ago, and empty ones were
\* computed for it.
THEOREM ShelvesStay == BackgroundSpec => []ShelvesHold
  <1>1. PartsInv => ShelvesHold
    BY DiscoverSafe DEF PartsInv, ShelvesHold
  <1>. QED  BY <1>1, PartsHold, PTL

\* Play time, for any profiles, devices, minutes and timers: the library holds
\* no more minutes than Steam reported and a timer becomes one session, but for
\* the ways around it that MinutesCountOnce names.
THEOREM MinutesStayOnce == BackgroundSpec => []MinutesCountOnce
  <1>1. PartsInv => MinutesCountOnce
    BY PlaytimeSafe DEF PartsInv, MinutesCountOnce
  <1>. QED  BY <1>1, PartsHold, PTL

\* The job runner and the alerts, for any interval, jitter, key and browser: a
\* run asked for or due is not forgotten, and an alert is one notification, one
\* push to a browser and one mail, but for what a stop loses or repeats.
THEOREM JobsStay == BackgroundSpec => []JobsHold
  <1>1. PartsInv => JobsHold
    BY AlertsSafe DEF PartsInv, JobsHold, J!JobsInv
  <1>. QED  BY <1>1, PartsHold, PTL

\* Upgrades and shutdowns, for any number of versions, snapshots kept and
\* starts: a failed upgrade leaves a snapshot of the version before it, and the
\* database closes after all who write to it have stopped.
THEOREM DataStays == BackgroundSpec => []DataSurvives
  <1>1. PartsInv => DataSurvives
    BY ProcessSafe DEF PartsInv, DataSurvives
  <1>. QED  BY <1>1, PartsHold, PTL
=============================================================================
