------------------------------- MODULE Limiter -------------------------------
(***************************************************************************)
(* The limiter every IGDB request passes: one slot an interval, two lanes, *)
(* and waiters that sleep on a channel that is closed and replaced each    *)
(* time a slot is taken or a waiter leaves.                                *)
(***************************************************************************)
EXTENDS Integers, Sequences, FiniteSets

CONSTANTS
  Callers,     \* goroutines that ask for a slot
  Background   \* those that do so in the background lane

VARIABLES
  queues,      \* rl.queues
  open,        \* now is not before rl.next
  waiting,     \* callers inside WaitContext; all of them sleep between looks
  timer,       \* of these, the ones that sleep with a timer
  woken,       \* the ones whose channel was closed while they slept
  cancelled,   \* the ones whose context was cancelled
  alike        \* every *laneWaiter is the same address

limiterVars == <<queues, open, waiting, timer, woken, cancelled, alike>>

Lanes == {"background", "interactive"}
LaneOf(w) == IF w \in Background THEN "background" ELSE "interactive"

\* laneWaiter is struct{}: two pointers to it may or may not be equal, and the
\* build that makes them equal makes every waiter the head of its lane.
Same(v, w) == alike \/ v = w

\* It is w's turn: the head of its lane, and nobody interactive before it.
Turn(w, q) ==
  /\ q[LaneOf(w)] # <<>> /\ Same(Head(q[LaneOf(w)]), w)
  /\ LaneOf(w) = "background" => q["interactive"] = <<>>

\* broadcast: whoever sleeps wakes up and looks again.
Broadcast(w) == woken' = waiting \ {w}
Out(w) == waiting' = waiting \ {w} /\ timer' = timer \ {w} /\ cancelled' = cancelled \ {w}

TakeSlot(w, q) ==
  /\ queues' = [q EXCEPT ![LaneOf(w)] = Tail(@)]
  /\ open' = FALSE
  /\ Out(w) /\ Broadcast(w)

Sleep(w, q) ==
  /\ queues' = q
  /\ waiting' = waiting \cup {w}
  /\ timer' = IF Turn(w, q) THEN timer \cup {w} ELSE timer \ {w}
  /\ woken' = woken \ {w}
  /\ UNCHANGED <<open, cancelled>>

\* One turn of WaitContext's loop, under the lock.
Look(w, q) == IF Turn(w, q) /\ open THEN TakeSlot(w, q) ELSE Sleep(w, q)

WaitContext(w) ==
  /\ w \notin waiting
  /\ Look(w, [queues EXCEPT ![LaneOf(w)] = Append(@, w)])
  /\ UNCHANGED alike

Awake(w) == w \in waiting /\ (w \in woken \/ w \in cancelled \/ (w \in timer /\ open))

Wake(w) ==
  /\ Awake(w) /\ w \notin cancelled
  /\ Look(w, queues)
  /\ UNCHANGED alike

\* remove drops the first entry that is w's.
Removed(w, q) ==
  LET i == CHOOSE k \in DOMAIN q : Same(q[k], w) /\ \A j \in 1..(k - 1) : ~Same(q[j], w)
  IN  SubSeq(q, 1, i - 1) \o SubSeq(q, i + 1, Len(q))

\* Slip: a waiter that gives up tells nobody.
LeaveQuietly(w) ==
  /\ w \in waiting /\ w \in cancelled
  /\ queues' = [queues EXCEPT ![LaneOf(w)] = Removed(w, @)]
  /\ Out(w) /\ woken' = woken \ {w}
  /\ UNCHANGED <<open, alike>>

Leave(w) ==
  /\ w \in waiting /\ w \in cancelled
  /\ queues' = [queues EXCEPT ![LaneOf(w)] = Removed(w, @)]
  /\ Out(w) /\ Broadcast(w)
  /\ UNCHANGED <<open, alike>>

Cancel(w) ==
  /\ w \in waiting /\ w \notin cancelled
  /\ cancelled' = cancelled \cup {w}
  /\ UNCHANGED <<queues, open, waiting, timer, woken, alike>>

\* The interval since the last slot has passed.
IntervalPasses ==
  /\ ~open
  /\ open' = TRUE
  /\ UNCHANGED <<queues, waiting, timer, woken, cancelled, alike>>

LimiterInit ==
  /\ queues = [l \in Lanes |-> <<>>] /\ open = TRUE
  /\ waiting = {} /\ timer = {} /\ woken = {} /\ cancelled = {}
  /\ alike \in BOOLEAN

LimiterNext ==
  \/ \E w \in Callers : WaitContext(w) \/ Wake(w) \/ Leave(w) \/ Cancel(w)
  \/ IntervalPasses
----------------------------------------------------------------------------
(* Properties.                                                             *)

LimiterTypeOK ==
  /\ DOMAIN queues = Lanes /\ \A l \in Lanes : queues[l] \in Seq(Callers)
  /\ waiting \subseteq Callers
  /\ timer \subseteq waiting /\ woken \subseteq waiting /\ cancelled \subseteq waiting
  /\ open \in BOOLEAN /\ alike \in BOOLEAN

\* The waiters that could take the next slot never all sleep without being
\* woken: whoever left, was served or joined in whatever order, as long as one
\* waits it is somebody's turn, and that one has a timer, or is being woken.
NoLostWakeup ==
  /\ \A l \in Lanes : Len(queues[l]) = Cardinality({w \in waiting : LaneOf(w) = l})
  /\ \A w \in waiting : Turn(w, queues) => w \in timer \cup woken \cup cancelled
  /\ waiting # {} => \E w \in waiting : Turn(w, queues)
----------------------------------------------------------------------------
(* What the steps preserve.                                                *)

At(l) == {w \in waiting : LaneOf(w) = l}

\* Each of these callers stands once in the queue q, and nobody else.
Stand(callers, q) ==
  /\ callers = {q[i] : i \in 1..Len(q)}
  /\ \A i, j \in 1..Len(q) : q[i] = q[j] => i = j

\* Waiters that are all alike make an entry anybody's; only their number counts.
LimiterInv ==
  /\ waiting \subseteq Callers
  /\ timer \subseteq waiting /\ woken \subseteq waiting /\ cancelled \subseteq waiting
  /\ open \in BOOLEAN /\ alike \in BOOLEAN
  /\ queues \in [Lanes -> Seq(Callers)]
  /\ \A l \in Lanes : Len(queues[l]) = Cardinality(At(l)) /\ (alike \/ Stand(At(l), queues[l]))
  /\ \A w \in waiting : Turn(w, queues) => w \in timer \cup woken \cup cancelled
=============================================================================
