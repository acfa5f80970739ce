-------------------------------- MODULE Jobs --------------------------------
(***************************************************************************)
(* The job runner: one loop per job that waits for the job's next run or   *)
(* for RunNow, runs it, and persists when the next one is due.  The loop   *)
(* is cancelled on shutdown and the process may die at any point.          *)
(***************************************************************************)
EXTENDS Integers

CONSTANTS
  Interval,    \* ticks from the end of a run to the next one
  Jitter,      \* ticks of random delay at most
  FirstRun,    \* ticks before the first run ever
  MaxClock,    \* bound: ticks
  MaxStarts    \* bound: starts of the process

VARIABLES
  now,         \* the clock
  stored,      \* jobs.next_run_at, or None before the job was first seen
  loop,        \* down, load, ready (overdue), select (waiting) or run
  next,        \* the loop's own next run
  wake,        \* the job's wake channel holds a token
  stopping,    \* the runner's context is cancelled
  starts,      \* starts of the process so far
  asked,       \* history: RunNow was called and no run has started since
  due,         \* history: the run that is on began when its stored time had come
  cut          \* history: such a run was cut and none has finished since

jobsVars == <<now, stored, loop, next, wake, stopping, starts, asked, due, cut>>

None == -1
----------------------------------------------------------------------------
StartProcess ==
  /\ loop = "down" /\ starts < MaxStarts
  /\ loop' = "load" /\ stopping' = FALSE /\ wake' = FALSE /\ asked' = FALSE
  /\ starts' = starts + 1
  /\ UNCHANGED <<now, stored, next, due, cut>>

\* nextRun: the first sight of a job stores its first run, a schedule that is
\* further off than one interval is pulled in.  It may fail at either statement.
Load(delay, fails) ==
  /\ loop = "load"
  /\ next' = IF fails THEN now + FirstRun
             ELSE IF stored = None THEN now + FirstRun + delay
             ELSE IF stored > now + Interval + Jitter THEN now + Interval + Jitter ELSE stored
  /\ stored' = IF stored = None /\ ~fails THEN now + FirstRun + delay ELSE stored
  /\ loop' = IF next' > now THEN "select" ELSE "ready"
  /\ UNCHANGED <<now, wake, stopping, starts, asked, due, cut>>

\* Slip: the token is offered only to a loop that is waiting for it.
RunNowUnbuffered ==
  /\ loop # "down"
  /\ wake' = (loop = "select") /\ asked' = TRUE
  /\ UNCHANGED <<now, stored, loop, next, stopping, starts, due, cut>>

\* A channel of one: a second ask finds it full and is the same ask.
RunNow ==
  /\ loop # "down"
  /\ wake' = TRUE /\ asked' = TRUE
  /\ UNCHANGED <<now, stored, loop, next, stopping, starts, due, cut>>

BeginRun ==
  /\ loop' = "run" /\ asked' = FALSE
  /\ due' = (stored # None /\ stored <= now)
  /\ UNCHANGED <<now, stored, next, stopping, starts, cut>>

\* Only a loop that had to wait looks at the channel.
Woken == loop = "select" /\ wake /\ ~stopping /\ wake' = FALSE /\ BeginRun
TimeCame ==
  /\ loop = "ready" \/ (loop = "select" /\ next <= now)
  /\ ~stopping /\ wake' = wake /\ BeginRun

\* Slip: the next run is stored whether or not this one was cut.
FinishStoring(delay, fails) ==
  /\ loop = "run"
  /\ loop' = "select" /\ next' = now + Interval + delay
  /\ stored' = IF fails \/ stored = None THEN stored ELSE now + Interval + delay
  /\ cut' = IF stopping THEN due \/ cut ELSE (IF fails THEN cut ELSE FALSE)
  /\ due' = FALSE
  /\ UNCHANGED <<now, wake, stopping, starts, asked>>

\* runOnce after the job returned: nothing is stored on the way down, nor by an
\* UPDATE that finds no row, as nextRun could not store one.
Finish(delay, fails) ==
  /\ loop = "run"
  /\ loop' = "select" /\ next' = now + Interval + delay
  /\ stored' = IF stopping \/ fails \/ stored = None THEN stored ELSE now + Interval + delay
  /\ cut' = IF stopping THEN due \/ cut ELSE (IF fails THEN cut ELSE FALSE)
  /\ due' = FALSE
  /\ UNCHANGED <<now, wake, stopping, starts, asked>>

Shutdown ==
  /\ loop # "down" /\ ~stopping
  /\ stopping' = TRUE
  /\ UNCHANGED <<now, stored, loop, next, wake, starts, asked, due, cut>>

\* The loop sees that its context is cancelled; Shutdown waits for it.
Exit ==
  /\ loop \in {"ready", "select"} /\ stopping
  /\ loop' = "down" /\ wake' = FALSE /\ asked' = FALSE
  /\ UNCHANGED <<now, stored, next, stopping, starts, due, cut>>

Crash ==
  /\ loop # "down"
  /\ loop' = "down" /\ wake' = FALSE /\ asked' = FALSE
  /\ cut' = (cut \/ due) /\ due' = FALSE
  /\ UNCHANGED <<now, stored, next, stopping, starts>>

Tick ==
  /\ now < MaxClock
  /\ now' = now + 1
  /\ UNCHANGED <<stored, loop, next, wake, stopping, starts, asked, due, cut>>

\* The schedule found at the first start may be of a longer interval.
JobsInit ==
  /\ now = 0 /\ stored \in {None, 0, MaxClock}
  /\ loop = "down" /\ next = 0 /\ wake = FALSE /\ stopping = FALSE /\ starts = 0
  /\ asked = FALSE /\ due = FALSE /\ cut = FALSE

JobsNext ==
  \/ StartProcess \/ RunNow \/ Woken \/ TimeCame \/ Shutdown \/ Exit \/ Crash \/ Tick
  \/ \E delay \in 0..Jitter, fails \in BOOLEAN : Load(delay, fails) \/ Finish(delay, fails)
----------------------------------------------------------------------------
(* Properties.                                                             *)

JobsTypeOK ==
  /\ now \in 0..MaxClock /\ starts \in 0..MaxStarts
  /\ stored \in None..(MaxClock + FirstRun + Interval + Jitter)
  /\ next \in 0..(MaxClock + FirstRun + Interval + Jitter)
  /\ loop \in {"down", "load", "ready", "select", "run"}
  /\ \A b \in {wake, stopping, asked, due, cut} : b \in BOOLEAN

\* While the process is up, a RunNow that no run has answered is still in the
\* channel, whatever the loop was doing when it came; and a run whose time had
\* come and that a shutdown or a crash cut is still due, so that it "resumes
\* after restart" (runOnce).
NothingForgotten ==
  /\ asked => wake
  /\ cut => stored # None /\ stored <= now
----------------------------------------------------------------------------
(* What the steps preserve.                                                *)

JobsInv ==
  /\ JobsTypeOK
  /\ NothingForgotten
  /\ due => stored # None /\ stored <= now
=============================================================================
