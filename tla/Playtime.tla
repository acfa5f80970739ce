------------------------------ MODULE Playtime ------------------------------
(***************************************************************************)
(* Play time from outside the diary: the session timer every device shows, *)
(* and Steam, whose totals an import writes and a daily sync follows up.   *)
(* The timer is read, cleared and logged in three steps; an import and a   *)
(* sync each commit the minutes and the baseline one after the other.      *)
(*                                                                         *)
(* One person, one Steam app with its game, and another game that is timed.*)
(***************************************************************************)
EXTENDS Integers, FiniteSets

CONSTANTS
  Profiles,   \* Steam accounts that may be linked
  Tabs,       \* devices that stop the timer
  MaxMinutes, \* bound: minutes a profile plays
  MaxRow,     \* bound: minutes the library gets to hold
  MaxStarts   \* bound: timers started

VARIABLES
  total,      \* profile -> minutes Steam reports
  link,       \* the linked profile, or NoProfile
  syncOn,     \* steam_links.sync
  base,       \* steam_playtime.minutes, Unknown without a row
  row,        \* the game's minutes in the library, Unknown when it is not there
  preview,    \* the minutes of the import being reviewed, Unknown without one
  writing,    \* an import between its two commits: the minutes it wrote
  sync,       \* the sync job: where it is and what it has read
  timer,      \* the running timer, by its start; 0 when none runs
  started,    \* timers started
  stop,       \* device -> its StopTimer under way
  logged,     \* start -> sessions logged for it
  slips       \* history: whose minutes may count twice, Steam's or the timer's

steamVars == <<total, link, syncOn, base, row, preview, writing, sync>>
timerVars == <<timer, started, stop, logged>>
playtimeVars == <<steamVars, timerVars, slips>>

Unknown == -1
NoProfile == "none"
Asleep == [pc |-> "idle"]
AtRest == [pc |-> "idle", n |-> 0]
Bigger(a, b) == IF a > b THEN a ELSE b
Slip(what, happened) == slips' = IF happened THEN slips \cup {what} ELSE slips
----------------------------------------------------------------------------
(* Steam.                                                                  *)

Play(p) ==
  /\ total[p] < MaxMinutes
  /\ total' = [total EXCEPT ![p] = @ + 1]
  /\ UNCHANGED <<link, syncOn, base, row, preview, writing, sync, timerVars, slips>>

\* Reads the profile's games and remembers the profile; a baseline of another
\* profile stays.
SteamPreview(p) ==
  /\ link' = p
  /\ preview' = total[p]
  /\ Slip("steam", link # p /\ (base # Unknown \/ preview # Unknown \/ writing # Unknown \/ sync # Asleep))
  /\ UNCHANGED <<total, syncOn, base, row, writing, sync, timerVars>>

SetSteamSync ==
  /\ link # NoProfile
  /\ syncOn' = ~syncOn
  /\ UNCHANGED <<total, link, base, row, preview, writing, sync, timerVars, slips>>

\* Two statements: the link goes with its sync setting, then the baseline.
UnlinkSteam ==
  /\ link # NoProfile
  /\ link' = NoProfile /\ syncOn' = FALSE
  /\ UNCHANGED <<total, base, row, preview, writing, sync, timerVars, slips>>

ForgetBaseline ==
  /\ link = NoProfile
  /\ base' = Unknown
  /\ UNCHANGED <<total, link, syncOn, row, preview, writing, sync, timerVars, slips>>

\* Library.Import: a new item gets the minutes, another only more of them.
Import ==
  /\ preview # Unknown /\ writing = Unknown
  /\ row' = Bigger(row, preview)
  /\ writing' = preview /\ preview' = Unknown
  /\ Slip("steam", sync # Asleep)
  /\ UNCHANGED <<total, link, syncOn, base, sync, timerVars>>

\* Slip: the baseline follows the review, even backwards.
BaselineLowered ==
  /\ writing # Unknown
  /\ base' = writing
  /\ writing' = Unknown
  /\ UNCHANGED <<total, link, syncOn, row, preview, sync, timerVars, slips>>

BaselineSteam ==
  /\ writing # Unknown
  /\ base' = Bigger(base, writing)
  /\ writing' = Unknown
  /\ UNCHANGED <<total, link, syncOn, row, preview, sync, timerVars, slips>>

\* A crash, or a browser that left, between the commits.
ImportCut ==
  /\ writing # Unknown
  /\ writing' = Unknown
  /\ Slip("steam", TRUE)
  /\ UNCHANGED <<total, link, syncOn, base, row, preview, sync, timerVars>>

\* Writes of the person's own: the game is added, or removed with its minutes.
AddGame ==
  /\ row = Unknown /\ row' = 0
  /\ UNCHANGED <<total, link, syncOn, base, preview, writing, sync, timerVars, slips>>
RemoveGame ==
  /\ row # Unknown /\ row' = Unknown
  /\ UNCHANGED <<total, link, syncOn, base, preview, writing, sync, timerVars, slips>>

\* SyncSteam lists the links that sync; one run at a time.
SyncSteam ==
  /\ sync = Asleep /\ syncOn
  /\ sync' = [pc |-> "owned", of |-> link]
  /\ Slip("steam", writing # Unknown)
  /\ UNCHANGED <<total, link, syncOn, base, row, preview, writing, timerVars>>

OwnedGames ==
  /\ sync.pc = "owned"
  /\ sync' = [pc |-> "read", now |-> total[sync.of]]
  /\ UNCHANGED <<total, link, syncOn, base, row, preview, writing, timerVars, slips>>

\* The baseline and the game's library row decide what follows; an app seen
\* for the first time only gets a baseline.
SyncRead ==
  /\ sync.pc = "read"
  /\ sync' = IF base = sync.now THEN Asleep
             ELSE IF base # Unknown /\ sync.now > base /\ row # Unknown
             THEN [pc |-> "log", now |-> sync.now, before |-> base]
             ELSE [pc |-> "store", now |-> sync.now, logged |-> FALSE]
  /\ UNCHANGED <<total, link, syncOn, base, row, preview, writing, timerVars, slips>>

\* LogSynced: refused when the game has left the library.
SyncLog ==
  /\ sync.pc = "log" /\ row + sync.now - sync.before <= MaxRow
  /\ IF row # Unknown
     THEN /\ row' = row + (sync.now - sync.before)
          /\ sync' = [pc |-> "store", now |-> sync.now, logged |-> TRUE]
     ELSE sync' = Asleep /\ UNCHANGED row
  /\ UNCHANGED <<total, link, syncOn, base, preview, writing, timerVars, slips>>

SyncStore ==
  /\ sync.pc = "store"
  /\ base' = sync.now
  /\ sync' = Asleep
  /\ UNCHANGED <<total, link, syncOn, row, preview, writing, timerVars, slips>>

\* The server stops, Steam or the database fails.
SyncCut ==
  /\ sync # Asleep
  /\ Slip("steam", sync.pc = "store" /\ sync.logged)
  /\ sync' = Asleep
  /\ UNCHANGED <<total, link, syncOn, base, row, preview, writing, timerVars>>
----------------------------------------------------------------------------
(* The timer.                                                              *)

\* Starting replaces a timer that runs.
StartTimer ==
  /\ started < MaxStarts
  /\ started' = started + 1 /\ timer' = started + 1
  /\ UNCHANGED <<steamVars, stop, logged, slips>>

\* StopTimer reads the timer,
GetTimer(d) ==
  /\ stop[d] = AtRest /\ timer # 0
  /\ stop' = [stop EXCEPT ![d] = [pc |-> "clear", n |-> timer]]
  /\ Slip("timer", \E e \in Tabs : stop[e].pc = "clear" /\ stop[e].n = timer)
  /\ UNCHANGED <<steamVars, timer, started, logged>>

\* clears whatever runs by now,
ClearTimer(d, log) ==
  /\ stop[d].pc = "clear"
  /\ timer' = 0
  /\ stop' = [stop EXCEPT ![d] = IF log THEN [pc |-> "log", n |-> stop[d].n] ELSE AtRest]
  /\ UNCHANGED <<steamVars, started, logged, slips>>

\* and logs the session in a transaction, which fails when the game has left
\* the library or the server stops.
LogTimer(d, ok) ==
  /\ stop[d].pc = "log"
  /\ logged' = IF ok THEN [logged EXCEPT ![stop[d].n] = @ + 1] ELSE logged
  /\ stop' = [stop EXCEPT ![d] = AtRest]
  /\ UNCHANGED <<steamVars, timer, started, slips>>
----------------------------------------------------------------------------
PlaytimeInit ==
  /\ total \in [Profiles -> {0, 1}]
  /\ link = NoProfile /\ syncOn = FALSE
  /\ base = Unknown /\ row = Unknown /\ preview = Unknown /\ writing = Unknown
  /\ sync = Asleep
  /\ timer = 0 /\ started = 0
  /\ stop = [d \in Tabs |-> AtRest]
  /\ logged = [n \in 1..MaxStarts |-> 0]
  /\ slips = {}

SteamNext ==
  \/ \E p \in Profiles : Play(p) \/ SteamPreview(p)
  \/ SetSteamSync \/ UnlinkSteam \/ ForgetBaseline
  \/ Import \/ BaselineSteam \/ ImportCut \/ AddGame \/ RemoveGame
  \/ SyncSteam \/ OwnedGames \/ SyncRead \/ SyncLog \/ SyncStore \/ SyncCut

TimerNext ==
  \/ StartTimer
  \/ \E d \in Tabs : GetTimer(d) \/ \E b \in BOOLEAN : ClearTimer(d, b) \/ LogTimer(d, b)
----------------------------------------------------------------------------
(* Properties.                                                             *)

PlaytimeTypeOK ==
  /\ total \in [Profiles -> 0..MaxMinutes] /\ link \in Profiles \cup {NoProfile} /\ syncOn \in BOOLEAN
  /\ base \in -1..MaxMinutes /\ preview \in -1..MaxMinutes /\ writing \in -1..MaxMinutes
  /\ row \in -1..MaxRow
  /\ timer \in 0..started /\ started \in 0..MaxStarts
  /\ stop \in [Tabs -> [pc : {"idle", "clear", "log"}, n : 0..MaxStarts]]
  /\ logged \in [1..MaxStarts -> Nat]

\* The minutes Steam reported, of every profile.
Reported == {r \in Profiles \X (1..MaxMinutes) : r[2] <= total[r[1]]}

\* Minutes count once.  However imports, syncs, previews and unlinking follow
\* each other, the library holds no more minutes than Steam reported; the ways
\* around it are a stop between the minutes and the baseline, an import
\* committed during a sync, and a profile previewed over another's baseline.
\* And a timer becomes one session, however often it is started and stopped,
\* unless two devices had read it before either cleared it.
MinutesCountOnce ==
  /\ "steam" \notin slips =>
       row <= Cardinality(Reported)
  /\ "timer" \notin slips => \A n \in 1..MaxStarts : logged[n] <= 1
----------------------------------------------------------------------------
(* What the steps preserve.                                                *)

\* Minutes m of profile p are counted already: logging what is above them
\* counts none twice.
Owed(p, m) == row + total[p] - m <= Cardinality(Reported)

\* Everything that counts minutes counts those of one profile.
OfProfile(p) ==
  /\ p \in Profiles
  /\ link \in {NoProfile, p}
  /\ base <= total[p] /\ preview <= total[p] /\ writing <= total[p]
  /\ sync.pc = "owned" => sync.of = p
  /\ sync.pc \in {"read", "log", "store"} => sync.now <= total[p]
  \* What the baseline, a review or a commit under way stands for.
  /\ (link # NoProfile \/ sync # Asleep) /\ base # Unknown /\ writing = Unknown /\ ~(sync.pc = "store" /\ sync.logged)
       => Owed(p, base)
  /\ link # NoProfile /\ base = Unknown /\ writing = Unknown /\ preview # Unknown => Owed(p, preview)
  /\ link # NoProfile /\ writing # Unknown => Owed(p, Bigger(base, writing))
  /\ sync.pc = "read" => Owed(p, sync.now) /\ base <= sync.now
  /\ sync.pc = "log" => Owed(p, sync.before)
  /\ sync.pc = "store" => Owed(p, sync.now)
  /\ link # NoProfile /\ sync.pc = "log" => base = sync.before
  /\ link # NoProfile /\ sync.pc = "store" /\ sync.logged => base # Unknown

\* Where the sync is, and what it has read by then.
SyncShape ==
  \/ sync = Asleep
  \/ sync.pc = "owned" /\ sync.of \in Profiles
  \/ sync.pc = "read" /\ sync.now \in 0..MaxMinutes
  \/ sync.pc = "log" /\ sync.now \in 0..MaxMinutes /\ sync.before \in 0..sync.now
  \/ sync.pc = "store" /\ sync.now \in 0..MaxMinutes /\ sync.logged \in BOOLEAN

SteamInv ==
  /\ SyncShape
  /\ syncOn => link # NoProfile
  /\ "steam" \notin slips =>
       /\ row <= Cardinality(Reported)
       /\ sync # Asleep => writing = Unknown
       /\ \E p \in Profiles : OfProfile(p)

\* One timer is cleared by at most one device and logged when nobody else can.
TimerInv ==
  /\ "timer" \notin slips =>
       /\ \A d \in Tabs : stop[d].pc # "idle" => stop[d].n \in 1..started /\ logged[stop[d].n] = 0
       /\ \A d, e \in Tabs : stop[d].pc # "idle" /\ stop[e].pc # "idle" /\ stop[d].n = stop[e].n => d = e
       /\ \A d \in Tabs : stop[d].pc = "log" => timer # stop[d].n
       /\ timer # 0 => logged[timer] = 0
       /\ \A n \in 1..MaxStarts : logged[n] <= 1 /\ (n > started => logged[n] = 0)

PlaytimeInv == PlaytimeTypeOK /\ SteamInv /\ TimerInv
=============================================================================
