# Cato, specified

Cato is a self-hosted game library: a Go server on SQLite and a web app that
keeps a copy of the library on each device. This directory models the parts of
it where state, ordering and failure meet, checks them with TLC and proves what
it can with TLAPS. Paths below are relative to the repository's root.

## 1. The system

| Component | State | Operations | Talks to |
|---|---|---|---|
| Library and journal (`internal/library`) | `library_items`, `playthroughs`, `play_sessions`, timer in `user_state` | item writes, diary entries, runs, timer, bulk actions, deletion, pages | triggers; activity; cover jobs |
| Undo and import batches (`undo.go`, `importbatch.go`, `export.go`) | `undo_log`, `import_batches` | snapshot, undo, import, undo of an import, export | library tables |
| Schema (`internal/db/migrate.go`) | triggers, CHECKs, foreign keys | totals of an item and a run, row stamps, tombstones, cascades | all of the above |
| Library index (`index.go`, `http/v1/api.go`) | `library_rev`, `rev` of a row, `library_tombstones`, ETag | delta index, 304 | every device |
| Device store (`web/static/js/core/store.js`, `idb.js`, `api.js`) | copy, outbox, revision, tag, IndexedDB | send, cancel, flush, sync, retry, init | HTTP API, app shell |
| App shell (`web/static/js/app.js`) | online flag | decides when the store flushes and syncs | store |
| Cover worker (`internal/covers`) | `cover_jobs`, files, semaphore | claim, download, retry, shutdown | catalog, library |
| Catalog (`internal/catalog`) | `games`, query cache, refresh slots, sync marks | search, refresh, repair, delta sync, details, rankings, backfills, custom games | IGDB client, covers |
| IGDB client (`integrations/igdb`, `catalog/types.go`) | access token, two lanes of waiters | a call with its retries, a turn of the limiter | IGDB |
| Imports (`internal/imports`) | `steam_links`, `steam_playtime`, `game_external_ids` | match, preview, commit, daily sync, unlink | IGDB client, library |
| Discover (`internal/discover`) | cached catalog shelves | read, refresh by request or job | catalog, library |
| Jobs, alerts, push (`internal/jobs`, `alerts`, `notify`, `push`) | `jobs`, alert marks, push and mail marks, subscriptions | schedule, run now, alert, deliver, digest | mail, push services |
| Accounts (`internal/auth`, `http/handler_auth.go`, `social/invites.go`, `social/admin.go`) | users, sessions, invites, reset tokens | sign up, sign in, password, reset, invite, administer, delete | everything |
| Passkeys (`internal/webauthn`, `http/passkeys.go`) | challenges, credentials | register, sign in, delete | accounts |
| Social (`internal/social`, `http/v1/social.go`) | follows, blocks, reviews, lists, likes, reports | follow, accept, block, hide, every read of somebody else's things | feed, notifications |
| Process (`cmd/cato`, `internal/http/server.go`, `db/backup.go`) | schema version, snapshots, owners | snapshot, migrate, start, drain, stop | all |

What is hard, and why tests hardly reach it:

* **Sequences.** A diary entry, a correction, a status move, an undo and an
  import all rewrite the same aggregates through clamping triggers. Any of
  them may be legal and the sequence wrong. So with follows, blocks, levels and
  hiding, which one rule, written in several languages, must judge alike.
* **Two clocks on one revision.** The server stamps rows in one order, a device
  confirms its own writes in another, and a tag is taken before the index it
  names is read.
* **Awaits.** Between two awaits of the device store the page may be closed, a
  request may be answered late, and another call may have changed what was read.
* **Statements without a transaction.** A password is checked and the session
  inserted, a token read and dropped, a mark set and a push sent, minutes logged
  and the baseline moved, each in two statements with others in between.
* **Pages.** A list is read page by page while it changes, at home (feed,
  library, search) and at IGDB (delta sync, backfills).
* **Restarts.** Reserved jobs, half-sent outboxes, half-logged minutes, half-made
  migrations, runs that were cut.

What makes each part correct: the journal is *owned* (nothing dangles) and its
totals are explained by the diary; undo restores what there was, but for what its
snapshot leaves out; a delta from a device's own revision brings it up to date in all
that is stamped; every queued write is sent,
in order, and is never silently dropped; every cover job is settled and no slot
or reservation leaks; a session belongs to an enabled account and was opened with
the password it has; a block is the end of every tie; background work is
neither lost nor doubled by a restart, but where the code accepts it; nothing
IGDB changed is passed over.

## 2. The modules

| Module | Models |
|---|---|
| `JournalDB` | One person's tables, and every SQL statement as an operator on them with its triggers, cascades and CHECKs |
| `Journal` | Every write operation of the store. An operation on one game is one action, as it is one IMMEDIATE transaction; bulk writes, undo and imports take a step per game on a working copy (`tx`), which a commit publishes and a rollback drops |
| `JournalProofs` | The proofs about the two |
| `Custom` | Custom games and their merge into the catalog's, with `JournalDB`'s statements |
| `LibraryIndex` | The revision triggers as operators on `[content, stamp, tomb, rev]`, the index read from them, and how a device applies it. Shared by the next and by `DeviceStore` |
| `LibraryRev` | Readers beside the single writer: statements in an open transaction, commit, rollback; tag, then index, then answer, or none |
| `SharedLibrary` | What that promises: one library, replaced as a whole, and devices that now and then take all of it. `LibraryRev` implements it |
| `LibraryIndexProofs`, `LibraryRevProofs` | The lemmas about those operators, and the proofs about `LibraryRev` |
| `DeviceStore` | A device: outbox, flush loop, retries, cancel, syncs, IndexedDB with its ordered transactions, reloads; a server that answers late or not at all |
| `DeviceStoreProofs` | The proofs about it |
| `Covers` | The cover queue, its coordinator and downloads, beside the statements that queue, re-queue and drop jobs; shutdown, crash, restart |
| `CoversProofs` | The proofs about it |
| `Requests` | Requests served at once, each stopped between two statements; extended by the next two |
| `Accounts` | Sign-up, sign-in, sessions, devices, passwords, resets, invites, administration, deletion, each request with its own statements |
| `People` | Levels, follows, requests, blocks, reviews, lists, likes, reports, hiding, and what each read shows to whom |
| `PeopleProofs` | The proofs about it |
| `Feed`, `Paging` | The feed's grouped pages and the library's keyset pages, read while others write |
| `Lists` | The order of a list edited from two devices, and its lines in the feed |
| `Passkeys` | Challenges, the credential and its counter, sign-ins that overlap, a cloned authenticator |
| `AccountsProofs` | The proofs about `Accounts` and `Passkeys` |
| `Playtime` | The play timer and Steam's minutes: import, baseline, daily sync, unlinking, crashes |
| `Jobs`, `Alerts` | The job runner's persisted schedule; alerts, pushes and the weekly mail with their marks |
| `Process` | Snapshots, migrations, owners and their shutdown, restart, downgrade, restore |
| `Catalog` | The query cache, background refreshes with slots and keys, the stale sweep, shutdown |
| `Limiter`, `Igdb` | The two lanes of waiters on one timer; the shared token, 401 and 429 |
| `Delta`, `Enrich`, `Backfill` | The jobs that keep the catalog: pages that move under the delta sync, details and times, popularity rankings, the backfill engine |
| `Search`, `Matching` | Which games a search lists, on which page; which game an imported row is, and the links that remember it |
| `Discover` | The cached shelves, their age, the lock and the hourly job |
| `MCJournal`, `MCDeviceStore`, `MCCovers` | Changes, edits, writes and constants for TLC |
| `MCServer` | `LibraryRev` and the parts that answer people (`Accounts` to `Passkeys`, `Custom` and `Search`) for TLC |
| `BackgroundParts` | The parts that go on behind the requests: `Catalog`, `Limiter`, `Igdb`, `Delta`, `Enrich`, `Backfill`, `Matching`, `Discover`, `Jobs`, `Alerts`, `Playtime` (Steam, timer), `Process` |
| `BackgroundProofs` | The proofs about all of them |

`MCServer` and `BackgroundParts` check several modules in one run. Their parts share no
state in the models: what one needs of another (a disabled account, an item's
minutes) is in its own variables. So a behaviour is of one `part`, chosen in the
initial state, which keeps the runs few and the state space a sum and not a product.
`MCServer` extends the modules that theorems are about (`LibraryRev`, `Accounts`,
`People`, `Passkeys`) with variables of their own, so that a run checks the very
property a theorem states; the other parts are instances whose variables are
`v1`, `v2` and so on, and their properties are conditioned on the part.
`BackgroundParts` is all instances, with its constants free (the `.cfg` gives them
values, its named `ASSUME`s say what they may be): `BackgroundSpec`, which the run
checks, is the specification the theorems of `BackgroundProofs` are about. `PartsInv`
names the part's own inductive invariant (`CatalogInv`, `LimiterInv` and so on, at the
end of each module). The prover and TLC read the same definitions.

### How state and actions correspond to the code

*Journal.* `db.items`, `db.runs` and `db.sessions` are the three tables, keyed by
game and by AUTOINCREMENT id (`runSeq`, `sessSeq` are the id counters). `cur` is
`current_playthrough_id`, `total` is `playtime_minutes`. `db.touched` is the set of
games some trigger stamped in the transaction that published them (`Fresh` starts it
empty): the counter itself is `LibraryRev`'s. `ApplyChange`
is `applyChange`, composed of the operators named after its parts (`NewStatus`,
`UpsertRow`, `UpdatePlaythroughs`, `MinutesToLog`). A write's `day` and `now` are
different inputs: the first is the person's `played_on`, the second the server's
clock. Ratings, notes, tags, platforms, mediums and the date of a diary entry are
left out: no property tells them apart.

*LibraryRev.* `disk` is what is committed, `work` what the open transaction sees.
An entry's content is the row with the game metadata whose change stamps it (name,
cover, release date, time to beat). The game's platforms are in the entry too, but
`games_library_rev_au` (`migrate.go:371`) does not watch `platforms_json`: `platforms`
keeps them beside the content, `shown` is what a device lists, and `UpsertIGDBGame`
rewrites them, with a stamp only if something watched changes as well. `loosened`
is a history variable: a present game is `Loose` when its platforms changed alone since its
row was stamped, and it is the exception of both library properties. `asked` is the tag
`notModified` computed before `Index` runs in a transaction of its own. In the
refinement the shared library is `disk.content`, entries without their platforms, and what a
device shows is its copy; an open transaction, a question under way, a 304 and a
refresh of platforms alone are stutters.

*DeviceStore.* An action runs from one `await` to the next. `flush.at` names the
await the flush loop is at; `kvq` holds IndexedDB transactions begun and not ended
(the ones of one store end in order); `wire` holds requests the server has not
handled, which a failed call does not recall. `spent.loaded` marks the writes of
earlier page loads, whose Undo toasts are gone. A write is a `put` or `patch`
with a content or a `remove` without (`WriteType`). An IndexedDB transaction may be cut off by a page load and may be
late, but it does not fail: `send` goes on after a failed `put` as after one that
succeeded, and such a write would be on no disk.

*Covers.* `jobs[g].next` is `next_attempt_at` as `due`, `backoff` or `reserved`;
`Expire` is the passing of time. A reservation does not expire under a running
download: it lasts 30 minutes and a download makes at most two requests of
30 seconds. `history` is a history variable of the properties. A job's SELECT and
its reservation are two actions, and so are a refresh's UPDATE of the game and
its `EnqueueCoverJob`.

*Accounts, People.* A request is a record in `req` or `ask` whose `pc` names what it
has done; `Begin` reads what the handler reads first, `Then` goes on, `End` answers.
A handler that is one transaction is one action. The authentication of a request is
read when it begins, as the middleware does, and may be stale afterwards. A password
is the number of its hash, so that `CreateSession`'s comparison with the verified hash
is a comparison of numbers.

*Playtime, Alerts, Enrich, Process.* A job is a `pc` with what it has read. A crash
or a shutdown puts it back to rest between any two statements and leaves what was
committed. Times are seconds or ticks of a bounded clock.

*Limiter.* `woken` are the callers whose channel was closed; `alike` says whether
pointers to two zero-size waiters compare equal, which Go leaves open: the properties
hold either way.

*IGDB* is external everywhere: it answers, fails, takes long, revokes a token, changes
or deletes a game at any time. The map marks those definitions, the authenticator's and
the operator's as external.

## 3. The runs

| Run | Bounds | What it shows |
|---|---|---|
| `JournalHistory` | 1 game, 2 days, 3 undoable writes | `NeverUnderstates`: clamped totals never show less than the diary. `OpenRunIsCurrent`: an open run is the current one unless a person reopened an old one by hand. `UndoRestores`: undoing a write at once restores library, journal and feed exactly, total and run minutes included, but for two things the code does not give back: a run's `edition_game_id`, which `ptSnapshot` lacks, and a total that was clamped or corrected below its diary, which comes back as its sessions say |
| `JournalLoops` | 2 games (one custom), 2 writes, 1 import | `TypeOK` (with it: nothing in the journal dangles), `UndoAlwaysApplies` (a snapshot can be re-inserted whatever was written since), `ImportTwiceIsOnce` (importing a file again changes nothing, and no import overwrites a status, a date or a diary entry that was there, nor lowers a total), `UndoImportRestores` (with the same two exceptions as `UndoRestores`), `ChangesAreStamped` |
| `DeviceCopy` | 1 game, 2 writes, 1 by another device, 2 failures | `CopyHeals` and `DiskHeals` (one delta repairs memory and disk), `InOrder` (and no write twice unless something failed), and under fairness `QueuedIsSent` |
| `DeviceReload` | 1 game, 2 writes, 1 reload, 1 sync of the app's own, 1 cancel | `DiskFollowsOutbox` (nothing is sent before it is on disk, nothing dropped comes back), `CancelDrops`, `NothingLost` |
| `Covers` | 1 game, a live and a dead address, 2 downloads, 2 writes, 1 refresh or repair, 1 restart | `PathHasFile`, `ReservationHasOwner` (and no more downloads than were queued), and under fairness `JobSettles` |
| `Server` | see below | `DeltaExact`, `NotModifiedIsTrue`, `RevInv` (the invariant the proofs rest on) and `ImplementsShared` for the library; each other part's own properties |
| `Background` | see below | each background part's own properties |

The parts of `Server`:

| Part | Bounds | Property |
|---|---|---|
| library | 2 games, 2 contents, 2 platforms, 1 device, 3 revisions | the four above. A delta, and a 304, leave a device with exactly what is committed in all the triggers watch, and with the platforms of every game that is not loose |
| accounts | 3 addresses, 2 requests at once, 3 requests, 4 tokens; an empty server in closed mode, or one with an admin, a second account (admin or not) and an invite used | `SessionsAreGranted`: every session row is of an enabled account and its present password, whatever was changed between check and insertion. `SignupsHold`: one founder, an invite used once. `AdminsStay`: no step leaves a server that had admins without one, but an admin's deletion of their own account |
| people | 2 people, 2 requests at once, 3 requests, 1 review or list | `ReadsAgree`: each read shows exactly what the one rule allows. `BlockHolds`: no edge or request ties two people while a block stands, but one whose follow raced the block |
| feed, paging, lists | 5 rows, 1 hidden and shown again, pages of 1 or 2; 3 games, pages of 1, 3 writes; 3 games, 2 devices, 4 edits | `NothingIsMissing`: paging shows what stood still exactly once, what changed at most once per change; a list keeps the order it was given |
| search, custom | 3 games, pages of 1, 3 pages; 3 games, 3 diary entries | `NothingIsMissing`: the pages of a search add up to its total and show a game that ties with no other once (`sortOrder` has no last key: tied games may repeat or be skipped); a merge into a catalog game keeps the runs and the diary |
| passkeys | 2 challenges, 2 sign-ins, counter to 1 | `PasskeysHold`: a challenge opens one session; a clone is noticed unless sign-ins overlap, or the statement that stores the counter failed (its error is ignored) |

The parts of `Background`:

| Part | Bounds | Property |
|---|---|---|
| catalog, limiter, igdb | 2 queries, 2 searches, 2 workers, 1 slot; 4 callers; 3 calls, 4 tokens, 1 retry | `IgdbIsShared`: slots and keys are given back, failures backed off, no wake-up lost, no token thrown away that was good |
| delta, enrich, backfill | 3 games, pages of 1, 3 seconds, 3 changes; 2 games, 1 view; 3 games, batches of 2, 2 runs | `CatalogIsComplete`: a change the sync passed is stored; a marked row is settled; a run takes a row again only after that row failed in it, or its stamp could not be stored; a batch by id follows the one before |
| matching | 2 games, 1 app, 2 matches | `GamesAreFound`: a match by name is clear; an app goes on meaning the game it was matched with |
| discover | 1 game, 2 requests and the job, 4 ticks | `ShelvesHold`: not older than they may be, and an empty catalog's are not kept |
| steam, timer | 2 profiles, 2 minutes; 2 tabs, 3 timers | `MinutesCountOnce`, with the exceptions below |
| alerts, jobs | 1 alert, 2 notifications, 1 browser, 1 row a delivery, 2 a mail, 2 failures, 1 stop or failed mark; 6 ticks, 3 starts | `JobsHold`: an alert is told once or a stop took it; a push a run set out to send was sent, refused or cut; a push or mail is repeated only after a mark that failed, or a mail after a stop; no run forgotten |
| process | 3 schemas, the last fails, 2 snapshots kept, 4 starts | `DataSurvives`: the snapshot before an upgrade, the database under a request |

`TypesOK` of both runs is the type invariant of whichever part it is.

Why the bounds are enough to be interesting. Three writes let a run be opened,
closed and continued, and a total be corrected between two diary entries. Two
games are what a loop needs to be half way; a custom one is what a bulk write
skips for activity. Three revisions fit an insertion, a removal and a
re-insertion, or an update, in separate transactions around a device's two
requests, with any number of refreshes of platforms between them; devices do not meet,
so one stands for all, and games' contents and platforms are symmetric. Two queued writes are what
order and a second flush need; a second failure lets a late first request arrive
behind its own retry. Two downloads at once are what a re-queued cover needs.
Two requests at once are what a race needs; a third in sequence sets it up or uses
what it left. Two callers in each lane are a head and one behind it. Three pages of
one row show a row that moved over a page's edge in either direction. Three starts
are one that fails, one that retries and one that rotates a snapshot out.
`MaxAttempts` is 2 where the code says 5 and `Max429Retries` 1 where it says 3,
which only shortens the way to the limit. Every bound is a constant named
`Max...`, in a `.cfg` or in an instance of `MCServer`, and only
ever a guard of what people, failures or restarts may do. `MaxSession` is 2 for 1440.

Deadlock is not checked: every model may stop when its bounds are used up.

Fairness. `DeviceStore`: `WF(Wheels)`, the steps that need nobody (requests are
answered, IndexedDB transactions end, a set retry timer fires); a failed request
takes from `MaxLost`, so failures end. `Covers`: weak fairness of the
coordinator, of each download and of time; nobody has to write, refresh or
restart. No other run uses fairness: the parts of `Server` and `Background` are
checked for safety, and "is not forgotten" is stated there as an invariant (a
request no run has answered is in the channel, a taken key has the worker that
gives it back).

### Where the code and what is said of it differ

| Run | Disagreement |
|---|---|
| `JournalExport` | `internal/library/export.go:20` says totals re-import exactly. An item whose total was corrected downwards does not, and may abort the import |
| `DeviceStale` | `web/static/js/core/store.js:255` says nothing is skipped because only a sync moves the revision. An app's sync between a write and the processing of its answer lets the older entry stay |
| `DeviceBoot` | `docs/agents/frontend.md:55` says the outbox is replayed when back online. After a first sync that fails, it waits for a browser event |
| `CoverAttempts` | `internal/covers/covers.go:337` says retries are based on the actual attempt number. A download that outlives a re-queue writes its own count over the reset one |
| `SyncLogsImported` | `internal/imports/service.go:166` says the daily sync logs what is played from the import on. A refresh of details (`catalog/details.go:157`) takes the link the import made, and the sync then moves the baseline without logging |

`CopyHeals` holds in `DeviceCopy` because there the only sync is the flush's own:
`DeviceStale` is the same claim with the app's syncs, at rest.
`CancelDrops` promises nothing once a request failed (`spent.lost`): a write the
server has carried out may then be back in the queue and can be cancelled.

Other things met while modelling. None has a run of its own; where a property
names one as its exception, the exception is reachable.

* `docs/api-v1.md:75` says an item's minutes equal the sum of its sessions. The
  triggers clamp at zero, so they never show less (`NeverUnderstates`) but may show more.
* A follow that races a block leaves an edge that survives the unblocking
  (`raced` in `People`); a removal from a list that races an addition, or is cut
  between its two statements, leaves a line in the feed, or takes one (`raced` in `Lists`).
* Two tabs that both read the timer before either clears it log it twice. A crash
  between minutes and baseline logs Steam's minutes twice, as does an import
  committed during a sync, or a profile previewed over another's baseline (`slips`).
* `UnlinkSteam` during a running sync is followed by that sync's baseline.
* Open invites, lists and reports are counted or looked up in one statement and
  inserted in another: a soft limit. `deleteMe` does not ask whether the admin is the
  last. Deleting an account frees the invite it came by (`used_by` is set to NULL).
* `Deliver` and the digest push what a since-blocked person did; the inbox hides it.
* A run that `RunNow` woke and a shutdown cut is not due again after the restart.
* A refresh of the query cache that ran into its own deadline is not backed off,
  because the statement that would do it is under the same deadline.
* The delta sync may miss changes made in the second it stopped at, or that move a
  page's edge while it reads (`DeltaComplete` names both). A failed request for times
  to beat leaves them missing until details are refreshed again.
* `serve` says it does not close the database while an owner may still use it, and
  returns an error; the deferred `Close` runs all the same (`late` in `Process`).
  Starts that fail rotate the snapshot before the upgrade out once there are more of
  them than snapshots kept; the backfill and import commands migrate without one.
* A merge of a custom game into one the person has too can leave two open runs, and
  does not move reviews, list entries or activity.
* A refresh that changes only a game's platforms leaves every device with the old ones
  until something else stamps the row: the index lists `platforms_json`
  (`index.go:54`), the trigger does not watch it (`Loose` in `LibraryRev`).
* `undo.go:19-20` says a snapshot has everything a write can change for one game. It has not the
  edition of a playthrough, and `undo.go:204-206` says re-inserted sessions restore the
  total, which they do not where it had been clamped or corrected downwards
  (`GivenBack` in `Journal`).
* `cato backfill-popularity` takes a row that fails again in its next batch, for as long as
  it fails (`backfill.go:150-176`), though `backfill.go:12-13` says the queue always advances. The weekly
  details run does so for a game whose stamp cannot be stored (`enrich.go:45` ignores the error).
* A failing mark (`notify.go:246`, `379` ignore it) repeats a push or mail; a push service that
  refuses, a stop between mark and push, or a setting that is off while the row
  is marked loses the push (`owed` and `unsent` in `Alerts`).
* A search orders by keys that may tie (`store.go:495`), each page in a statement of
  its own: tied games may repeat or be skipped.
* `profile.go:133` says a block either way hides a profile entirely; the one who blocked
  still gets the card (`profile.go:145`, `154`). `ReadsAgree` compares what is behind it.
* Discover's hourly job computes before it takes the lock, so it may put older
  shelves over newer ones; they are still not too old.
* A passkey that reports a counter of 0 sets the stored one back. A counter that could not be
  stored (`passkeys.go:98`) leaves the old one, as if the sign-in overlapped the next.

## 4. The proofs

A theorem is for every value of the constants: any number of games, people, requests,
slots and devices, and any bound. The assumptions are the named `ASSUME`s of the
modules: that bounds are naturals, that a mark for nothing (`Absent`, `NoUrl`, `"none"`) is not
a value, that there are finitely many download slots, waiters, profiles and games (a last
one), that a refresh finds a goroutine (as many `Workers` as `Queries`), that a page and a
lifetime are not 0, that the minutes a row may hold are no fewer than Steam can
report, and that writes are of the shapes the API takes. Each proof module has typing first, then the invariants. A lemma about
what a helper does to the state comes before the steps that use it; a
step lemma (`...Step`, `...Keeps...`) has one step per action.

`LibraryIndexProofs` and `LibraryRevProofs`:

* `TypeCorrect`, and `RevInvariant`: `Spec => []RevInv`. Neither of the next two facts is
  inductive. That a delta is exact for what is committed says nothing about what the open
  transaction is about to publish, so `RevInv` says for both sets of tables that a
  row a device has not seen is stamped, or entombed, after the device's revision
  (`Covered`, in `ContentInv`); that the open transaction covers what is committed; that stamps
  never pass the counter; that a tag whose query is the device's revision names
  that revision; and that the tag of a request in flight is no newer than what is
  committed when it is answered. `PlatformInv` adds what a device lists: a game that is
  not loose is stamped after the device's revision, or listed with its platforms.
* `DeltaIsExact`, from `RevInv` by `DeltaBringsUpToDate`, the case analysis of `Index`
  and `Apply` (a full answer, a row in the delta, a tombstone in it, neither).
* `NotModifiedIsTruthful`. A tag that would match names the current revision, and the
  copy at the current revision is what is committed.
* `Refinement`: `Spec => Shared!Spec` for `SharedLibrary` with `truth <- disk.content`
  and `seen <- copy`. A commit is a publication, an answer a refresh of one device;
  every other action, a 304 among them, changes neither.

`DeviceStoreProofs`, over any failures, page loads, syncs and undos:

* `DeviceTyped`; `OutboxIsOnDisk`: `Spec => []DiskFollowsOutbox`. Its strengthening
  `OutboxInv`: keys count up along the outbox and the transactions (`Numbered`);
  the disk has every write marked as persisted, what else it has is queued or has its removal
  under way, and a removal under way is of no queued write (`Mirrored`); the
  write being sent is the head of the outbox, on disk, and the one the flush means (`Posted`).
* `WritesAreKept`: `Spec => NothingLost`, an action property. It needs `AnswerInv` too:
  a request carries the flush's write only if it is of the flush's try, so that the late
  answer of an earlier try settles nothing, and what was answered was carried out or refused.
* `UndoneIsDropped`: `Spec => []CancelDrops`. `CancelInv` says that a removal
  under way is the last thing done to its key, that what was taken back is neither queued,
  on disk, nor on its way there, and that as long as nothing failed only what is being
  sent was ever sent.

`CoversProofs`: `TypeCorrect`; `PathsHaveFiles`, with the file a download about to
complete has stored; `ReservationsHaveOwners`, with `OwnerInv` (who gives a
reservation back in each phase of the worker's life), `SlotInv` (a claim has a free slot)
and `QueuedInv` (a job that may be claimed has room for one more download of it).

`AccountsProofs`:

* `AccountsTyped` needs that a reset link's account exists (`Linked`).
* `SessionsGranted`: `SessionInv` says ids are unique and not reused and a session's
  account is enabled with the password the session was opened with. It is inductive
  without a word about requests under way, because `MayHaveSession` compares the verified
  password again in the statement that inserts the session: that comparison is what the proof rests on.
* `SignupsAreSound`: `ModeInv` (a sign-up that read an open mode ran on a server that was
  open once), `Founders` (two accounts without an invite only there), `InviteInv`
  (an invite names the account that used it, as long as there is one).
* `LastAdminIsKept`: `AccountsSpec => AdminsStay`, an action property: two administrators
  who disable each other do so in statements that count the others.

Of passkeys, in the same module: `PasskeysTyped`; `PasskeysAreSound`, with `ChallengeInv` (a
challenge is outstanding, or with one sign-in, or has opened one session) and
`CountInv` (unless sign-ins overlapped, what is stored or about to be is as far on as
anything accepted).

`PeopleProofs`: `PeopleTyped`; `BlocksHold`, with `BlockInv` (no edge and no request
under way crosses a block but a raced one); `ReadsAreOneRule`: the SQL of each read and
the rule in Go agree on every state, which is why the two may be written twice.

`JournalProofs`, over any games, changes, edits, imports and any number of writes:

* `JournalTyped`: `Spec => []TypeOK`, for the committed tables and for those an open transaction
  works on. A lemma per SQL statement (`SessionAdded`, `RowDeleted`, `RunDropped`,
  `SnapshotRestored` and so on) says that the tables still hang together (`Sound`) and what moved
  (`Moved`): only ids of one game are new, they are above what was ever handed out, and a
  changed row is stamped. The operations are compositions of these.
* `UndoApplies`: `Spec => []UndoAlwaysApplies`. That every snapshot fits the tables is not
  inductive: a restore must also fit what the other snapshots hold. `JournalInv` takes the
  tables (committed, and in work) and all snapshots (of undos, import batches and of the open transaction) together
  (`Coherent`): no id is above the sequence it came from, and an id is of one game in all of
  them, whichever of them forgot the row. It is kept twice, with the open transaction and
  without it, since a rollback hands ids out again that only the transaction knew.
* `EveryChangeIsStamped`: `Spec => ChangesAreStamped`, an action property. A
  transaction in work has stamped whatever it changed since it began.
* `CurrentRun`: `Spec => []OpenRunIsCurrent`, under the hypothesis `NobodyReopens`: no edit a
  person sends clears a run's end. Clearing it is possible (`UpdatePlaythrough`), and
  then two runs of a game may be open; `UpdatePlaythroughTidies` is the one step that uses the
  hypothesis. Status changes, cleared dates, imports, deletes and every restore keep the
  rule: `TidyInv` has it for the committed tables, for those in work, and for every snapshot,
  since what is put back must have been so when it was taken.

`BackgroundProofs`, over any queries, callers, games, keys, profiles and bounds. One
induction (`PartsStart`, `PartsStep`, `PartsHold`: `BackgroundSpec => []PartsInv`) puts
the parts together; each has a section of its own with its `...Start`, its steps and its `...Safe`
(the invariant implies the property). `BackgroundTypesOK` is the typing of all. The
strengthenings:

* `IgdbStaysShared`. `CatalogInv`: busy workers and reserved keys are one to one, and the
  slots taken are the workers that have not given theirs back. `LimiterInv`: each waiter
  stands once in its lane's queue (`Stand`), so that whoever is its head is a waiter; where
  pointers to waiters compare equal (`alike`) an entry is anybody's and only their
  number counts. The steps are proved from what removing an entry does to a
  queue (`StandWithout`). `IgdbInv`: an attempt is a retry paid for, a token is one that was lost.
* `CatalogStaysComplete`. `DeltaInv` is the hard one. That what a run passed is stored is not inductive,
  since games move along the list while it is read: it says how many games lie
  before the page the run is at, at a second the run has read in (`Passed`), so that what
  joins the list joins behind that page, or in an `edge` second. It counts sets
  (`Cardinality` of initial segments of the list), which is why the lemmas on finite sets
  come first. `DetailInv`: a game stamped newer than its times is in somebody's refresh, or one was
  cut. `BackfillInv`: the rows a run has asked for are marked, failed or in hand, or behind its id.
* `GamesStayFound`. `LinksAgree`: what was said of an app is what its links still say, also while a matching
  stands between reading them and keeping its answer.
* `ShelvesStay`. `DiscoverInv`: what is about to be stored was read not longer ago than computing takes.
* `MinutesStayOnce`. `SteamInv`: as long as nothing slipped, all that counts minutes (baseline, preview, a
  commit or a sync under way) is of one profile, and each stands for minutes that are counted
  already (`Owed`). `TimerInv`: a timer is with one tab at most, and not logged yet.
* `JobsStay`. `AlertsInv`: a row is marked before it is pushed unless its mark failed, and what is left to
  push is unmarked; no browser a run set out to push to is forgotten (`OwedInv`); a mailed row
  is marked, about to be, or its mark was cut or failed. `NothingForgotten` of the job runner is
  inductive as it stands with the typing.
* `DataStays`. `SnapshotInv`: while an upgrade is unfinished a snapshot of the schema before it is
  among as many as there were tries (`Held`), so that a later one cannot rotate it out. `OpenInv`: who runs in
  each phase of a shutdown.

Writing these proofs changed how some models say things, not what they do: a row's marks
and a timer's record are written out as records, and the rows a delivery has left are a set
taken in order (`IsNext`).

What stays with TLC, and why:

* Liveness (`QueuedIsSent`, `JobSettles`): the prover handles neither fairness nor ENABLED.
* Facts about what a fold or a sort computes need induction over data, which is out of the
  prover's reach: `NeverUnderstates`, `UndoRestores`, `ImportTwiceIsOnce` and
  `UndoImportRestores` of the journal, which replay diaries; `InOrder` of the device, which is about
  the order of all that was ever applied; `NothingIsMissing` of the pages, lists, searches and
  merges, and with it `TypesOK` of `MCServer`, whose typing of those parts rests on the same folds
  (the typing of its other parts is `TypeCorrect`, `AccountsTyped`, `PeopleTyped`, `PasskeysTyped`).
* `CopyHeals` and `DiskHeals` hold in `DeviceCopy` only because its bounds exclude the
  app's own syncs (see `DeviceStale`): no theorem for all bounds would be true.

## 5. Not modelled

* The device store with two tabs on one IndexedDB (`lock`), `clear()` at sign-out, and
  an `init()` that fails half way: they need IndexedDB's behaviour across pages.
* The login throttle and the other rate limiters only refuse; what they refuse
  changes nothing. Profile fields, avatars and the audit log are unchecked
  statements no rule relates to anything.
* What a result row, a shelf, a title or a message contains: ranking of shelves,
  wording, formats of imported files, encodings and signatures of passkeys and push.
* Offset paging, which makes no promise while rows move; the search's full-text
  index, its LIKE fallback and its prefix queries.
* RetroAchievements, prices and UPC lookups: read-only clients of other services.
* Goals, statistics and the year in review: aggregates over one read.
* The Postgres importer (a one-off on an empty database), rendering and routing,
  the service worker's asset cache, covers over HTTP, configuration, metrics and
  development certificates.
