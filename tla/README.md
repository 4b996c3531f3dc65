# Musicata, modelled in TLA+

Musicata is a self-hosted music server written in Rust. This directory holds TLA+
specifications of its playback core and of the stored library, the TLC configurations that
check them on small instances, and proofs, checked by TLAPS, of the invariants that matter
most. Every
definition is a translation of the code; `PROJECT.json` names the source lines each one
stands for.

## 1. The system

### Parts, state and operations

| Part | State it keeps | Operations | Talks to |
|---|---|---|---|
| `QueueState` (`players.rs`) | items, cursor, play order, repeat, shuffle, undo buffer, refill bookkeeping (activity, started, revision, index to resume at) | `apply_to_queue_state` and its helpers, `advance`, `step_previous`, `begin/request/preserve/cancel_refill` | embedded in every player and zone |
| `BrowserPlayer` | one `QueueState` behind a mutex, a checkpoint writer, broadcast channels | `execute`, `track_ended`, `report_progress`, the refill steps, `restore` | controllers (HTTP, WebSocket), the autoplay loop, the writer |
| `MpdPlayer` | the same, plus a command connection, an idle connection, the expected playlist version, a *restored* flag | `execute`, `state`, `reassert`, idle loop, position poll, `rebind` | an external MPD daemon |
| `SnapcastPlayer` | the same, plus what its FIFO writer thread has loaded and preloaded, generations and load revisions | `execute`, `reconcile` in a worker, `on_advanced`, `on_drained`, `on_tick`, stream events | the writer thread, Snapserver |
| `ZonePlayer` | one `QueueState`, a *sync* mutex, the elected cursor source, the cursor fence | `execute` and `drive_members`, `apply_member_cursor`, `track_ended`, refill steps | its member players |
| `PlayerManager` | registries of players and zones, cursor tasks, an administration mutex | register, rebind, remove, `set_zone`, `refresh_zone_cursor`, `ensure_zone_snapcast` | database, players, zones |
| `QueuePersistence` | one pending update, a stop flag, a wake channel, a worker task | `submit`, `stop`, the worker's loop | SQLite |
| autoplay loop (`main.rs`) | jobs, outputs in flight, whether it was enabled | one pass per second, cancel and abort when switched off | players, zones, recommendations |
| stored library (`storage/lib.rs`, `main.rs`, `core/lib.rs`) | tracks, their grouping and reviews, artist aliases, a revision that every save moves on | scans (timer, watcher, request), regrouping, review of a track's tags, merging of artists | files, database |
| MusicBrainz worker (`musicbrainz.rs`, `queue_cache.rs`) | the tracks it has still to describe, whether a regrouping is due, a remembered empty answer | a pass over the queue, the regrouping after it | network, database |
| listen tracker (`players.rs`) | the play it follows | `observe` | the sample broadcast, database |
| scan limiter, scrobbler, artwork and fingerprint workers, backup, managed hosts, diagnostics | see `PROJECT.json` | background work | database, network |

The server owns every queue: a controller sends commands and renders what it is told, an
output reports the end of a track. Inside one player all handlers take the player's
mutex, so that a handler is one step; what is *not* one step is where the difficulties
are: a recommendation lookup that runs for seconds while the queue changes under it, a
checkpoint that is written, fails and is retried while newer ones are submitted, a zone
that follows the cursor of one of its members, a writer thread that goes on to the next
track by itself, a daemon that other clients edit, a switch whose handler cancels the
outputs one after the other, a library that is read, worked on for minutes and replaced.

### What is hard here

* **Results that come late.** A lookup's result must be dropped when the listener has acted
  meanwhile, and must be honoured, at the right index, when playback waits for it.
* **Lazy shuffle order.** The play order is a permutation of indices, rebuilt only when it
  no longer fits; edits that keep it *valid* can still make it *wrong*.
* **Coalesced checkpoints.** One pending update, merged from cursor and queue changes in
  any order; a crash at any point must find a row and items of the same moment.
* **Removal.** Rows are deleted after the last write of a worker that may be waiting,
  writing or sleeping, by a request that may be dropped while it waits for that.
* **Two clocks.** A zone, its elected member and the daemon behind it each keep the time
  played; a command's effect is recognised by comparing them.
* **Copies of the queue.** A Snapcast writer has a track loaded and one preloaded, an MPD
  daemon a whole playlist; both move on by themselves and report late, or not at all.
* **Work that is cut short.** The reconcile worker of a Snapcast player is dropped at any
  await by a newer request, and so is a request whose client has gone.
* **Whole-library saves.** Scans, regroupings and reviews do not exclude each other; each
  replaces the library it has read, if that is still the one stored.
* **Switching off.** Turning continuous play off cancels outputs one by one while jobs of
  the running pass go on.

`PROJECT.json` lists these and the others as `hazards`, each at its line with the
properties that watch it.

### What makes each part correct

* Queue: the cursor points into it or is unset; editing around the current item leaves it
  playing; the announced next item is the one played; a pass plays each track once.
* Refill: at most one at a time; a stale result never reaches the queue; an awaited one
  starts with its first track; none is announced without a seed.
* Checkpoints: the newest is what is shown; what is stored is of one moment; nothing is
  forgotten; everything is saved in the end; a removal that is not dropped completes and nothing
  is written after it.
* Zones: the best member there is is elected, listened to and fed; the zone shows it and is
  never moved back by an older look at it.
* Snapcast: what is heard is what is shown; nothing is heard that was paused or stopped; what
  should play does in the end.
* MPD: the daemon has the server's queue when its version, as it runs, was taken down; a look
  does not disturb what plays; server and daemon come to agree after a crash or an edit
  elsewhere, as far as the code can notice it (`lost` below).
* Autoplay: a queue that runs short is filled or found exhausted; nothing is added once
  the switch is off.
* Library: no save is lost; a track or its review goes only when its file was edited, or the
  scan has noted that it could not look for it; in the end
  the library shows the files and everything known of them.

## 2. Modules and plan

| Module | Models | Built on | State |
|---|---|---|---|
| `QueueState` | the queue record and every operation on it, as operators | – | done |
| `BrowserPlayer` | the player around one queue: commands, reports, refills, checkpoints, restart | `QueueState` | done |
| `Checkpoints` | the abstract promise of a checkpoint writer | – | done |
| `QueuePersistence` | the writer: coalescing, worker, retry, removal, crash | refines `Checkpoints` | done |
| `Autoplay` | the loop, its jobs, the switch and `set_zone` around reduced queues | – | done |
| `QueueStateProofs`, `BrowserPlayerProofs`, `QueuePersistenceProofs`, `AutoplayProofs` | theorems and proofs | the modules they name | done |
| `PlayerCommands` | `apply_to_queue_state` as one operator, for the three modules below | `QueueState` | done |
| `SnapcastOutput` | reconcile worker, writer thread and late reports, with generations, load revision and preload | `PlayerCommands` | done |
| `Zones` | membership, election, the feeding task, the fence, driving the members | `PlayerCommands` | done |
| `MpdSync` | playlist version, restored flag, idle loop, reconnect and reassert against a daemon that crashes, drops connections and is edited | `PlayerCommands` | done |
| `Library` | everything that rewrites the stored library, and the MusicBrainz worker with its queue cache | – | done |
| `LibraryProofs` | theorems about `Library` | `Library` | done |
| `ZonesProofs`, `MpdSyncProofs`, `SnapcastProofs` | theorems about the three outputs that keep a copy of the queue, each on top of `QueueStateProofs` | the modules they name | done |
| a zone's own Snapcast stream, registering and reconfiguring players | the migration of a zone's queue and its partial failures | `Checkpoints` | not begun |
| `ListenHistory`, `ScanLimiter`, `Scrobble` | one sequential or small concurrent machine each | – | candidates |

Each `MC*` module gives the constants of a module small values; each `.cfg` beside it is
one question. The order of the plan is the order in which a fault would be heard: the
queue first, then what survives a restart, then what keeps music going, then the outputs
that keep a copy of the queue, then the library the queues are filled from.

Theorems planned next: the action properties of `BrowserPlayer` that need a play order to be a
permutation.

### `QueueState`

One record stands for `QueueState` of `players.rs`. Positions count from 1 and 0 is
`None`. An operator with a seed (the wall clock) returns the *set* of its results; a
shuffled order is any permutation that keeps the current item first.

| Operator | Code |
|---|---|
| `ShuffleOrderValid`, `BuildShuffleOrder`, `EnsureShuffleOrder`, `ShuffleCursor` | the functions of these names: the order is rebuilt only when it no longer fits |
| `Advance`, `StepPrevious`, `TrackEnded`, `PeekNextIndex` | `advance`, `step_previous`, `track_ended`, `peek_next_index` |
| `CancelRefill`, `BeginRefill`, `RequestRefillResume`, `PreserveRefillResume`, `ClearExhaustionAfterAdvance`, `FinishRefill` | the methods of these names, with their guards `CanBeginRefill`, `CanRequestRefillResume`, `RefillIsCurrent` |
| `Prepared`, `ShuffleTo`, `ClearQueue`, `PlayIndex`, `ReplaceQueue`, `EnqueueItems`, `RemoveItem`, `MoveItem` | the arms of `apply_to_queue_state` and the helpers they call |
| `Playback`, `Restored` | what a checkpoint keeps, and `apply_restored_snapshot` |

Elapsed time, duration, volume and the metadata of items are left out: no branch of the
operations above reads them. The revision is a `u64` that wraps; it is not followed that far.

### `BrowserPlayer`

`q` is the queue behind the state mutex; `submitted` is the newest checkpoint handed to
the writer, with items and row as the writer merges them; `unsent` is the checkpoint a
refill has made and not yet submitted; `lookups` is the recommendation lookup in flight.
Two variables exist only for properties: `overtaken`, and the flag `void` of a lookup.

A command is `Execute(command, outcomes)`: `CancelsAutoplayRefill` and the undo buffer are
applied first (`Prepared`), one outcome becomes the queue, and a queue or a playback
checkpoint is submitted as `MutatesQueue` says. `RequestAutoplayResume` is the branch of
the HTTP handler that remembers `next` instead of executing it. `BeginAutoplayRefill`,
`FinishAutoplayRefill` and `SubmitRefill` are three steps because the code releases the
mutex between them. `Restart` restores `submitted`; an older checkpoint on disk was the
newest of an earlier state, so restoring the newest stands for all of them.

### `Checkpoints` and `QueuePersistence`

A moment of the player is a number and `past[n]` the items shown at it. `pending` is
`Pending.update`, `stopped` its flag, `wake` the channel of capacity one, `worker` and
`writing` the position of the task and the update it has taken. `ChangePlayback` and
`ChangeQueue` are the two kinds of `submit`; `Wake`, `Take`, `WriteSucceeds`,
`WriteFails`, `RetryTimer` and `WakesNoMore` are the worker's loop between its awaits;
`Restart` is a crash at any point. A write is atomic: it is one statement, or one transaction
when the items are rewritten.

The removal is a request of several steps: `BeginRemoval` takes the player out of the map,
`BeginStop` tells the writer, `DeleteRows` follows when the worker has ended. `DropRemoval`
ends it wherever it waits, because its client left or the database failed: the player is then
in no map, its rows stay, and its writer goes on as long as some handle of it does (`open`,
`DropHandle`). A second removal finds the record but no player, so that it stops no writer and
deletes the rows at once (`RemoveAgain`); a restart brings the player back.

`Checkpoints` promises that row and items stored are of one moment and only move forward,
and that nothing is written after the removal. `QueuePersistence` implements it
(`KeepsPromise`), with one exception in the mapping: after a second removal a write in hand
may still follow, and the promise is then only that the rows went once.

### `Autoplay`

An output's queue is reduced to what the loop and its jobs tell apart: `playing`, `few`
(fewer tracks to come than the threshold, behind a library track, with repeat off),
`awaited` (playback resumes with the refill), `activity` and `started`. The code compares
the revision a lookup began at with the queue's; here a job has the flag `current`, which
each cancellation of its output clears, as it would raise the revision.

| Actions | Code |
|---|---|
| `Tick`, `Schedule`, `LoopCancels`, `EndPass`, `Reap` | one pass of `autoplay_loop`: jobs are spawned or outputs cancelled one after the other, then, when cancelling, all jobs are aborted; between passes the other branch of `select!` reaps jobs that ended |
| `JobBegins` … `JobFails` | the tasks `schedule_autoplay_refills` spawns, between their awaits: refresh, begin, lookup, setting, record of the player, `finish_autoplay_refill` with its outcomes and errors |
| `SwitchOn`, `SwitchOff`, `RequestCancels`, `RequestAborted` | `set_autoplay`; the server drops a handler whose client has gone |
| `StartMove`, `CancelPlayer`, `CancelZone`, `WriteRecord` | `set_zone`: both cancellations come before the membership is written |
| `Advances`, `Drains`, `AsksNext`, `RequestResume`, `Edits`, `Plays` | playback and listener, as the queue's operations change the reduced record |

There is at most one zone. The refill steps of a zone are those of a player, except that a
zone has no daemon to be out of reach.

### `PlayerCommands`

`Arguments` and `Applied` are the commands of `apply_to_queue_state` with the payloads they
may carry, `Outcomes` the first half of every `execute`: a `Next` that waits for a refill is
kept back, a command that makes a lookup stale cancels it. The revision of a refill is set to
0 afterwards (`Uncounted`): the modules that use this have a `lookup` that is *current* or
*stale* instead, which is all the comparison of revisions tells apart.

### `SnapcastOutput`

`q` is the queue, `loaded` what the player believes of its writer, `worker` the position of the
reconcile worker with what it has read, `channel` the messages to the writer thread, `writer`
the thread's own state, `events` its reports on the way back.

| Actions | Code |
|---|---|
| `ApplyCommand`, `FinishCommand` | `execute`: the queue under its mutex; then load revision, transport message and request, in a step of their own because the mutex is free in between |
| `Reconcile` … `PreloadNext`, `PreparationFails`, `PreloadFails` | `reconcile_worker`: a new request drops what is under way, so that each stretch between two awaits is a step |
| `ConnectRadio`, `StartRadio`, `RadioFails` | `reconcile_radio` |
| `OnAdvanced`, `OnDrained`, `OnStreamStarted`, `OnStreamFailed` | the control task's handlers, which compare generation, position and item first |
| `TakeMessage`, `WriteFirst`, `TrackDrains`, `StreamFails` | the writer thread between two chunks |
| `BeginAutoplayRefill`, `FinishAutoplayRefill` | the refill steps, which recognise their lookup by the activity text |

A generation is only compared for equality, so that one nothing refers to is used again
(`Unused`; with none left no load is made, which is a bound). What the writer will do once it has
taken its messages is said by the last of them that bears on it (`WillPlay`, `WillHold`). The
history variable `astray` notes a report about the loaded track that was not followed, which
happens when playback is paused just as a track ends or the queue is edited after the writer
has rolled on: the code then has no means of knowing what is heard.

### `Zones`

`members` and `live` are the records and the runtimes, `elected` is the member the registry's
entry names, `task` what feeds the zone, `source` the member the zone accepts, `fence` the
cursor it waits for, `driving` the command under way, which stands for the `sync` mutex.

| Actions | Code |
|---|---|
| `SetZone`, `RemovePlayer`, `DeletePlayer` | `set_zone` and `remove` of `PlayerManager`; only removals exclude each other |
| `ReadMembers`, `RecordSource`, `AnnounceSource`, `ApplyFirst`, `Follow` | `refresh_zone_cursor`, a step for each stretch between awaits |
| `Abort` | a request is cut short at any step; at the last one its feeding task may run already and be in no entry |
| `TakeSnapshot`, `FeedSnapshot` | a feeding task: the member's snapshot is taken and then waits for `sync` |
| `Call`, `Execute`, `DriveMember` | `command_zone`, `ZonePlayer::execute`, which a refused command leaves at once, and `drive_members` |
| `OutputEnds`, `Ticks`, `Advances` | a browser's end of track; members playing on |

Requests overlap as they like: `set_zone` takes no lock. `task` is a function of two feeders,
the one the entry has and one stray task, begun by a request that was cut short before the
entry got it; it goes on feeding for as long as the server runs.

`settled` is history, of the last election: "alone" while it is the only request, "yes" once
it has come to its end as that, and "no" otherwise. `crossed` notes that requests have
overlapped and no lone election has elected since. What an overlap leaves behind, an election
record older than the membership or a task of another member than the record, stays until then,
for an election that finds its member recorded, and some task, returns at once: `settled` is
"no" after such a one. `stale` holds whoever has a snapshot from before a command that moved
the cursor of a zone which follows a member (`Moves`; `driving.moves` keeps it for the snapshots
taken while the members are still being driven), until the zone has met its fence. A removal or
a move of an item, which takes the cursor along with what plays, is not such a command, and may
shift the position on top of one: `NoRollback` says that a stale snapshot leaves status and
position alone or takes them to where the fence says the command put them. Once one feeder has
lifted the fence with a snapshot that met it, another's older one passes; the code has nothing
against that, and the property does not speak of it.

### `MpdSync`

Every operation of `MpdPlayer` holds its `sync` mutex from end to end, so that it is one step
with several ends: the commands arrive; the connection was dead; it breaks when some of them
have arrived; the daemon refuses. `Reconciled` is `read_reconciled_status`, `CursorApplied` is
`apply_cursor`, `Reasserted` is `reassert`. `Execute`, `FinishAutoplayRefill`, `State`, `Poll`
and `Rebind` are the methods; `Connect`, `Arrive`, `Greet`, `Hear`, `HangUp` and `LeaveFormer`
are the idle loop. The daemon is external and modelled by how the code uses it: `TrackOver`,
`EditedElsewhere`, `TagsArrive`, `Crash`, `Restart`, `TimeOut`.

A playlist version is only compared with the one noted, so that two flags stand for it.
`seen` says that the daemon's version is the one noted. `borrowed` says that the one noted is of
another run of the daemon, or of another daemon: `expected_playlist_version` is not reset when
the daemon restarts or the player is rebound. A daemon counts on by itself, so that a version it
had does not come back, but a borrowed one may be met by chance at any change, with any queue
(`TakenForNoted`, `NextVersion`).

`Rebind` tells the idle loop by `notify_waiters`, which is heard only by a loop that waits: one
between connecting and the wait goes on with the former daemon (`idle.on = "former"`) until that
has news or goes away (`LeaveFormer`).

The history variable `lost` marks what the protocol cannot notice: an edit that was not carried
out by a daemon whose queue version did not change, a refill that notes the version of a
queue another client had just edited, without comparing it, and a reader that takes a borrowed
version for the one noted. A comparison or a reload clears it.

### `Library`

`library` is the stored library: a file version, a grouping and a review for each source's
track. `job` has, for each process, where it is, whether the revision it has read is still the
library's (`fresh`), the library it has read (`seen`), the one it has made (`made`) and the
sources whose directory it could not list (`missed`). Only a source that cannot be reached at
all, or a local root that cannot be read, keeps what it had; any other listing that fails, on a
share even that of the root, contributes nothing but an issue of the scan, and the scan goes on.

| Actions | Code |
|---|---|
| `ReadRevision`, `LoadLibrary`, `ScanSource`, `ListingFails`, `Save`, `Fails` | what every rewrite does: revision, library, work, `save_library_at_revision`; the differences between them are in `LoadLibrary`, `Differs` and `Afterwards` |
| `Discover`, `ScanOnChange`, `Rescan`, `Review`, `MergeArtists` | the timer, the watcher, and the requests of `main.rs` |
| `Poll`, `PollRemembered`, `Query`, `Remember`, `Enrich`, `PassEnds` | the MusicBrainz worker and `QueueCache` |
| `Identify`, `Edit`, `GoOffline`, `ComeBack`, `Restart` | the fingerprint worker, the files, the sources and the server |

## 3. Runs

| Run | Shows |
|---|---|
| `browser_refill` | Without shuffle, all commands, track ends, one lookup at a time, a refill's late checkpoint and restarts interleave. The cursor points into the queue; a refill that playback waits for resumes behind the last item and starts with the first track found; none is announced without a seed; a stale result changes nothing; editing around the current item leaves it playing; a restart finds what is shown. |
| `browser_shuffle` | The same with shuffle: the announced next item is the one played, tracks added to play next are played next, and the order is part of every checkpoint. |
| `checkpoints` | The writer coalesces, fails, retries, stops and crashes: row and items stored are of one moment, nothing is forgotten, each change is saved in the end, a removal completes unless it is dropped. |
| `autoplay_goes_on` | Jobs fail, the daemon comes and goes, the zone's own job may hang for ever, the listener acts and a player moves: a queue that runs short is filled or found exhausted, and a reservation always has a job behind it. |
| `autoplay_switch` | The switch is turned twice while passes and jobs run and its request may be aborted: nothing is added to an output that has had its turn to be cancelled. |
| `snapcast` | Two commands, edits and a refill race with the reconcile worker, the writer thread and its reports. Once a Pause or Stop has returned the writer is silent or told to be, and so it is when the queue has lost its cursor and the worker is done; when nothing is under way, the track heard is the one shown; what shows Playing gets to play, or says that it does not. |
| `zones` | Players join, leave and are removed by requests that overlap and may be cut short, commands drive members that play on, snapshots come late: after an election that ran alone, and elected anew if there was an overlap before it, the best member is recorded, listened to and fed; an old snapshot does not move the zone back behind the command that made it old; the zone gets to show its member unless it waits for a command's effect. |
| `mpd` | A daemon that crashes, counts anew, is exchanged, drops connections, advances and is edited by others: a version noted of it as it runs vouches for the queue; when there is no news the server shows what the daemon does; looking does not disturb it; while somebody asks, the cursors agree in the end, and the queues with them unless an edit was lost. |
| `library` | Scans, regroupings, a review, a merge and the worker rewrite the library, a query or a source fails, the server restarts: no save is lost, nothing goes without an edit or an issue that explains it, a remembered empty queue is empty, and the library catches up. |

The runs `zone_fence`, `mpd_restored` and `library_paths` end in a counterexample: what a
comment says there is not what the code does (section 6).

### Bounds

* `browser_*`: three tracks and the stream; queues of at most `MaxLen = 3` items, enough
  for an item before, at and after the cursor, and for a permutation that is valid and
  wrong. Batches have no, one or two items, so that empty, appended and replaced queues of
  equal length occur. `MinUpcoming` is 2 (a refill starts with
  one item or none behind the current one) where refills matter and 0
  (none ever starts) where shuffle does; the code's value is 5, and all it decides is where
  "few" begins. `MaxRevision` bounds cancellations to
  two with refills, one for a stale result and one more for a result that is stale twice,
  and to one with shuffle.
* `checkpoints`: `MaxMoments = 6`, while at most three updates exist at a time: stored,
  in hand, pending. Six moments fill and merge both places more than once.
  `CHECK_DEADLOCK FALSE` because a removed player's writer has ended and nothing is left.
* `autoplay_*`: one player and one zone, the two kinds of output, related by membership.
  `MaxToggles = 2` is off and on again, `MaxActs = 1` one edit, one `next` or one move;
  track ends and `play` are unbounded. In the runs the setting can always be read
  (`ReadsMayFail` is FALSE); an unreadable one counts as on, which the type theorem covers.
  The threshold, revision counter and lookup times do not occur in the reduced state.
* `snapcast`: two tracks and a station, queues of at most two items, two commands out of eleven
  (which may overlap between their two halves), any number of refills that fit, and everything
  the worker and the thread do. Two commands are enough for one to come between any two steps
  of what another has set going, twice. Five generations do not run out: one each in `loaded`,
  the worker and the writer, and in messages and reports those of loads already replaced.
* `zones`: a Snapcast and an MPD player, so that every election has a better and a worse
  candidate; a browser is never elected, and the theorems have any number of them. Two requests,
  which is what an overlap takes; four commands (one that starts, one that advances, one that
  edits, and one that may be refused). `MaxSteps = 4` bounds the memberships changed, the
  requests cut short, the commands and the members' own steps together: two joins that overlap, a
  leave and a move of a member, or a join, two commands and a move, are within it. The steps of
  elections, tasks and commands under way are not counted. The time played is 0 or 1. One stray
  task at a time: another takes its place. `zone_fence` has one request.
* `mpd`: two tracks, a refill that finds one or none, another client that leaves one track; two
  commands, two faults (a daemon that crashes and a connection cut in the middle; a rebinding and
  a stale connection), one move of the daemon's own. A version is met again by choice, not by
  counting, so that no bound is needed for it. Restarts of a daemon, readings and
  reconnections are unbounded.
* `library`: one source, one request process, one edit (the file has then been absent, as it
  was and changed), one request, one fault; discovery, regroupings, the worker and
  identification are unbounded. `library_paths` has two sources with one path, an edit, and
  neither requests nor faults. With the numbers at 1 every pair of rewrites still overlaps in
  every way; a second source is what `ScanSource`'s order is for, and `NothingGoesUnexplained` and
  `NoLostUpdate` are proved for any number of sources.
* `CHECK_DEADLOCK FALSE` in `snapcast`, `zones` and `mpd`: when the bounded commands, faults and
  moves are used up, a player at rest has nothing left to do.

### Fairness

* `QueuePersistence`: the runtime polls the worker (weak fairness of its steps) and the
  database does not fail for ever (strong fairness of `WriteSucceeds`, which a failing
  write disables and a retry enables again). A removal goes on while it is not dropped (weak
  fairness of `BeginStop` and `DeleteRows`); that it is dropped is never excluded, and then it
  does not complete: `RemovalCompletes` says so. Nothing makes a player change or a restart
  happen.
* `Autoplay`: the loop's interval ticks and its steps run. `Reap` is strongly fair, as
  `select!` chooses among its ready branches at random. Outside `Slow`, a job's steps run,
  a daemon is in reach again and again (strong fairness of `JobBegins`), and a job does not
  fail for ever (strong fairness of a delivery). Outputs in `Slow` are given nothing: their
  lookups may hang for ever, and the others must not be affected. `RequestCancels` is weakly
  fair: a request that is not aborted goes on.

* `SnapcastOutput`: the second half of a command runs to its end (the runs assume of a
  command's handler that it is not dropped between its halves), the worker and the control
  task are polled, and the writer thread takes its messages. Nothing makes a track start, end
  or fail.
* `Zones`: a request's steps run unless it is cut short; a command drives its members; the
  task the entry has, which wakes every second, is polled. A stray task may go on or not, and
  members need not play on.
* `MpdSync`: the idle loop, which retries its connection for ever, and the poll go on. A daemon
  need not come back, and a former one need not say anything. `SpecAsked`, under which
  `FollowsDaemon` is checked, adds that the state is asked for over and over: the loop of
  continuous play does so for every player while the setting is on (`main.rs:1348`), and so does
  a controller that polls. With neither, nothing in the code looks at a daemon at rest, and
  nothing is claimed.
* `Library`: the steps of every process run, discovery's timer fires, the worker goes round, and
  a source out of reach comes back. Nobody has to edit, ask or identify anything.

## 4. Proofs

TLAPS proves the following for all values of the constants that satisfy the assumptions in
the modules: the stream is not a library track; the commands are among `PlayerCommand`, and
what they enqueue and what a lookup finds are sequences of tracks; the bounds are naturals;
the players are finitely many and of one kind each; `Nobody` and `Nothing` are told apart
from what they stand beside.

* **Queue and player.** `BrowserPlayerTyped`, `CursorStaysInQueue`, `RefillResumesAtTheEnd`
  and `AnnouncedRefillHasSeed`. The inductive invariant is `TypeOK /\ Sound(q)`, where
  `Sound` collects what each queue operation relies on and gives back: a cursor in the
  queue or unset, a resume index exactly behind the last item and only with an activity
  announced, an activity only with a seed, a reservation only with an activity. The
  properties are not inductive one by one: that the resume index stays behind the last item
  depends on every operation that changes the length cancelling the refill first, or, in
  `FinishRefill`, on the activity it then clears. `QueueStateProofs` proves, operator by
  operator, that `Sound` is kept; `BrowserPlayerProofs` has one step per action.
* **Checkpoints and lookups.** `NewestCheckpointIsCurrent` and `VoidResultsAreDropped`. To
  `Sound` they add `Mirrored`, by which what was submitted last, or has still to be, matches
  the queue unless it was overtaken (the checkpoint of a refill is taken under the mutex
  and submitted after it), and `Stamped`, by which a lookup carries a revision the queue has
  reached, and one it has left behind once the listener acted. `QueueStateProofs` proves the
  facts about the operators this needs: what advancing keeps of the order and the items, and
  which operators raise the revision.
* **Edits and hints.** Of every step, `EditsKeepNowPlaying`, `RefillsStartAtFirstFound`,
  `NextUpIsKept` and `PlayNextIsNext`. They need what `Sound` says of the cursor and where
  each item is after a removal, an insertion or a splice (`SplicedElements`,
  `RemovedElements`, `InsertedElements`). For `PlayNextIsNext` in a shuffled queue the
  splice must leave the current item in one place of the play order, where it was
  (`SpliceFollows`); that it is there at all is the pigeonhole principle (`CursorFound`).
* **Writer.** `WriterTyped`, `NothingIsForgotten`, `ItemsAreNotOvertaken` and the refinement
  `PromiseIsKept`. The lemma `MergeIsBoth` says that writing a merged update leaves what
  writing the two one after the other would leave; with it, a take, a success, and a failure
  with its retry each preserve `ItemsNotOvertaken`, and a write maps to `Save`, a crash to
  the abstract `Restart`, a removal to `Remove`, everything else to `Change` or a stutter.
* **Continuous play.** `TypeCorrect`, `SwitchIsObeyed` and `ReservationsAreAttended`. For
  `SwitchIsObeyed` two facts are added to `TypeOK`.
  `AllowedIsOwed`: while the setting is off, a job that read it as on and is still current
  belongs to an output that some request has yet to cancel, or a request was aborted.
  `JobsBeforePassEnds`: jobs exist only while the loop's last reading was on or its
  cancelling pass is not over. The first gives the property for requests that complete; the
  second what it says of the loop when one was aborted. `ReservationsAreAttended` needs
  `Attended`: while the setting has always been on the loop has not been cancelling, and a
  reserved queue has a job that is still current, so that its end gives the queue back.
* **Library.** `LibraryTyped`, `NoSaveIsLost`, `NothingGoesWithoutCause`, `EmptyIsEmpty`, for
  any sources and any bounds. `NoLostUpdate` is about a step; its proof needs that a loaded
  job whose flag is still set has read the library stored now (`Reads`): every save that
  replaces the library clears the flag of every other process. `NothingGoesUnexplained` needs
  `Accounted`: versions are numbered on, so that an edit never brings back the one a job has
  read (`Sane`), and what a job has changed or dropped of its draft so far it had cause to
  (`Kept`). `RememberedMeansEmpty` needs `Vouched`: a token that is not spent stands for an
  answer after which nothing was committed.
* **Zones.** `TypeCorrect`, `ElectedIsFollowed` and `SnapshotsNeverRollBack`, for any number of
  requests that overlap and are cut short as they like. The first is proved in a strengthening
  by which the zone's queue and every member's stay `Sound`, whatever member is followed and
  whatever command overtakes it. The invariant of the second is `Orderly`. Its parts speak of the
  times at which one request runs by itself and nothing an earlier overlap left behind matters
  (`Lone`): then what that request has recorded and announced no task contradicts, and between
  requests the entry's task, if there is one, is of the member that the entry names and the zone
  listens to (`Recorded`); and an election that runs alone has chosen by the membership there is
  (`Chosen`). That of the third is `Fenced`: while a command that moved the cursor is driving its
  members, or anybody holds a snapshot that is stale, the zone has a fence. A snapshot it lets
  pass is then one that meets the fence, and after that none is stale.
* **MPD.** `TypeCorrect`, `VersionsVouch`, `QuietInStep`, and of every step
  `LooksAreHarmless`. `VersionVouches` and `QuietMeansInStep` are inductive only together
  (`IInv`): news is read along with a version, and settles the player only because that
  version vouches for the queue; and the version goes on vouching through the commands only
  because a daemon that is not in step has news to come, or an edit was lost. Of a borrowed version
  nothing is known, and nothing is claimed until the next one is noted. The lemmas say
  of each way a connection breaks in mid-command what the daemon may be left with.
* **Snapcast.** `TypeCorrect`, `SilentOnceStopped` and `HeardWhenSettled`. `Typed` adds to
  `TypeOK` what the worker may be about to do with what is loaded, and that an empty queue
  with work announced has nothing loaded, without which appended tracks could leave a load
  that nothing answers for. `SilentUnlessPlaying` speaks of a player at rest; inductive is `Hushed`. A generation
  is loaded once, and what is reported of the present one follows everything else the writer
  was told (`Orderly`), so that a late `Drained` or `Failed` that is believed finds the writer
  silent. While nothing is loaded, nothing plays and no message would make it
  (`SilentUnlessLoaded`). And a writer that plays, or will, under a player that shows
  something else has what hushes it still to come: the second half of a command, a request to
  the worker, or the worker's own step (`SilentUnlessHushing`).
  `HeardUnlessAstray` speaks of a player at rest too, and takes two more invariants.
  `Tuned` relates what the player believes is loaded to the writer: until reports are ignored,
  either the load is still on its way, and nothing is reported of it, or the last report
  under way, the load itself if there is none, names the item the writer has (`Becomes`); of a
  station that is announced but not sent the writer knows nothing. `Agreed` relates it to the
  queue: once no command or request is unfinished, each stage the worker can be in
  has read the item at the cursor, or has it loaded and the writer told to play.

`QueueStateProofs` holds the lemmas these share: what each operation of the queue keeps of
`Sound`, what stopping, loading or advancing changes, and that a command's outcome is `Sound`.

Only model-checked is liveness, which the prover does not reach: `EveryChangeIsSaved`,
`RemovalCompletes`, `RefillComes`, `PlaysInTheEnd`, `MemberIsShown`, `FollowsDaemon` and
`CatchesUp`.

The exceptions a property makes are part of what it says. `CheckpointIsCurrent` excepts a
refill's checkpoint that was overtaken, `HeardUnlessAstray` a report that was not followed,
`VersionVouches`, `QuietMeansInStep` and `FollowsDaemon` what `lost` and `borrowed` mark,
`BestIsFollowed` elections that overlap and those that find nothing to do after that,
`MemberIsShown` these and a fence that stands, `NothingGoesUnexplained` listings that fail, and
`RemovalCompletes` removals that are dropped. Each is a behaviour of the code, listed below.

No result says that a play order in use is always a permutation, which would need induction
over its length. In the proofs it is a sequence of indices, and where the code tests that it
is valid (`shuffle_order_valid`) the two properties that need it do so too.

## 5. Limits

Within the modelled parts: the time played, volume and metadata; broadcasts to controllers;
numbers wrapping around; the database failing elsewhere than where a track is resolved, a
checkpoint written or the setting read; a second zone; a revision counter shared by more
than one lookup (the scheduler keeps one job per output). A recommendation is any of a
small set of results.

`BrowserPlayer` and `Autoplay` model the same refill at two depths, and nothing formal
relates them: the first has the queue in full and one lookup, the second many outputs and
the switch. `BrowserPlayer` assumes of the writer what `QueuePersistence` proves, that what
was submitted last is what is restored. `Zones` takes its members as they are seen from the
zone; what a Snapcast or MPD member does inside is `SnapcastOutput` and `MpdSync`.

In `Library` a regrouping reads enrichment and aliases in the step in which it reads the
library, conflicts of a restore (which the code logs) do not occur, and of the outcome of a
lookup only "described" and "failed" are told apart. Artwork, favourites and search are left out.

Some behaviours of the code are in the models, or were met in building them, and no property
asks for anything else:

* The play order is kept lazily. After `MoveQueueItem` its slots name other tracks; after
  `PlayTracks` with as many tracks as before the old order still counts as valid; tracks added to
  play next after such an edit may come anywhere. `PlayNextComesNext` and `NextUpIsHonoured` say
  what does hold (`players.rs:3353`, `3041`, `3397`).
* `finish_autoplay_refill` of a browser player submits its checkpoint after releasing the mutex
  (`players.rs:2379`), and may replace a newer one; `CheckpointIsCurrent` excepts this.
* A job that begins its refill between its output's cancellation and the abort of all jobs
  leaves the output reserved until the listener edits the queue (`main.rs:1296`); the run
  `autoplay_goes_on` leaves the switch alone.
* A job that begins between `set_zone`'s cancellation and its record adds tracks to the queue of
  a member (`players.rs:960`); a `Next` that read the setting as on before it was switched off
  waits for a refill that never comes (`main.rs:4219`).
* A stream that starts clears the activity by which a Snapcast player's refill is recognised
  (`players.rs:4134`, `3646`): its result is dropped, and the reservation stays.
* A Snapcast player paused just as a track ends ignores the report (`players.rs:4117`) and goes
  on showing the track that is over: `astray`.
* Of two overlapping elections of one zone the older may be recorded last, or its task replace
  the newer one's (`players.rs:1072`, `1143`), so that the zone listens to one member and is
  fed by another. A later election that finds its member recorded, and some task, returns at once
  (`1096`) and changes nothing of that.
* A membership request dropped as it hands its feeding task to the entry leaves a task that
  nothing ends (`players.rs:1118`, `1138`).
* A removal dropped while it waits for the writer leaves record and rows behind a player that is
  in no map (`players.rs:988`). A second removal deletes them without stopping the writer, so that
  a late write may bring rows back.
* With continuous play off, nobody asks an MPD player at rest for its state but its controllers,
  so that a restarted daemon gets its queue back only from the idle loop (`players.rs:1889`); an
  edit lost with a connection that was closed silently is not noticed until something changes the
  version, although the comment there says that the next call re-asserts (`1666`); a daemon that
  restarted, or was exchanged, may have the version noted of the other and another queue (`1791`);
  a rebinding that the idle loop does not wait for is not heard (`1411`); a refill notes the version of a queue it has not compared (`1760`); a queue
  adopted from the daemon is pushed back to it when the idle loop connects (`1525`).
* A scan by the directory watcher, or after a source was added, is not followed by a regrouping:
  new grouping shows only when discovery's timer has fired.
* A directory that cannot be listed once its source was reached contributes no tracks and an issue
  (`musicata-core/src/lib.rs:2031`); the scan saves this, and the reviews of those tracks are gone
  when they come back. A file whose tags could not be read once is taken over with what its name
  gave until it changes; tags that cannot be read are not modelled.

Not modelled at all, with the reason, are the components marked so in `PROJECT.json`: history,
limiter and the migration of a zone's stream are candidates as above; SQL
queries, parsers, network fetchers, signal processing, routing and user interface keep no
state whose interleavings TLC would explore to advantage.

## 6. Where the code and its documents part

* `zone_fence` (`FenceIsLifted`, `src/crates/musicata-server/src/players.rs:2486`):
  `CursorFence::matches` wants the member's time played to the hundredth of a second. The member
  plays on while the command reaches it, and every later look at it shows another time, so that
  the fence of a Play or Pause is not lifted and the zone shows the member no more until the next
  command. src/crates/musicata-server/src/players.rs:2503 says of the elected member "its latest
  snapshot feeds natural transitions and progress back into the zone".
* `mpd_restored` (`RestoredCursorIsKept`, `src/crates/musicata-server/src/players.rs:1488`):
  `apply_cursor` takes over the cursor of a daemon that has just been given the restored queue
  and has no current song: the restored position is gone with the first state request or piece
  of news, before any Play. src/crates/musicata-server/src/players.rs:1313 says "so the first
  `Play` resumes at the saved position rather than MPD's index 0".
* `library_paths` (`FilesAreFound`, `src/crates/musicata-storage/src/lib.rs:1105`):
  `detect_library_changes` keys its maps by `provider_item_id` alone, so that of two sources'
  files with one path only the last is compared, and a change or removal of the other is never
  saved. src/crates/musicata-storage/src/lib.rs:591 says of the same rows "keying on (provider
  id, provider item id) — the item id alone can collide once more than one source is merged in".
