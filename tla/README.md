# Michi Music Player: TLA+ models, checks and proofs

Michi is a desktop music player (Python, PySide6). Its application layer is
written as owner-thread services: the Qt GUI thread runs every slot and handler
to completion, worker threads compute facts and hand them back as queued
signals, and SQLite repositories hold the durable state. This directory models
the parts where that discipline is hard to get right, checks them with TLC and
proves the most important results with TLAPS.

Source paths below are relative to `src/src/michi/`.

## 1. Inventory

| Component | State | Operations | Hard behaviour | What makes it correct |
|---|---|---|---|---|
| **Source scan lifecycle** `application/source_scan_lifecycle.py`, `infrastructure/scan_runner.py`, slots in `presentation/library_bridge.py`, teardown in `bootstrap/__init__.py` | queue of sources, generation, active flag, snapshot and epoch of the active scan, registry of rejected generations, published run state; threads and their cancel tokens; signals queued for the owner | scan all / one, add and scan, relocate, cancel, retire, disable, restore, progress, done, shutdown | results that arrive after the user changed his mind; workers that are cancelled but not yet gone; teardown | one scan at a time; nothing stale commits; no request is lost; every run ends |
| **Source configuration and commit gates** `application/source_scan_coordinator.py` | catalog sources, process-local configuration epochs, physical observations | add, relocate, retire, enable, restore; submit, the five gates of the commit, error recording | ABA: a configuration that changes and changes back during a scan | the rows and the observation of a source describe its present configuration; sources never overlap |
| **Reconciliation** same file, `infrastructure/filesystem_source_scanner.py`, `library_catalog.py`, `library_media_cache.py`, `library_index.py` | rows with stable identities, two rebuildable caches, the visible Library | walk, reconcile, relink, mark missing, commit, hydrate, playback gate | files that change during the walk, inode reuse, hard links, remounts; a crash or an I/O error between the stores | an identity follows only its own file; an undisturbed scan shows the disk; caches are never authority |
| **Library service** `application/library_service.py` | visible tracks, derived albums and artists, recent tracks | publication, playback gate, search | only through reconciliation | projections of the tracks |
| **Artwork refresh** `application/library_artwork_refresh.py` | request epoch, active and pending request, manifest | schedule, invalidate, done, shutdown | latest-wins supersession; partial negative evidence | artwork is removed only on complete evidence, then and now; the last request is not lost |
| **Enrichment** `application/library_enrichment_job.py`, `enrichment_coordinator.py`, `enrichment_service.py` | per entity: revision, operation, request, committed knowledge; the job's slots, terminal entities, cancel and shutdown flags | begin, confirm, barrier, cancel, provider terminals; start, cancel, shutdown of a job | an answer that arrives after the entity was cleared or asked for again; bounded admission, cancel against late results | knowledge is what the last accepted answer said of the entity as it is; slots are released exactly once and the job ends |
| **Playback session and queue** `application/playback_session_service.py`, `queue_service.py` | committed context, pending request and epoch, shuffle navigator; queue entries | play in a context, next, previous, end of media, queue edits | acceptance of a superseded request; the queue edited under a pending one | only an accepted request commits; navigation follows entry identity |
| **Playback service and transport** `application/playback_service.py`, `audio_transport_router.py` | transport state, pending load | load, accept, reject, stop | callbacks of an earlier load | one load in flight |
| **Engine selection** `application/audio_engine_selection_coordinator.py`, `audio_engine_convergence_coordinator.py` | preferred, selected and effective engine, step of the transition, lease on the transport, failed engines | select, converge, roll back, retire a dead engine | failure in the middle of a switch; an engine that dies at any step | a switch completes or rolls back, and gives the transport back |
| **Output host** `infrastructure/audio_engines/gstreamer_host_*.py` | child process, calls under way, owner queue, generation of commands | command, callback, close, terminate | process crash, deadlines, callbacks that call back, late messages | every call returns, nothing is left behind |
| **GStreamer port and the other engines** `infrastructure/audio_engines/gstreamer.py`, `mpd.py`, `qt_backend.py` | pipeline, bus watch, generation, pending and accepted media, intention to play, hold of a start; pump thread | load, play, pause, stop, close; messages of the bus | listeners that call back, events that are queued while the command they belong to is undone, commands to the pump that outlive their caller | one pipeline at a time; listeners hear the truth in order; a load is answered |
| **Audio output and DAC** `application/output_session_service.py` and its neighbours | session state, generation, the exclusive card, candidate sinks and executors, cleanup debt; device registry, qualifications | select, prepare, commit, release, hotplug, qualify | a new request while a worker holds the card; device loss during acquisition; a stop that fails | one carrier holds the card; what is superseded gives up what it holds |
| **Output planning, DSD, processing** | none (plans are values) | plan, compile | formats at their limits | planned carrier fits the capability |
| **Persistence** `application/persistence_coordinator.py`, `infrastructure/sqlite_settings.py` | dirty sets, health | save, recover | failed writes, degraded mode | nothing acknowledged is lost |
| **Playlists, navigation, bridges, providers, tools** | projections, stores | owner-thread edits, HTTP | pure I/O for the most part | - |

How they interact. QML calls a slot of a bridge; the slot calls the lifecycle,
which calls the coordinator and hands work to the runner. The runner's thread
emits `done` and `progress` into a relay, connected to the lifecycle's handlers
with `Qt.QueuedConnection`, so they run on the owner thread in the order they
were queued. `handle_done` calls the coordinator's commit, which writes the
catalog, the index and the media cache, publishes to `LibraryService` and
schedules the artwork refresh. The session asks the Library's playback gate
before it asks `PlaybackService` to load.

The hazards this gives rise to are listed, line by line, in `PROJECT.json`.

## 2. Plan

In this order, the most important behaviour first. Done: the source scan
(section 3), reconciliation (4), the playback session (5), the artwork refresh
(6), enrichment (7), engine selection and convergence (8), the output session
(9), the output host (10) and the GStreamer port (11).

Left, in this order:

1. **Persistence**: save coalescing, degraded mode, recovery.
2. **Output planning** (`dop_planner`, `managed_pcm_output_planner`,
   `carrier_resolution`): operators from formats and capabilities to plans,
   checked against a reference over bounded inputs.
3. **Playlists** and the other owner-thread stores.
4. In the modules there are: PAUSED, direct PCM and DSD to PCM in the output
   session; the composition of output session, output host and GStreamer port,
   which each abstract from the others; repetitions within a shuffle cycle; a property about
   the rows that a root which vanishes during the walk marks missing.

Abstract specifications and what implements them: `SourceAuthority` by
`SourceScan` (proved), `KnowledgeAuthority` by `EnrichmentOperations` (proved),
`ArtworkAuthority` by `ArtworkRefresh` (proved).

Proved, of what the runs check: every safety property of every section, each in a
module `...Proofs`; those of the output session under two hypotheses that section 9
explains. Model-checked only: liveness everywhere (`RunsEnd`, `RequestsAreAnswered`,
`LeaseEnds`, `RequestsEnd`, `CallsEnd`, `LossIsReported`, `CandidatesAreAnswered`,
`HeldStartsHappen`), which the proof system cannot reason about.

## 3. The source scan

### Modules

- `SourceConfig`: what a source's configuration is. The root, enabled flag and
  lifecycle form the signature `_remember_sources` compares; `EpochsAfter` is
  its chokepoint; `RootIsFree` is `_ensure_no_overlap`, over a constant relation
  `Overlap` that stands for lexical or physical containment of two directories.
- `ScanLifecycle`: the private state of `SourceScanLifecycle` as one record
  (each field is named after its attribute) and its private methods as
  operators on that record. They call each other in tail position, so a handler
  is a composition. What ends in `_start_next` has several outcomes (`Resume`),
  because its two reads of the catalog may raise: `list_sources` after the pop
  (`ListingRaises`: what was popped is gone), `source_config_epoch` after
  `_active` was set (`EpochRaises`: nothing was submitted that could reset it).
- `SourceScan`: the variables of the coordinator (`config`, `epoch`, `obs`,
  and, per source, the epoch that its durable and its visible rows were scanned
  under), the lifecycle record `lc`, the runner (`workers`, `closed`) and the
  `relay`. One action per slot, per handler outcome and per worker step.
- `SourceAuthority`: the same configuration with a scan as one atomic step.
- `MCSourceScan`: instances. `SourceScanProofs`: theorems.

Correspondence. `handle_done` is split by outcome: `DropResult` (superseded,
stale or cancelled), `RecordError`, `CommitPlan`, `CommitFails` and `GateRaises`
(the gate's own read of the catalog raises, so that `_finish` is never reached);
the guards are exclusive but for `CommitPlan`, `CommitFails` and `GateRaises`,
which the database decides. A worker is one `FinishWork` because it shares nothing with the owner
while it runs: what it read is in its job, what it computes is the subject of
`Reconciliation`. Progress is collapsed into one report per worker. `Shutdown`
is the teardown sequence `cancel`, `shutdown`, `disconnect_relay`, which runs
without returning to the event loop; what Qt had already queued may still be
delivered or be lost (`LoseMessage`).

`history` is not state of the program: it records what the user asked for, what
was rejected and what was committed, for the properties only. Neither is
`lc.raised`, which says that a read of the catalog raised in `_start_next` or in a
gate. Nothing in the code repairs what that leaves: a source popped from the queue
whose scan never started, or an active flag that nothing will reset, after which
no scan runs until the program is restarted. `RequestsStand` and both liveness
properties therefore hold until a read raises. All other properties hold after it
too: what is stuck does not scan twice, commits nothing stale, starts nothing the
user withdrew, and keeps the first failure.

Abstractions. Errors carry a non-empty message (the diagnostic kept for the user
is the first one). A source is added under an id not yet used, or reactivated;
names are left out. `ScanCancelled` reaches the owner only from a generation it
rejected, since only the owner sets tokens; the model does not rely on it.
Scheduling the artwork refresh after a commit is firewalled by a broad `except`
and has no effect on this state. The catalog is written only by this process.
Of the exceptions nobody catches, two are left out: a catalog read that raises
after an edit of the sources was written, and a thread that cannot be started.

### Runs

| Run | Instance | What it shows |
|---|---|---|
| `SourceScanSafety` (1.9 million states) | 2 sources, 3 roots of which two overlap, any initial catalog, 3 intents | the invariants about results, requests and sources, `NothingIsForgotten` (`RequestsStand`, `FirstFailureIsKept`), `StartsOnlyWhatWasAsked`, and that `SourceScan` implements `SourceAuthority` |
| `SourceScanLiveness` | 2 sources, 2 roots, 2 intents, `FairSpec` | `RunsEnd`, `RequestsAreAnswered` |
| (`SourceScanLostRequest.cfg`) | as the first | a reproduction: `NoRequestIsLost` fails |

A configuration in brackets, here and below, is kept beside the project to
reproduce a disagreement described under Results (`tlc -config X.cfg MC...`).

Bounds. The only bound in a guard is `MaxIntents`: user intents are what creates
work, and every other action consumes it. Three intents are the fewest in which
a scan can be started, superseded and asked for again while it unwinds, and any
of them can also act on a second, queued source; every mutant in `PROJECT.json`
is caught within them. Two sources suffice for serialization and queue order,
three roots for an overlap besides a free place to move to. The theorems below
hold without these bounds. Deadlock is not checked: the program legitimately
stops when the intents are spent and after `Shutdown`. The sets of sources and
roots are symmetric where the overlap relation allows.

Fairness. `FairSpec` assumes that some running worker finishes
(`WF` on `FinishWork`: a walk and the extraction of its files are finite and the
thread is never blocked on the owner) and that the owner handles what is queued
(`WF` on `OwnerNext`: Qt delivers queued signals as long as the event loop
runs). Nothing is assumed of the user, and both properties allow the program to
be closed.

Result. The registry of rejected generations is what stops stale plans;
`StaleIsRejected` shows that the epoch gates behind it are never reached.
`SourceScanLostRequest` is a disagreement between code and documentation:
`_enqueue` takes a source whose *rejected* scan is still unwinding for one being
scanned, so *disable, restore* during a scan leaves the source enabled, UNKNOWN
and never reconciled, though `restore_source` promises to reconcile it. All other
requests stand (`RequestsStand` excludes exactly those).

### Proofs

For all finite sets of sources, all roots with a reflexive and symmetric overlap
relation, and any number of intents (`SourcesAssumption`, `RootsAssumption`,
`NoSourceAssumption`, `MaxIntentsAssumption`):

- `SourceScanProofs` proves `Spec => []Inv` and from it `TypeOK`,
  `SingleFlight`, `StaleIsRejected`, `RejectedNeverCommits`,
  `ObservationIsCurrent` and `RetiredIsHidden`. None of these is inductive
  alone. `Inv` adds what they rely on: only the active generation is ever in the
  registry of rejections (`RejectionInv`); unless it is rejected, the snapshot
  and epoch of the scan in flight are the present ones of its source
  (`SnapshotInv`), which is what every configuration change must re-establish by
  invalidating or rescheduling; what was rejected or committed concerns the
  generations so far, and the rejection of the one in flight is remembered until
  its result arrives (`HistoryInv`). These, with the types and the theorems'
  own formulas, are its three parts `LifecyclePart`, `AuthorityPart` and
  `EnvironmentPart`. Lemmas say what each operator of `ScanLifecycle` does to the
  scan in flight (keeps it, ends it, or starts one with the present
  configuration); the step proof has one case per action.
- It proves `SourcesAreDisjoint`, inductive by itself because a root is checked
  against every configured source, retired ones included; `Consistent`, which
  joins it with `TypeOK` and `SingleFlight`; and `NothingAfterShutdown`, from an invariant that after teardown every result in
  flight belongs to a rejected generation. It also proves `NothingIsForgotten` and
  `StartsOnlyWhatWasAsked`, from `RequestInv`, in two parts. `QueueInv` holds
  always: only what was asked for is queued, nothing twice, nor behind a scan of it
  that will still commit, and the diagnostic is that of the first failure (`Tidy`).
  `ServiceInv` holds until a read of the catalog raises: an idle lifecycle has
  nothing left to do (`Sound`), what was asked for is in hand (`Standing`), and a
  done signal is the last one of its generation (`SignalsInv`). Each method has two
  lemmas accordingly (`TakesFrom` or `TakesOff`, and `Serves` or `Drops`).
- It ends with `Refinement`, for `ImplementsAuthority`: a commit of a plan is the atomic `Reconcile`, since by `Inv` the captured epoch is the
  present one.

`RetiredIsHidden` and `NothingAfterShutdown` are proved and no longer checked by
a run. Model-checked only: the two liveness properties, which are out of the
prover's reach.

## 4. Reconciliation

### Module

`Reconciliation` follows one source. The environment changes the files
(`CreateFile`, `EditFile`, `DeleteFile`, `MoveFile`, `LinkFile`, `Remount`); the
worker stats one path at a time (`StatFile`), then reconciles one file at a time
(`ReconcileFile`), because each reads the disk separately, then plans the missing
rows (`MarkMissing`); the owner commits (`CommitPlan`), relocates, refuses to
play a missing file (`PlayMissing`) or restarts. `KnownAt`, `Unchanged`,
`Candidates` and `Relinkable` are the cases A and B of `_reconcile_available`.
The catalog (`rows`), the media cache (`cache`), the index and the visible
Library are separate stores written one after the other, and `Outcomes` says how
far those writes may get: the index error is swallowed, a media cache error ends that loop, and a
crash may come after either.

`Init` is an empty catalog, or one that `LibraryIdentityMigration` made from an
older version (`LegacyRows`): a row of unknown availability for every path the
old index has, and for every path that only a favourite, a playlist, the history
or the session refers to. `Legacy` says which of the two kinds a run has.

Abstractions. A content is the number of the change that wrote it, and stands
for size, mtime and tags: like the code, the model takes equal size and mtime
for equal content. A node is a usable (device, inode) pair; file systems that
report zero are not modelled. The tree of directories is flat. A media file id
and its track id are one identity, since they are written in one transaction.
That scans do not overlap is taken from `SourceScan` (theorem `Serialization`),
so a scan here commits, or is abandoned at any point.

### Runs

| Run | Instance | What it shows |
|---|---|---|
| `ReconcileRaces` (0.5 million states) | 2 paths, 2 roots, 2 nodes, 3 media; an empty catalog or a migrated index; all six kinds of change, idle and racing; 4 changes | `Consistent` (types and `OneIdentityPerPath`), `RelinkIsTheSameFile`, `QuietScanSucceeds`, `ShowsTheDisk` |
| `ReconcileFaults` (0.3 million states) | 2 paths, 1 root; create, edit and delete; crash and media cache errors | `ShowsTheDisk` |
| (`ReconcileReturn.cfg`) | create and delete | `HydratesLastObserved` fails |
| (`ReconcileIndexLost.cfg`) | create, delete; no fault; rows that only user state refers to | `QuietScanSucceeds` fails |
| (`ReconcileRemount.cfg`) | create, edit, remount | `MetadataIsFresh` fails |
| (`ReconcileMerge.cfg`) | 3 paths; create, delete, move; media cache error | `RelinkIsTheSameFile` fails |

Bounds. `MaxChanges` limits the changes to the files; scans, relocations and
restarts are unbounded. Four changes are enough for a file to be created, moved
or linked and replaced with a scan before, between or during any of them, and
two paths for every ambiguity of the relink evidence: two names of one file and
two files of one name. Three media let a path be given a new identity twice.
`Paths`, `Roots`, `Nodes` and `Media` are symmetric. Deadlock is checked.

`ShowsTheDisk` excludes states in which a content, or a former root, has come
back (`history.returned`), because of `ReconcileRemount`. `ReconcileFaults`
leaves out index errors, after which an unchanged file shows what the index had
before, and moves, because a crash before the index write leaves a stale entry
at the target of a move.

Results. The four reproductions were each confirmed with the program itself:

- a row once MISSING whose file is found again at the same path is never written
  again: the branch for it tests a condition that cannot hold for a discovered
  path, and after a restart the track shows as missing although the last scan
  showed it;
- a missing row without an index entry makes the scan extract metadata from the
  missing file, so every scan of the source fails until the file is back. A migration
  leaves such rows without any fault (`ReconcileIndexLost.cfg`: a favourite
  whose file is gone and which was never indexed), and so does a lost index
  write (the same configuration with `Faults = {"index"}` and `Legacy = {}`); the
  index repository swallows its write errors, so the outcome is not even marked
  degraded;
- an unchanged file takes its metadata from the index by absolute path alone: a
  source that is relocated away and back shows the tags of former contents;
- the evidence for a move is as old as the last successful write of the media
  cache: after a failed write, an identity can follow the wrong file.

### Proofs

`ReconciliationProofs` proves all four properties, for any paths, roots, inodes
and ids and any number of changes (`ChangesAssumption`, `NoneAssumption`;
`MediaAssumption`, that the ids are finitely many, is what counting candidates
needs):

- `CatalogConsistent`: `Consistent`, whatever fails. `OneIdentityPerPath` is
  inductive once the catalog's plan is known to be injective
  (`MediaOfInjective`): a path is added or relinked only when no row has it, a
  row is relinked to one path only, because the evidence must be that of one
  path, and a new id is not in use. `Inv` adds that what the Library shows are
  rows (`RowsInv`), what a scan has collected (`PlanInv`) and what it lists as
  lost (`LostInv`).
- `ScanReachesPlan`: `QuietScanSucceeds`, unless a commit can end before the index
  is written or a migrated row was never indexed. It rests on `RowsAreIndexed`, and needs no quiet: no scan that has
  read its files fails at a missing row.
- `RelinkFollowsTheFile`: `RelinkIsTheSameFile`, when the media cache is always
  written. It rests on `CacheIsSeen`.
- `LibraryShowsTheDisk`: `ShowsTheDisk`, without index errors, and without moves
  and links if a crash may cut a commit short. Its core is `IndexIsFresh`,
  `MetaIsFresh` and `FoundIsFresh`: a path that holds the content it was last
  seen with has held it all along, so what the index has for it is of that
  content. They fail as soon as a content comes back, which `PastInv` (whatever
  was seen is in the past) turns into `history.returned`. `QuietInv` says that a
  quiet scan has found what is there, `OnePlaceInv` that without moves nothing is
  ever relinked.

The hypotheses about `Faults` and `Legacy` stand in the theorems, and each is needed:
`QuietScanSucceeds` fails with a row that was never indexed
(`ReconcileIndexLost.cfg`), with an index error and with a crash, `RelinkIsTheSameFile` with a media cache error (`ReconcileMerge.cfg`),
`ShowsTheDisk` with an index error, and with a crash once files move among three
paths.

## 5. The playback session

### Modules

- `ShuffleNavigator`: the pool and the history of the shuffle as a record, and
  the methods of the class as operators. The pool is a bag: `previous_pick` can
  put an entry back that is already there.
- `PlaybackRequests`: the request state of `PlaybackService` as a record and its
  methods as operators. A request is prepared by the output, loaded and played,
  then accepted or rejected by the engine. `prepare` is the preparation whose
  completion would still pass the epoch guard; a newer one takes its place, which
  is what incrementing `_request_epoch` does to the older. Media that a managed
  output has loaded while it prepared is `claimed`: the preparation then goes on,
  in the same epoch, until the engine has verified the claim, and only then does
  the output commit, the media play and the acceptance be published. A handover
  or a stop in between takes its place like that of any other preparation.
- `PlaybackSession`: `QueueService` (`queue`), `PlaybackSessionService`
  (`session`, `nav`) and the service (`service`). The three live on the owner
  thread, so an intent, with the nested calls it makes, is one action: a queue
  edit includes `on_queue_changed`, and that may include `stop`. The answers of
  the output and of the engine are actions of their own: `Prepared`, `Refused`,
  `Raises`, `MediaAccepted`, `MediaRejected`, `EngineLost`, `EndOfMedia`. The two
  verdicts are those of the engine on a load and those on a claim: what follows
  a confirmed claim (`_on_managed_adopted`) is an acceptance that waits for
  nothing, what follows one that fails, or whose commit, play or start does, is
  a rejection of the pending path.
- `MCPlaybackSession`: the instance.

The callbacks that `_request` hands to `load_and_play` are closures. What they
captured is the `call` of a request: the context, its entries, the candidate's
index, and whether the captured epoch is still the session's (`live`). Next,
Previous and end of media are written once for both kinds of sequence:
`Sequence` and `Position` are the live queue and the place of the active entry in
it for a queue, the committed snapshot and its index otherwise. `NextTargets` is
every step the random draw allows.

`history` is not state of the program. `accepted` is the entry the session
committed last. `dropped` and `diverted` say that something has come between a
request and its answer, or between what was committed and what plays: an
exception in the continuation, a handover, a retry, a failed stop, a rejection of
an earlier load of the same path. Each is counted from the action where it
happens until the next request (`dropped`) or commit (`diverted`), so the
invariants still speak about everything else, and about what follows.

Abstractions. An entry keeps its path (the re-resolution of a moved track by its
library identity is left out), and playlists are treated like albums, which the
code does not tell apart either. Position, volume, status and messages are left
out. The engine reports at most one verdict per load; which of what it held when
it was asked to load something else survives is not known, so only the last load
answers. An acceptance that the engine reports while a claim is verified is
latched and has no effect. Engine switches hold an exclusive lease: section 8.

### Runs

| Run | Instance | What it shows |
|---|---|---|
| `PlaybackRaces` (1.1 million states) | 3 entries, 2 paths, a queue and albums of at most 2, all four kinds of fault, 3 intents | `Consistent` (types, `CurrentIsAccepted`, `PendingIsQueued`), `PlaysTheCurrent`, `PendingIsUnderWay`, `NextIsTheSuccessor` |
| (`PlaybackForgotten.cfg`) | exceptions only, 2 intents | `NeverForgotten` fails |

Bounds. `MaxAsks` limits what the user asks for, edits of the queue and changes
of the output included; answers, and the requests that the end of a track makes,
are not limited. Runs start from every session that can be restored, so three
intents are three steps from the middle of a session: a queue entry can be
requested, moved or removed, and something else requested before the first
answer. Two entries are enough to move one past the other, a third is always new,
and two paths among three ids make duplicates. `MaxHistory` cuts off runs whose
shuffle history would get longer than 3. Ids and paths are symmetric. Deadlock is
checked.

Results. Both were confirmed with the program's own classes:

- when `load` or `play` raises after an asynchronous preparation, no callback is
  called and the session waits for ever; since it ignores the end of media while
  it waits, the track that goes on playing is the last one;
- the shuffle pool is not renewed when the context changes, so after a change of
  album `has_next` is true and `next()` does nothing until the entries of the
  former album are used up; without repeat the new album is not shuffled at all
  (`HasNextIsNext` fails with two intents and no fault).

What the exclusions of `PlaysTheCurrent` stand for is real as well: a handover
prepared while the next track is accepted reloads the former one, and a retry
plays a track the session never commits.

### Proofs

`PlaybackProofs` proves the four properties of the run, for any entries, paths and
albums, any number of intents and any faults (`NoRequestAssumption`: the absence of
a request is told apart from a request). The invariant has two parts beside the
types. `SessionInv` is the session with its queue: what is current was accepted,
what is pending is still in the queue, the context is one that was opened.
`RequestsInv` is the session with the service, and only as a whole inductive:

- `CallsAreOurs`: a request, wherever it is (prepared, loaded, accepted), carries
  the candidate, the entries and the context the session had when it asked, and
  is live exactly if the session still waits for it. An acceptance commits what
  is in the call, so this is what makes `CurrentIsAccepted` a fact about an answer.
- `PreparationIsTheRequests` and `PlayedWhenPrepared`: the preparation under way
  is that of the pending request, and a claim has one, and what the engine plays was prepared.
- `NothingElsePlays`: what plays is either what was committed or a request the
  session made, but for what `history` names.

`SessionPlaysTheCurrent` and `SessionIsAnswerable` follow from it, and
`NextFollowsTheAccepted` from `CurrentIsAccepted` and the identity of entries: Next
looks the accepted entry up by its id in the queue there is now. The selection
of the live entries from pool and history is the function `Retained` of
`ShuffleNavigator`, since nothing is known to the prover about `SelectSeq`.

## 6. The artwork refresh

### Modules

- `ArtworkAuthority`: the promise. The Library changes, each change asks for its
  albums to be probed, and an answer may show a picture that was there at some
  time since the request, and may take one away only on exhaustive evidence.
- `ArtworkRefresh`: `LibraryArtworkRefresh`. `refresh` is its record (request
  generation, active generation, pending request), a worker reads one track at a
  time (`ReadTrack`), and `HandleDone` is `handle_done` with the second look the
  owner takes before it believes negative evidence (`Accepts`). `ScanCommits`,
  `SourceIsLost`, `SourceRetires` and `GoesMissing` are the changes of the
  Library that call `schedule`; `FileChanges` is the disk.
- `MCArtworkRefresh`: the instance.

Abstractions. One read per track stands for the two passes over the tags and the
directory. The legacy path without a tri-state probe, `invalidate()` (it has no
caller), a restart, and a thread that cannot be started are left out. A blob may
be gone when its picture is to be committed (`is_file` in `commit_manifest_batch`):
the album keeps what it had, and `ShowsTheDisk` waits for the next request. Once
committed, blobs stay on disk, so a cached picture can always be shown. The
membership signature of the code tells the order of the members too; `Accepts`
compares sets, because the order changes only where albums are rebuilt, and every
rebuild asks for a refresh, whose generation makes the result stale before its
signature is looked at.

### Run

`ArtworkRaces` (0.4 million states): 2 tracks of 2 sources in one album, one
picture, 3 requests, one change of the files. `Consistent` (types, one worker,
the latest request waits for it, the Library and the cache agree),
`ShowsTheDisk`, `ImplementsAuthority`, `RequestsEnd`. Three requests are one
under way, one waiting and one that replaces it; two tracks in two sources are
the smallest album whose evidence can be partial. Deadlock is not checked: the
requests end.

Fairness: workers run (`WF` on `WorkerNext`, finite reads) and the owner's queue
is served (`WF` on `HandleDone`). `RequestsEnd` needs both.

Result. The refresh holds what it promises; the owner's second look is what makes
it so, as the mutant `AcceptsAsProbed` shows.

### Proofs

`ArtworkProofs` proves the three safety properties for any tracks, albums, sources
and pictures and any number of requests (`NoneAssumption`, `NoRecordAssumption`).
`Flight` says that what flies is the worker of the active generation or its
result; `Coalesced` that what waits is the latest request. The hard part is
`Evidence`: whatever the worker of the latest request has found was on disk at
some time since that request, and where it found nothing for certain there was
nothing in any member (`Witnessed`); `SeenIsKept` records what was. From these
follow `RefreshShowsTheDisk` and `RefreshImplements`: a result that passes the
gate and the second look is an answer `ArtworkAuthority` may give. `RequestsEnd`
is model-checked only.

## 7. Enrichment

### Modules

- `KnowledgeAuthority`: identity and knowledge of each artist and album as one
  atomic step per decision. A MANUAL identity is never replaced by a provider's.
- `EnrichmentOperations`: `EnrichmentCoordinator` over `EnrichmentService`. A
  worker's operation is split where the code takes no lock: `Look`, the request
  gate (`Gate`), the checkpoints between fetches (`Notice`), the commit gate
  (`Commit`). The user begins, cancels, confirms, resets and clears from the
  owner thread; the last three cancel the token first and reach the service's
  barrier in a second step.
- `EnrichmentJob`: `LibraryEnrichmentJob`. Admission, the pool, slots, phases,
  the answers of the coordinator, cancel, shutdown and restart.
- `EnrichmentEntities`: the artists and albums that both speak about.
- `MCEnrichment`, `MCEnrichmentJob`: instances. `EnrichmentProofs`: theorems.

The coordinator's answers in `EnrichmentJob` are what `EnrichmentOperations`
guarantees: every operation begun ends exactly once.

Abstractions. Answers are found, ambiguous, unknown or failed. Exceptions of the
repository, the projections for the user interface, and operations that are still
queued in the executor at shutdown (they are dropped there) are left out. In the
job an entity that fails locally frees its slot and is not told apart otherwise.

### Runs

| Run | Instance | What it shows |
|---|---|---|
| `EnrichmentRaces` (1.7 million states) | an artist and its album, 2 identities, 3 operations, one confirm, reset or clear | `IInv` (with `NoResurrection`), `ImplementsKnowledge` |
| `EnrichmentJobRuns` (0.2 million states) | 2 artists, 1 album, 2 slots, 2 runs | `Consistent`, `RunsEnd` |
| (`EnrichmentOffline.cfg`) | as the second | `Ends` fails |

Three operations and a barrier are one that is overtaken by the barrier and by a
newer one, and one more for the artist its album depends on. Two slots with two
artists fill the job; a second run meets the late answers of the first.

Fairness of the job: its own thread, its pool, the coordinator's answers (every
provider call has a timeout) and a requested `cancel_all` go on. `EnrichmentRaces`
states no liveness.

Results. `_on_state` has no branch for OFFLINE and DISABLED, so one such answer
keeps its slot for ever and `start()` does not return (`EnrichmentOffline.cfg`),
against `docs/TECHNICAL_DEBT_REGISTER.md`, which lists both as terminals that
free the slot. `start()` runs on the thread of the caller, which for the bridge
is the owner. Besides: a Cancel during PREPARING is overwritten by RUNNING and
ends COMPLETED; an operation asked for between the cancel check and the snapshot
of `cancel_all` is not cancelled; `_terminal_entities` survives a second run of
the same job object (the bridge makes a new object per run).

### Proofs

`EnrichmentProofs` proves, for any artists, albums and identities and any number
of operations (`ArtistOfAssumption`, `BoundsAssumption` and `NoneAssumption`
in `EnrichmentOperations`):

- `InvariantHolds`: `Spec => []IInv`. Its parts support one another.
  `OneAuthority` says that the coordinator's registry and the service's
  generation agree about who may commit: an operation that nobody cancelled is
  the one both name. The two are written under different locks, and between the
  two steps of a manual barrier they disagree, which the part must allow: there
  a cancelled operation is still current. So `BarrierCuts` is needed, which says
  that whatever works on the entity of an open barrier was cancelled before it;
  without it the second step would retire an operation the registry still holds.
  `ReadsStand` (what a worker read without the lock is so when it reaches its
  gate) and `PendingIsCurrent` follow from the generation that every change of an
  identity advances, and `ProfileIsAboutIdentity` from the two. `ClearedIsOver`
  makes `NoResurrection` inductive: no operation as old as the clearing is current.
- `ClearedStaysCleared`: `NoResurrection`, from the invariant.
- `KnowledgeRefinement`: every step of a thread is a decision of
  `KnowledgeAuthority` or invisible, under the mapping in which knowledge is what
  the profile is about. A worker's resolution and delivery map to its steps
  because `ReadsStand` and `PendingIsCurrent` say what it carries is still true.

It also proves `Consistent` of the job (`JobConsistent`), for any artists, albums, number
of slots and of runs (`JobBoundsAssumption`, `KeysAssumption` in `EnrichmentJob`):
an entity waits, is in work once, or has ended (`OnePlace`, `OnePhase`), so the
entities in work can be counted against the slots (`Slots`, a statement about
cardinalities), and unless an end was not heard none is forgotten
(`AllAccounted`), which is `CompletedIsComplete`. `RunsEnd` is model-checked only.

## 8. Engine selection and convergence

### Modules

- `SwitchedPlayback`: `PlaybackService` as a switch sees it, a record and its
  methods: the request pending, the preparation under way, and the lease that
  keeps everybody else from starting playback.
- `EngineSwitching`: the selection coordinator, the convergence coordinator, the
  router and the providers. A transaction is one call on the owner thread; it is
  split into the steps between which an engine may die (`StopTransport`,
  `DetachSource`, `CloseSource`, `OpenEngine`, `BindEngine`, `UndoOpen`, `Retire`). `HandleFailure` is the report of a dead
  engine, delivered from the owner's queue and dropped if it is not about the
  runtime that is active.
- `MCEngineSwitching`: the instance.

Abstractions. Position, volume and mute are not carried over; the output is an
oracle that prepares, refuses or commits. The adoption of media that a managed
output has loaded is no stage of its own here, as it is in section 5: it pends
and is answered like a load. The router's unbind does not raise.

### Runs

| Run | Instance | What it shows |
|---|---|---|
| `EngineRaces` (0.3 million states) | 3 engines, 4 intents, 2 deaths, all four kinds of fault | `Consistent`, `RestIsTruthful`, `OnlyTheDeadAreDropped`, `LeaseEnds` |

Three engines are needed for a switch between two that are not the fallback; two
deaths for one during the handling of the other. Four intents are two switches
with something to play between.

Fairness: a transaction goes on by itself (it is one call), the owner's queue is
served, the output answers and the timer fires. The engine is not assumed to
answer: `LeaseEnds` holds because `RehydrationTimesOut` does.

Results. What the disagreements have in common is an exception at a place where
none is caught. `converge_after_engine_loss` calls `release_active` unguarded, so
a release that fails leaves the dead engine READY, against the comment in
`audio_engine_convergence_coordinator.py:344` (`ReadyIsAlive` fails with that
fault). An output that refuses to commit
what a rehydration loaded leaves the lease held for ever, against
`audio_engine_selection_coordinator.py:452` (`LeaseIsOwned` fails). An engine that cannot be closed stays
open beside the next one, against line 109 there (`MaxOneOpen` fails when close
may).

### Proofs

`EngineProofs` proves `Consistent`, `RestIsTruthful` and `OnlyTheDeadAreDropped`, for
any engines and any number of intents, deaths and faults (`NoTaskAssumption` tells
the absence of a transaction from one). A transaction is many steps, so the
invariant says, for each of the places it may be at, which engine is in hand
(`Held`), that nothing else is open but what could not be released (`Holding`), and
what is presented meanwhile (`Presented`, `Preferred`). `Reported` says that a report
is about a runtime that died and is still held, and that a death is reported
unless it is being handled: `OnlyTheDeadAreDropped` is the first half and
`ReadyIsAlive` the second. `Leases` says whose the lease is while a switch runs
and after it. `LeaseEnds` is model-checked only.

## 9. The output session

### Module

`OutputSession` is `OutputSessionService` with the requests of `PlaybackService`
and the executor that the host process holds. One request is one execution, its
plan and its token. A preparation is characterized by a worker (`Characterize`)
and then either acquires at once (`Acquire`, when nothing is prepared) or waits
for the owner to hand the device over: `BeginHandover`, `Release` by a worker,
`CompleteRelease`, acquisition by a worker, `CompletePrepare`. Completions reach
the owner in any order. A release or an abort is answered with the truth, is lost
on the way, or is not heard of (`a` in the actions), as far as `MaxFaults` allows.

Abstractions. The families of exclusive execution are one slot, since each
`begin_*_session` aborts what any other family has prepared. Direct PCM and DSD to
PCM are handed over like DoP and left out; so are PAUSED, the synchronous
`prepare_for_media`, processing, telemetry, a second device and a transport
whose stop raises.

### Runs

| Run | Instance | What it shows |
|---|---|---|
| `OutputRaces` (1.4 million states) | 3 requests over 3 families, 2 events, 1 failed command | `Consistent`, `HandoverIsExclusive`, `SupersededHoldsNothing` |
| (`OutputNewer.cfg`) | as above, one event, no fault | `NewerIsUntouched` fails |
| (`OutputObsolete.cfg`) | 2 managed requests | `NewerSurvives` fails |
| (`OutputClock.cfg`) | 4 managed requests, one event, no fault | `ClockIsFresh` fails |

Three requests are a prepared one, a handover that replaces it and one that
supersedes the handover; two events put a stop or a loss before and after it.
No liveness is stated: a request that waits for an unconfirmed cleanup is refused,
not retried.

Results. A DoP handover whose release is confirmed late reconciles even when a
managed session was committed meanwhile: it drops the token and sets READY to
IDLE under it (`OutputNewer.cfg`), against the comment at the call. The worker of
an obsolete fast-path preparation replaces the host's newer execution and then
aborts it (`OutputObsolete.cfg`). `SupersededHoldsNothing` leaves native DSD out,
whose executor reports an abort that failed as stale, and excuses a cleanup that was
overwritten (`session.forgotten`) after two
faults: a second quiet abort then settles the cleanup kept for the first (a
managed candidate that was superseded is aborted, the command raises, and its
cleanup is kept; the device goes, and another managed candidate is aborted twice:
the first abort raises and overwrites the cleanup, the second settles it, and the
host still holds the first candidate). Refusing a handover puts
`_async_prepare_generation` back (`_begin_handover`), so that a later stop or
request may advance it to a number that a superseded preparation still carries, and
that one is current again (`OutputClock.cfg`); with eight requests two handovers
then release the same execution, which `HandoverIsExclusive` excuses
(`prep.repeated`; in `OutputRaces` no number is ever repeated).
`retry_pending_cleanup` has no caller, so a cleanup that was never confirmed
blocks the device until the next confirmation by chance.

### Proofs

`OutputProofs` proves the three properties for any families, requests, events and
faults (`OutputAssumption` in `OutputSession` only types the constants).

- `SessionIsConsistent`: `Spec => []Consistent`, without hypotheses. Its invariant
  `BaseInv` also says what each phase of a request may refer to (`Phased`,
  `Referred`): what a handover takes the place of was answered or superseded and is
  of an exclusive family. Every helper that takes a session (`Cleared`, `Yielded`,
  `Lost`, ...) has a lemma of its own that it keeps `Good`, since a step composes
  up to four of them.
- `ClockIsFreshForThree`: until four requests were asked for, the clock has come to
  no number that a preparation under way has, whatever fails and whatever happens.
  It falls behind one only when a handover is refused, and then there are the
  refused request, the handover that has the reservation, the execution both
  release, and the preparation asked for between the two (`RefusedIsFourth`). Its
  invariant `FreshInv` holds `ClockInv` as long as nothing was repeated.
- `HandoversAreExclusive` proves `HandoverIsExclusive` for any number of requests,
  events and faults. Of `ClockInv`, `Clocked` says that preparations under way
  carry different numbers, that none is later than that of a current one which has
  not reserved its release, and that the reservation is of a handover that releases
  or has released; `Successive`, that an execution which an earlier preparation
  observed and a later one did not is prepared no more; `Unrepeated`, that a handover
  which lost the reservation releases what is prepared no more, and that no current
  preparation is going to release it again. `HeldInv` follows the answers of the
  host: a released predecessor that is held all the same was answered "stale"
  (`Unheld`), and one that is held though the session gave it up is no longer the
  business of any current preparation (`DroppedIsStale`).
- `SupersededIsStopped` proves `SupersededHoldsNothing`, for any number of requests,
  events and faults. The host holds only what was prepared (`HeldIsKnown`), and a
  cleanup that is remembered is of an execution that ended and never of the one
  Playback waits for (`Unconfirmed`, `AwaitedIsSure`), so that settling it is right,
  up to one fault. Beyond, `Remembered` says that an execution the host holds for a
  request that was replaced is remembered, or that a cleanup was overwritten.

Nothing is assumed of the clock or of the number of faults: where the code itself
breaks the promise, the property says so, by the two history fields
`prep.repeated` and `session.forgotten`, which no guard reads. The first of the
three theorems says how far the first excuse is away, and `OutputClock.cfg` shows
that it is real from the fourth request on.

A release that is not confirmed but did not raise counts as confirmed once the
session has given the execution up (`Confirms`). Of DoP there is no such release:
`abort_dop` raises for each answer that does not prove one
(`_require_confirmed_release`), so the model has it for the other families only.

## 10. The output host

### Module

`OutputHost` is one incarnation of the process that plays for the hosted
GStreamer engine, and the parent's side of it: `GStreamerHostSupervisor`
(commands with deadlines, the termination ladder, the reader thread),
`GStreamerHostedAudioPort` (the generation of commands, the owner queue) and the
provider that opens and closes them.

The threads are the owner, workers, the reader, and "nested": the call that the
owner's Qt loop begins while the owner waits. `calls[t]` is the place of thread
`t` in `_command`, `shutdown` or `_terminate_process`; `down` and `up` are the
directions of the socket; `child` is the loop of `gstreamer_host_process.py`,
with the chunk it has decoded, what it has deferred and the callback it waits
for. `queue` is the port's owner queue, run by whoever waits (`Drain`).

Abstractions. One kind of command, "load", moves the generation and may call
back; stop is like it. Events, malformed frames and a host that cannot be spawned
are left out. A host that answers after the deadline is not told apart from one
that hangs. The nested loop begins one call at a time, and no second close while
one is under way. What a call returns is one step with the end of the ladder.

A command takes three steps before it is on the socket: `_load_once` moves the
generation under the lock, even of a port whose host was lost (`Load`); `_submit`
takes the lock again, refuses a port that is closed or lost, and reads whatever
generation is current by then (`Capture`); and the supervisor sends it (`Send`). The
end of `close()` is a step of its own after the ladder (`EndClose`): the executor
gives up its Direct execution and the port is closed, or the executor raises and
the port stays open, for another `close()` (`ReleaseFails`, the fault "release"; the
execution may or may not be forgotten by then). The instant in which `_closed` is
set before it is taken back is not told apart: a command that comes then is refused
either way. The host may answer SHUTDOWN with a fault, when a managed backend that
`HostEngineSession.close` closes before the port raises: it then keeps its engine
and goes on, until the parent ends it (`Serve`).

### Runs

| Run | Instance | What it shows |
|---|---|---|
| `HostRaces` (0.7 million states) | owner, nested and one worker; 2 loads or callbacks of the host's own; one fault: the host dies, hangs or cannot be killed, a callback takes too long, or the executor cannot release its execution; a Direct execution | `HostConsistent` (types, `NobodyWaitsForTheDead`, `NothingIsLeaked`), `CallsEnd`, `LossIsReported` |
| (`HostCallbacks.cfg`) | no fault | `CallbacksAreCurrent` fails, and without it `NoCommandIsStranded` |
| (`HostLossMissed.cfg`) | host that dies | `LossIsNeverMissed` fails |

Opening and closing are not bounded (one incarnation has one of each, close can
be repeated); two pieces of work put a command of one thread, or a callback of
the host's own loop, in the middle of another's. Every disjunct of the
next-state relation fires. Deadlock is not checked: after the close nothing is
left to do.

Fairness is one `WF` on all the steps that threads, reader and host take by
themselves. It is weak because no step undoes another; deadlines, callbacks that
come too late and the death of the host are not assumed, except for a deadline
that nothing else can end: `Timeout` needs that no answer can come
(`Unanswerable`).

Results. `CallsEnd` is what the drain inside every wait is for. The stranded command
was reproduced with the program's own classes: a command that arrives while the
host waits in a callback that its Qt loop made is deferred and forgotten until
another frame comes, and one that shares a chunk with the reply is dropped; either
way the parent kills an idle host at the deadline. Besides: the generation of a
callback is compared before it is queued, not when it runs; a port that could not
be reaped is dropped by its second close (`ReleasedIsReaped` fails); the ladder waits one second for a
reader that may wait ten for a callback, and then the loss is not reported; an
engine that dies in the last moment of being opened is presented READY. The owner
queue is also run by workers that wait, so callbacks and losses are not confined
to the owner thread, which the other models assume of what they receive; a late
answer to a callback sets the child's generation back, so that its later events
are dropped as stale.

### Proofs

`OutputProofs` also proves `HostConsistent` of the host (`HostLeavesNobodyBehind`),
for any workers, faults and bounds (`HostAssumption` in `OutputHost`). The
difficulty is that several threads may climb the termination ladder at once, each
with its own idea of how the host ended. `HostInv` says:

- `Threaded`: only the owner opens, and nobody else calls while it does; only the
  reader retires; and whoever waits for the reader to end has closed the socket and
  knows a kind of termination that fits what became of the host (`Fits`). Death is
  final, so all of them agree, and the last to finish may overwrite the kind.
- `Ended`: a supervisor without a process has no socket, so that a command which
  comes too late is refused rather than sent to nobody.
- `Opening`: while the host is greeted, a loss, a closed socket or a reader that
  retires means that the host is gone already: `open()` that gives up because
  of a loss leaves no process.
- `Threaded` also says that whoever ends a close knows how the host ended, and by
  then the host did.
- `Closed`: a port that is closed but not dropped is one whose close reported a
  process that could not be killed; so the second close, which drops it, leaks
  nothing that was not reported.
- `Blocking` and `Served`, for the types of what the reader and the host handle.

What a step of a thread may do to these is stated once (`ControlStep`) and shown to
keep them (`ControlKept`); then each action is shown to be such a step. `CallsEnd`
and `LossIsReported` are model-checked only.

## 11. The GStreamer port

### Module

`GStreamerPort` is `GStreamerAudioPort` and its bindings: one playbin3 pipeline
at a time, the owner thread that runs the commands and decides, and the pump
thread that turns the messages of the pipeline's bus into events of a generation.
The host process of section 10 runs this port behind its protocol; it can also
run in the program's own process.

`port` is the record of the fields; a load stands for its path, its pipeline, its
bus watch and its generation. `gst` is the pipeline as GStreamer sees it: where
it is and where it was asked to go. `natively` is the set of the watches that are
installed, whatever the fields say; `late` is the command that the pump still runs
although its caller timed out. `queue` lies between pump and owner. A callback
may run any command before the handler that published it goes on, so what is left
of a handler is a frame on `stack`: `Arm` after the STOPPED that `load` publishes,
`Accepted`, `Played` and `EndOfMedia` after what an acceptance or an end of media
publishes. A frame is `live` until a later command moves the load epoch. `answer`
is not state of the program: it is the last word the listeners heard of each load,
or "astray" when a word came that does not follow from the one before.

The hold of a Direct start (`hold`, `replay`) is the delay before the first
sample after a verified preroll: PLAYING is not asked for until it is over, and a
source that was stopped or has ended is prerolled again first.

Abstractions. Positions, durations, volume, mute and their timer, sinks, recipes,
processing filters and the managed claim are left out; of the Direct executor only
whether a load is Direct, and that its verification may fail. `_commit_guarded`
checks and mutates in one step, although the code takes no lock there. A pump
that dies detaches its watch, or logs that it could not.

### Run

`GStreamerRaces` (0.5 million states): 2 loads, 2 faults of the kinds in `Faults`
(a state change refused, a watch not attached or not detached, a pump command that
outlives its caller, a cleanup of close that fails, an error of the media, a
verification that fails, the death of the pump), 3 queued events, one nested
callback. Two loads are one and the one that replaces it, or that a callback
begins; two faults are a failure and one of its cleanup (`FaultyTwice`: a refused
preroll, a refused start or a failed verification whose pipeline will not go to
NULL or whose watch stays, a pump that dies with its watch). Three events let a
PLAYING and an end of media overtake the acceptance. A safety check with three
loads and one fault found nothing else.

- `Consistent`: types; `OneTransport` (whatever can make a sound is the pipeline
  the port owns); `NoWatchIsLost`; `ClosedIsEmpty`; `HoldIsOwned`.
- `WordsAreInOrder`: no listener hears an end twice, an end of what is not loaded,
  a word about what was rejected, or PLAYING before the answer to the load.
- `CandidatesAreAnswered` and `HeldStartsHappen`.

Fairness: a handler goes on, the owner's queue is served, the timer fires, a late
command of the pump ends, and a pipeline gets where it was asked to go. Faults and
commands are owed nothing. Deadlock is not checked: a closed port stops.

Results. `Reused` is whether a port whose close failed is loaded again, which the
provider does (`open()` returns the port it has until it is closed). With
`Reused = TRUE` and a watch that cannot be detached, `Consistent` fails: the next
load overwrites the watch, and the port is later closed with it installed, against
the docstring of `close` ("only once every authoritative obligation finished").
Two more properties are stated and fail without any fault, when they take the
place of the run's:

- `PlayingWasAccepted`: a load that a stop overtakes, in the STOPPED that the load
  publishes, has released the old pipeline but not retired its generation, so a
  PLAYING of it that is still queued is shown with nothing loaded; against
  `_commit_state` ("PLAYING nunca es autoritativo antes de la aceptacion del
  media").
- `EndsAreReal`: stop, then play, with an end of media still queued: the
  generation is the same and the intention to play is set again, which is the only
  guard against a late end (`_commit_eos`), so the end of what was stopped is
  published for what plays.

Besides: a hold whose stop was refused leaves the pipeline PAUSED, where asking for
PAUSED posts nothing, and the held start waits for ever; a candidate whose stop
failed and whose watch goes late is never answered.

### Proofs

`GStreamerPortProofs` proves the safety properties for any number of loads, faults,
queued events and nested callbacks and any `Faults` (`BoundsAssumption`,
`ReusedAssumption`). There are three invariants, one on top of the other:

- `Inv`, for `OnePipelineSounds` (types, `OneTransport`, `HoldIsOwned`).
  `OneTransport` is not inductive: a load that goes on after its callback asks a
  pipeline of its own to move, so there must be no other by then. `ArmingInv` says
  so: only the innermost handler can still arm, and while it can the port has no
  pipeline and is not closed; every load, stop and close overtakes the rest of the
  stack. `HoldInv` is `HoldIsOwned` at every point of a handler, and `EventsInv`
  that without a generation only the death of the pump is heard.
- `WatchInv`, for `PortConsistent`. `LateInv` says that a command which outlived
  its caller is the only one the pump has, and that an attach of it is of a watch
  the port does not know; `LoadsInv` that a watch about to be attached is new, so
  that the late command or a compensation cannot take it down; `ClosingInv` that a
  port being closed has nothing under way. The hypothesis `~Reused` is needed: with
  `Reused = TRUE` TLC finds `NoWatchIsLost` and `ClosedIsEmpty` violated (see
  Results), while `OnePipelineSounds` and `WordsStayInOrder` need no hypothesis.
- `WordsInv`, for `WordsStayInOrder`. A candidate is the generation and the
  pipeline and has had no word (`PendingInv`); what is loaded was accepted and, unless
  it is marked as ended, has not ended since it started (`CurrentInv`); a generation
  that has had no word is the candidate (`GenerationInv`). The hard part is a handler
  that goes on after a callback stopped, restarted or replaced what it was about:
  `HandlersInv` says that only the outermost frame is what is left of an event, and
  that for a source marked as ended it is the end which is still to be told, once.
  A load that is about to replace a candidate makes no callback (`PendingInv`
  again: a candidate is STOPPED already, so the load publishes nothing).

`CandidatesAreAnswered` and `HeldStartsHappen` are model-checked only.

## 12. Not modelled

The components marked `not_modelled` in `PROJECT.json`, each with its reason:
those of the plan above, then pure projections (albums, search, bridges), pure
I/O (providers, stores), numeric code (equaliser, convolution, DSD conversion)
and adapters whose behaviour is that of an external engine or of audio hardware.
The legacy directory scan has its own relay and runner, repeats the generation
gate and is superseded by source scans. What a modelled component leaves out is
said in its section.
