# A TLA+ model of MusicPack

MusicPack packages albums as `.mpack` directories (or single `.mpak` files),
indexes a library of them in a server, and plays them in a web player. This
directory models the parts of the system whose correctness depends on the order
of events or on awkward data, checks them with TLC on small instances, and
proves the properties that matter most with TLAPS. Paths below are relative to
`src/`.

Contents: [inventory](#inventory) · [modules](#modules) ·
[runs](#runs-and-their-bounds) · [fairness](#fairness) · [proofs](#proofs) ·
[disagreements](#disagreements-between-the-code-and-its-documents) ·
[not modelled](#what-is-not-modelled) · [plan](#plan).

## Inventory

| Component | State | Operations | Module |
|---|---|---|---|
| Library index: `server/src/scanner.c`, `library.c`, `identity.c`, `schema.c` | tables `packages` and `releases` (owner, content), the running scan and verification | scan (light or full), ingest, move, conflict, sweep, verify the library | `LibraryIndex` |
| Job slot and shutdown: `jobs.c`, `http.c`, `main.c` | one `mp_job_state` under a mutex, detached threads | start, progress, end, wait, signal, stop | `ServerJobs` |
| Release contents: `library.c` 899-1839 | media, tracks, variants, waveforms, assets | replace the content of a release | `ReleaseTables`, `ReleaseContent` |
| Artists, albums, releases: `library.c`, `identity.c` | artists, credits, release groups | ingest, describe, list | `Catalogue` |
| HTTP API: `api.c`, `http.c` | none beyond the database | queries, each of several statements | `LibraryServer`, byte ranges in `RangeReader` |
| Sessions and tokens: `sessions.c`, `tokens.c` | two tables | create, exchange, authorise (sliding expiry), revoke | `LibraryServer` |
| Package library: `core/libmusicpack/src` | one opened package | parse, validate, hash, verify | `Drafts`, `Publishing` |
| Container: `mpak.c` | a packed file, its scan and index | pack, scan, index, verify, unpack | `Container` |
| CLI: `core/musicpack` | drafts, staging directories, packages | create, import, inspect, encode, build, save, pack | `Publishing` (steps), `Drafts` (contents) |
| HTTP range source: `mpakhttp/src/http_source.c` | session, validator, failure; the container's block cache | probe, read at | `RangeReader` |
| Queue model: `web/player-core/src/queue.ts`, `order.ts` | items, cursor, history, presentation order, policy | 11 editing, navigation and policy methods | `QueueModel`, `PlayQueue` |
| Player: `web/player-core/src/player.ts` | store, generation counters, flags, offsets | transport commands, load, gapless boundary, clock tick, teardown | `Player`; boundaries with fades in `Crossfade` |
| Musepack engine: `web/app/src/lib/playback/musepack-engine.ts`, `audio-worklet.ts`, `ring-buffer.ts`, `public/decoder.worker.js` | decoder slots, credit gate, output rings, audio context | open, prepare, advance, fade, seek, play, pause, close | `Player`, `Crossfade` |
| Offline downloads: `web/app/src/lib/offline` | catalogue, files, staging trees, live installs | install, cancel, remove, boot sweep and audit, update check | `OfflineShelf`, `OfflineInstall` |
| Native engine, session restore, service worker, author application, codec, measurement, user interface, wasm bindings, demo, build and vendored code | | | [not modelled](#what-is-not-modelled) |

What is hard in it, and where the properties aim:

- **Library index.** A package is read in several steps and written in one
  transaction; the filesystem and a second process (the command-line scan)
  change things in between. A release must never serve bytes nobody hashed, an
  owner that is present must keep its release, a quarantined rival must come
  back by arbitration only, and a sweep must not take present packages for gone.
- **Job slot.** The slot is claimed before the thread exists and the mutex is
  released in between; creation may fail; shutdown waits on the slot.
- **Release contents, catalogue, API.** A release is rewritten by many
  statements and matched greedily with what is stored; an answer is made of
  several snapshots while a job writes; albums share artists; sessions slide
  their expiry through the lock a scan holds.
- **Container.** Packing reads the directory four times while others write to
  it; a damaged file is scanned for headers that may also lie inside a member.
- **Range reading.** The file and its database row change between the requests
  of one session; the cache labels a slot before the bytes have come.
- **Publishing and drafts.** Commands that share a destination may be killed
  between any two file operations; discs, numbers, pictures and names that clash
  or are missing must not exchange tracks or break a build that validated.
- **Queue.** A cursor, a history and a permutation, all of positions, must
  survive every edit of the list they point into; the choice of the track to
  open ahead is written a second time in the player.
- **Player, engine and crossfade.** Every `await` of a load, a boundary or a seek
  may return after a newer command; decoders, two output rings and the clock run
  on; the decoder speaks of its end once; one credit is out at a time; a fade may
  be started by the clock or by the decoder's end, and both can be right.
- **Offline downloads.** Installs of one release overlap, files and catalogue
  are two stores written one after the other, records are read, kept over an `await`
  and written back, and the browser evicts files.

## Modules

### LibraryIndex

| TLA+ | code |
|---|---|
| `dirs` | what each `.mpack` directory holds: a manifest text and the state of its objects |
| `packages`, `owner`, `content` | rows of `packages`; `releases.owner_package_id`; the fingerprint of the manifest the release's track rows came from |
| `scan[s]` | the traversal of process s: what is left, the package in hand, the write it decided on |
| `verifier` | the run of `mp_verify_library` in the server's worker |
| `HashManifest`, `OpenPackage`, `WriteRow`, `Ingest`, `WriteFails` | `process_package`, cut where it re-reads the file or the row: hash of the manifest; open, read the row and decide (`Decision`: invalid, fast path, move, ingest); one transaction |
| `StartScan`, `PassBy`, `TraversalError`, `Sweep`, `AbortScan` | `mp_scan_library` and `walk` |
| `StartVerify`, `HashPackage`, `StoreVerdict`, `EndVerify` | `mp_verify_library` and `pkg_set_verify` |
| `ChangeDir`, `RenameDir`, `Crash` | the operator and the operating system |

Reading and hashing `manifest.json` is one step; the library-wide verification
is run by the server's worker only. Manifests are model values with a
fingerprint, fingerprints have a release. Each row carries a history field
`proof`: the fingerprint whose bytes the verification behind `verify` hashed.
`Scanners` are processes sharing the database; a mark is the process whose
current scan stamped the row, so every scan has its own id.

### ServerJobs

`job` is `mp_job_state`; `thread` are the detached job threads; `starting[c]` is
a request thread between the claim and `pthread_create`; `server` follows
`mp_http_serve` through serving, signalled, closing, draining (`mp_jobs_wait`)
and stopped. A critical section is one step; the thread's unlocked read of `kind`
is a step of its own (`Choose`). The work of a job is its progress callbacks and
an outcome; what it does to the library is `LibraryIndex`.

### QueueModel and PlayQueue

`QueueModel` holds the methods of `createQueueModel` as operators on a record;
an operation that shuffles is a set of outcomes. Positions count from 1 and 0
stands for the index -1. `PlayQueue` is a queue under arbitrary calls, one action
per method. Items in a queue are distinct (the code gives every entry an id of
its own), so `LET` definitions may name an item.

### Player

`Player` composes the queue with the player and its engine on one JavaScript
thread. A step is a command, an engine event, or the resolution of an `await`,
and runs to the next `await` that can really wait. What remains of an `async`
function is a *task*; `++loadingSeq` and `++transportSeq` are kept as what they
decide, which is which tasks return without effect (`Superseded`,
`Transported`). The engine record keeps what is open, opening and on standby,
the decoder, the credit (`asked`), the ring in units, and the two switches
(`pumping`, `running`).

| actions | code |
|---|---|
| `PlaySequence` ... `SetShuffle` | the public methods of `Player` up to their first await |
| `RemoveItem`, `ClearAll`, `Enqueue` | queue edits and the subscription in `init()` that notices them |
| `Closed`, `Initialised`, `Opened`, `OpenFails`, `Elsewhere`, `Prepared`, `Sought`, `Played`, `PlayRefused`, `Finished`, `Promoted`, `Suspended`, `Halted`, `TornDown`, `Leave` | what follows an await; `Elsewhere` is an open whose engine was given up, `Finished` and `Promoted` are the two awaits of `engine.advance()` (the ring takes the end, the old worker closes), `Suspended` is the answer to `ctx.suspend()` |
| `Decode`, `DecodeEos`, `Render`, `Underrun`, `Primed`, `Tick` | worker and worklet messages, and the position event that drives `tick()` |

`Users` are those whose behaviour is checked: one waits for each command to settle
(`Listener`), one interrupts, pauses and tears down (`Hurried`), one pauses and lets the
queue repeat (`Looping`), one meets failing opens, preparations and starts and exchanges
the engine (`Unlucky`). The two who wait for a command also wait for a suspension to be
answered.

Simplifications, all deliberate: every track is one unit of time; crossfade is
off (the default) and has a module of its own; an output created under the user's gesture runs, and `play()`
waits only when the context is suspended; a resumed output answers its waiters
before it renders; the decoder reports its end before the last unit it delivered
is heard; what a reset dropped returns before a decoder answers again. The native
engine is represented by the same engine, so of two engine kinds only their
exchange is checked.

### OfflineShelf and OfflineInstall

`OfflineShelf` is the promise: a package is published whole in one step, offered as
it was published, never grows, and leaves by removal, damage or (from the playback
path only) a reload of the page. Two more actions are breaches of that promise, open
only to a behaviour that names them in `Breaches`: `Overwrite`, a failed replacement
takes a published package away, and `Restore`, a package of the past comes back.
`OfflineInstall` is the code: installs, cancellation, refresh, removal, the update
check, the boot sweep and audit, one step per `await`, over files
(`browser-stores.ts`), catalogue and staging. The commit is not atomic: each file is
opened, which makes an empty one where there was none, and then written, and a failure
or a reload may fall between any two of these. `ImplementsShelf` is the refinement
under the mapping `Shelf`: the package published is what the catalogue names, the
shelf what `availability.ts` offers the playback path. The code commits the first
breach always (`installer.ts:112`), the second where tasks overlap, and the mapping
says so. The history `torn` remembers that a copy was broken off or ran beside another
one, or that a task wrote back a record it had read earlier: only then, or while an
install is replacing it, may an offered file be of another version than its record.

### Publishing

The commands of `core/musicpack/main.c` that write packages, as sequences of file
operations of concurrent processes on one destination: assemble a staging directory
(`CopyObject`, `WriteManifest`, `SyncTags`, `Relist`, `VerifyStage`), `Publish` it by
a rename, swap it with the package it replaces (`MoveAside`, `Install`, `RollBack`,
`ForgetOld`), edit in place (`Retag`, `Truncate`, `SaveManifest`), and convert
(`PackMember`, `PublishFile`, `UnpackManifest`, `UnpackMember`, `PublishExtracted`).
Every operation may fail and every process may be killed (`Kill`). A failure ends a
command (`IOFails`), with three exceptions. `unpack` goes on after it ("recovery is the
point"): it may lose the manifest, a member or all that are left, may not even notice
that a member was cut short, since the result of `fclose` is dropped (`mpak.c:2306`), and
publishes what it has; only its exit status tells, so `PackagesAreWhole` allows an
extraction that was not called a success. The roll-back of a save may fail and leave the
old package aside (`main.c:4470`), and a removal may leave what it should remove
(`main.c:4476`, `4485`): both are noted in `left`, which excuses the process in
`LeavesNothing` and nowhere else. `rename` replaces an empty directory (`Vacant`), which
an `unpack` without a manifest may have published. Contents are versions. A command opens
each object when it comes to it, except `unpack`, which keeps the file it opened at the
start (`from`; `mpak.c:2204`), whatever is renamed over it.

### Drafts

The same commands seen from the data: an album directory with its tags, embedded
pictures and odd files; the scan and its renumbering; `import`, `inspect`, the
edits of the app, `encode-draft`, `waveform-draft`, `build-draft`, opening a package
as a draft and saving it. Contents are named by where they come from, so a track that
got another's audio shows. A command is one step here; `Publishing` has its steps.

### ReleaseTables and ReleaseContent

`ReleaseTables` is the rows below a release with SQLite's ids and cascades, and
what each entry of a manifest does to them (`library.c:899-1839`); `ReleaseContent`
runs it statement by statement in a transaction that may be abandoned. `Admissible` is
what the reader of manifests lets through: no two discs or tracks of one number, no path
mentioned twice (`manifest.c:527`, `770`); the instance satisfies it, TLC evaluates it.

### Catalogue and LibraryServer

`Catalogue` extends `ReleaseTables` by artists, albums, releases, ownership and
quarantine, and holds the queries of the API. `LibraryServer` is the server: one
request thread whose answers are several statements (`Fetch`), each with its own
snapshot, a job whose transaction holds the write lock (`Begin`, `Commit`,
`Rollback`, `Record`, `Sweep`), and the sessions and tokens that want that lock too.
`wrote`, `told` and `seen` are history. `Visits` chooses what an instance looks at;
each asks everything its actions allow. Paging, search, static files, headers and JSON
text are left out.

### Container

A packed file is a sequence of cells: header, path, piece of a member, index
entry, manifest, fixity record. A header has a checksum, so a damaged one is no
header; anything else may be changed into something well formed. `Blocks` is the
scan, `Index`, `Find`, `Errors`, `Warnings` and `Unpacked` what readers make of the
file; the packing actions go over the directory the way the code does. The search for
the next header is best-effort (`mpak.c:47-51`): a header inside the bytes of a member
that lost its own may claim a stretch of the next member, or its path. So
`RecoveryKeepsTheWhole` does not promise that every untouched member comes back; it says
that these two are the only ways to lose one, and that `unpack` then reports something.

### RangeReader

The range parser and `serve_file` of the server, the session of `http_source.c`
with every check it makes of a reply, the two-slot block cache and the member
readers of `mpak.c`. A byte is a version and an offset.

### Crossfade

Three tracks played through both output rings. The unit is one decoder chunk
(0.2 s). The main thread (player and engine) and the worklet exchange messages over
two queues; a worker only answers, so its answer is computed when it is taken. The
model assumes what the code's buffers are sized for: the worklet takes its messages
between units, and a decoder does not reach its end while the next standby is still
being opened; `Disturbances` releases each assumption ("slow decode", "slow open", a
"seek" in a fade, a "pause" near an end, a "long pause" in which the engine's timer of
60 s gives the fade up), and what then fails is listed
[below](#disagreements-between-the-code-and-its-documents). The timer of 30 s that
ends the filling of a lane stands for a worker that never answers; like skips in a
fade, gains and fractions of the resampler it is left out.

### MC modules

`MCLibraryIndex` (manifests `m1`, `m1b` of one content, its rival `m2`, another
release `m3`, an unreadable text; the contents each place may hold),
`MCServerJobs`, `MCPlayQueue`, `MCPlayer` (users, engine kinds), `MCOfflineInstall`,
`MCDrafts` (the albums), `MCReleaseContent`, `MCContainer`, `MCRangeReader`,
`MCLibraryServer` (the visits), `MCCrossfade`.

## Runs and their bounds

| run | question | instance |
|---|---|---|
| `library_stable` | Is only verified content served, quarantine ended by arbitration, rivalry settled by scanning on, the filesystem mirrored by a scan whose sweep ran, and does every verification end? | one scanner, three places holding mirrors and a rival, sound, damaged or unreadable; three filesystem changes; two retries of a locked write (100 in the code); 459 136 states |
| `server_jobs` | One job at a time, waited for; does a signal stop the server? | two request threads, two job threads, two packages; 15 390 states |
| `play_queue` | Do cursor and order survive every edit, is what is opened ahead what follows? | three items, history of two (500 in the code); all 1 005 states |
| `player` | Do cursor, display and decoder agree, is no end lost, is a pause silent, does everything come to rest? | four users, up to three items, four commands, four units heard, a ring of two units; 492 424 states |
| `offline_install` | Is what is offered offline whole, does the manager implement the shelf, does every download settle? | two installs, two assets, two versions, one eviction, one reload, a commit that may break off between any two files; 1 070 102 states |
| `publishing` | Is what is published whole, is a package that was there kept, are exit codes true, is nothing left behind? | two processes with any of the seven commands, one change of the source, one kill, any failure; 226 557 states |
| `drafts` | Does what validates build, does every track keep its audio, is a saved package the one that was opened? | six albums with clashing, missing and equal discs, numbers, pictures and names; two edits; 122 507 states |
| `release_content` | Are the rows the manifest, and do ids follow the audio? | two releases, manifests of up to three tracks that move, double, appear and vanish, two ingests, one abort; 398 640 states |
| `container` | Does what was packed verify, is damage noticed, what may recovery lose? | a plain package and four with a member that holds a piece of a container (a block that fits, one that reaches into the next member, one that goes by its path, a fixity record of a wrong length); two edits, two damages; 741 280 states |
| `range_reader` | Are the bytes of a sound session right and of one version, is every Range header answered with what it names? | a file of five bytes replaced twice, blocks of two bytes, two slots, four kinds of server, one fault, three reads; 3 605 306 states |
| `library_server` | Are answers whole, is what is listed served, do ingests stay apart and artists themselves, are only bad credentials refused? | two places, four visits, two tokens, one session of one day, three job writes, three days; 334 677 states |
| `crossfade` | Is every unit of every track heard in order and once, is the cursor on the sounding track, does the session end? | three tracks of 10, 12 and 13 units, fades of two units or none, one incident; 4 338 557 states |

Why these bounds show the interesting cases. Two packages make rivals, three add
a mirror that moves; three filesystem changes let an owner vanish, a rival be
ingested and the owner return. `ScanMirrorsFilesystem` is asked of every sweep during
whose scan the filesystem stood still and no record of an invalid package was lost
(`calm`): a traversal that broke off or a write that was refused must keep the sweep
from running. `ScansSettleRivals` is about full scans that keep coming after the last
change; it needs more than one, because a move is not arbitrated (`scanner.c:405`). In the queue three items are the least with a position
on either side of the cursor, and a history of two overflows at the third advance.
In the player four commands are a sequence, two overtakings and what follows; a
ring of two units lets the decoder run one track ahead of the ear, which is all it
is allowed, because one track is on standby; `MaxRendered` only ends a repeat. Two
installs are one that is superseded and its successor; two assets are one the
install needs and one it may do without. Two processes are a race for the
destination, and the change of the source falls between any two copies. Two ingests
are a manifest and its successor; three tracks are one that stays, one that moves
and one that is doubled. Two damages are enough to hide a header and make another.
Two slots let one reader evict the block it is about to read. The tracks of the
crossfade are longer than the ring's high-water mark, the fades shorter; their
lengths differ so that the decoder meets its end on either side of the trigger.

Deadlock is checked for the library, the drafts and the crossfade. A stopped
server, a silent player, a user out of commands and a reader out of reads are real
stops, and their configurations say so. Every action and disjunct of the next-state
relations fires in a passing run.

`TypeOK` of the modules with proofs is proved rather than run. Some definitions
state a property that no run lists, to keep one question to one run: `ScanTerminates`,
`FailedStaysFailed`, `JobsEnd`, `DoesWhatWasAsked`, `FailureReported`,
`ProgressForward`, `BackUndoesAdvance`, `HistorySurvivesMoves`, `LoadingSettles`,
`NaturalAdvance`, `RecordIsUsable`, `PageTellsTruth`, `EncodeCommutes`, `ImportAgrees`,
`ReingestChangesNothing`, `VerifiedUnpacks`, `SilentUnpackIsTrue`,
`FailedSessionIsSilent`. TLC confirms each when it is added to its module's
configuration.

## Fairness

- `LibraryIndex`: the scanning and the verifying thread are scheduled (`ScanStep`,
  `VerifyStep`). Traversal errors, refused writes that abort, crashes and
  filesystem changes are not fair: they may or may not come.
- `ServerJobs`: a request that has claimed the slot goes on, a job thread runs,
  the main thread runs; that a job's work ends is `VerifyTerminates`. Requests
  and signals need not come.
- `Player`: every awaited engine call is answered, workers and worklet deliver
  their messages, and the position event comes as long as the output runs: the
  browser's event loop. Commands and failures are not fair.
- `OfflineInstall`: each task that can go on does; fetches answer or fail.
  Evictions, reloads and clicks are not fair.
- `Crossfade` states none. That nothing stops too early is an invariant of the
  states in which nothing can happen any more (`EndsWithTheLast`), with deadlock
  checked everywhere else.

## Proofs

TLAPS proves, for every value of the constants that satisfies the assumptions
named in the modules:

| theorem | statement |
|---|---|
| `LibraryIndexProofs!TypeCorrect` | `Spec => []TypeOK` |
| `LibraryIndexProofs!VisibleOnlyVerified` | `Spec => []VisibleIsVerified` when directory names are never reused, any number of processes |
| `LibraryIndexProofs!QuarantineHolds` | `Spec => QuarantineEndsByArbitration` with one scanning process and no package that lacks an object |
| `LibraryIndexProofs!ScanLeavesAMirror` | `Spec => ScanMirrorsFilesystem` with one scanning process |
| `ServerProofs!JobTypes` | `Spec => []TypeOK` |
| `ServerProofs!AtMostOneJob` | `Spec => []OneJob` |
| `ServerProofs!JobDoesWhatWasAsked` | `Spec => []DoesWhatWasAsked` |
| `ServerProofs!NoJobOutlivesTheServer` | `Spec => []StopsAfterTheJob` |
| `ServerProofs!FailuresAreReported` | `Spec => []FailureReported` |
| `ServerProofs!CountersNeverGoBack` | `Spec => ProgressForward` |
| `ServerProofs!CallersAreJudgedRightly` | `LibraryServer`'s `Spec => RefusalsHaveReasons`: any tokens, sessions, requests, days and jobs |
| `PlayQueueProofs!PresentationIsComplete` | `Spec => []OrderVisitsAll`: any finite set of items, any bound on the history |
| `PlayQueueProofs!PreloadFollowsQueue` | `Spec => []PreloadIsWhatFollows` |
| `PlayQueueProofs!CursorFollowsItem` | `Spec => CursorKeepsItem` |
| `PlayerProofs!PausesAreSilent` | `Spec => []PauseIsSilent`: any users, items, engine kinds, ring and failures, with no hypothesis |
| `PlayerProofs!TheTrackPlayedIsShown` | `Spec => []ShowsWhatPlays` when `InSequence`: any items, engine kinds, history bound and number of commands |
| `PlayerProofs!EndsAreHandled` | `Spec => []EndIsHandled`, under the same hypothesis |
| `PublishingProofs!PublishingTypes` | `Spec => []TypeOK` |
| `PublishingProofs!PublishingKeepsPackages` | `Spec => PackageSurvives`: any processes, commands, kinds of object, failures and kills |
| `PublishingProofs!PublishedIsWhole` | `Spec => []PackagesAreWhole`, as above |
| `PublishingProofs!ReportsTellTheTruth` | `Spec => []ReportsAreTrue` |
| `PublishingProofs!NothingIsLeft` | `Spec => []LeavesNothing`: any finite set of processes, failing removals and roll-backs included |
| `OfflineInstallProofs!ShelfIsImplemented` | `Spec => ImplementsShelf`, the refinement, with no hypothesis: any overlap of tasks, assets, versions, evictions and reloads, up to the breaches the mapping names |
| `OfflineInstallProofs!PlayableStaysWhole` | `Spec => []PlayableIsWhole` when no install runs during the boot |
| `RangeReaderProofs!ReadsReturnTheRightBytes` | `Spec => []SoundReadsAreTrue` when `Careful`: any sizes of prefix, block and cache, any readers, replacements and failures |
| `RangeReaderProofs!ReadsAreOfOneVersion` | `Spec => []NothingIsMixed` when `Careful` |
| `RangeReaderProofs!RangesAreAnsweredExactly` | `Spec => []AnswersWhatWasAsked`: any servers, files and requests |
| `ReleaseContentProofs!StoredMirrorsManifest` | `Spec => []ContentMirrorsManifest`: any releases, any admissible manifests, any number of ingests and aborts |
| `ReleaseContentProofs!ContentKeepsItsIds` | `Spec => IdsFollowContent`, as above |

*Types of the library.* `TypeOK` is not inductive: the step that writes uses an
id that was read in an earlier step. `Typed == TypeOK /\ PlansFit /\ VerifierFits`
adds that a plan and a verification entry name a row that exists (rows are never
deleted) and that the plan carries a manifest where it needs one.

*Visible implies verified* needs to say why a verdict about a path is a verdict
about the row's content. Under `StableNames` (every manifest that can occur at a
path has one fingerprint) the invariant `AtHome` says that each directory, row,
owner, plan and pending verdict belongs to the fingerprint of its path. Without
`StableNames` the property is false (`VerifyReplaced.cfg`).

*One scanning process.* A row is read in one step and written in another, and a second
process between the two breaks both properties. `JobAlone` (the worker verifies only while it
does not scan) closes the gap. Quarantine then needs `PlanKeepsQuarantine`, which fails
where a package lacks an object, because the fast path takes it out of quarantine
([below](#disagreements-between-the-code-and-its-documents)). The mirror is a loop
invariant, `Mirroring`: while nothing has failed or disturbed the scan, each directory it has
passed has its row, stamped by this scan and with the hash that is there now, and no row of a
directory that is not there is stamped; so the sweep takes exactly those.

*The job slot.* The inductive invariant `Slot` says that claims and live threads
are at most one together, that `running` is exactly their existence, that `kind`
is what that claim or thread was asked for until the slot is released, and that
the phases of the shutdown imply an empty slot in the end. `Reported` adds, for
each phase of a thread, whether its failure has been stored, and `Counted` that
the running job's counter is its own work, reset by its claim; both lean on `Slot`
for there being no other job.

*Callers of the API.* A caller is judged by the stored end of a session, the property
speaks of its last use. `ApiInv` keeps the two together: every stored end is the last use
that could be recorded plus `SessionDays`; a use while a job holds the write lock moves
neither. A pending exchange is for a token the operator may have created
(`VisitsAssumption`). Both proofs about the server are in `ServerProofs`, which takes
`LibraryServer` by `INSTANCE` beside the variables of `ServerJobs`.

*The play queue.* The inductive invariant is `Sound`: the list, the cursor and the
policy are well formed, the presentation order is a permutation of the positions
while shuffling (`Formed`), and no item is in the list twice (`Distinct`). Nothing
is needed of the history, because `previous` checks an entry before it uses it. The
proof that edits keep the cursor on its item rests on lemmas about insertion and
removal at a position, and on `RemapInverse`: the remapping of a move is a
permutation whose inverse is the opposite move.

*Publishing.* A package at the destination is exchanged by two renames, so the step
that could lose it is safe only because of what earlier steps did. The inductive
invariant is `PInv == TypeOK /\ Staged /\ Aside /\ Replaced`: a process that is
about to install holds a staging directory, what was moved aside stays there until
its owner has installed or rolled back, and whoever forgets the old package knows of
another. For the other three theorems `QInv` adds what each process has staged and
what is published. `Fit`: what a process is about to publish has been found whole, but
for an extraction. `HeldWhole`: what can be found is whole or was put there by an `unpack`
(`Salvaged`). `LoneEdit`: an
`update-metadata` that runs alone has in memory what it has written, which is why it
ends with a whole package although it truncates the manifest on the way. `Beside` and
`Apart`: a package is left aside only beside another one, at the destination, between the
two renames of another save or held by a save whose roll-back failed, and no two of them
come from one process, so that they are two and not one counted twice. `Credited`: whoever is named by a package
has passed its rename. For `PublishedIsWhole` one more part, `Reported`: while nobody
edits or saves, what an `unpack` has put in place stays there, because it has a manifest
and `rename` does not replace it, so that what the `unpack` verifies is its own
extraction. `ProcsAssumption` says that the processes are finitely many
and that none is the 0 which marks a package that was there before.

*Offline shelf.* The inductive invariant of the refinement is `ShelfInv`: an install
that is past a critical asset has staged it (`StagesCritical`), so what is published
holds every critical asset; and whatever the catalogue names, the update check has read
or the audit is about to write back was published once (`FromPast`), so a write-back is
a `Restore`. Where no tasks overlap (`Alone`) the record a task has read is the record
that is there still (`SeenIsThere`), and `Restore` is not needed. `WholeInv` is about
the files: a staged file stays until it is copied (`StagedIsThere`, which needs the
hypothesis: a sweep beside an install removes its staging tree and the copy is empty),
an install past its copies has made them all (`CopiesAll`), and what a record names, a
check holds or an install has copied is a whole file or was dropped (`NamedIsWhole`).
`Tied`, which holds until something is torn, relates versions: at most one install has
begun to copy, what it has copied is of its version, and a record is of the version of
its files unless that install is at work.

*Range reader.* Bytes reach a reader through the prefix read at the start, the cache
slots, and single answers. The invariant says of each that the bytes held are those of
their offsets and, as long as validators are honest, of the version the session
began with, until the session fails (`PrefixHeld`, `SlotsHeld`, `GotHeld`,
`Returned`), and that what a read asks for lies inside the file (`ReadInside`). After a
failed read nothing is claimed, because a slot may be labelled without its bytes
(`ReadAfterFailure`). `Careful` says that no server both leaves totals out and sends
parts it was not asked for: such an answer passes every check the client makes
(`RefetchUnchecked`), so the property is false without it. That the server answers a
`Range` header exactly needs neither.

*Release contents.* A transaction takes a statement for every disc, track and asset, so
what it leaves behind is the end of a chain of loops, and `ContentMirrorsManifest` says
nothing of the states in between. The inductive invariant `IInv` has three parts.
`StoredWell`: the committed tables are well kept (`Kept`: ids and natural keys identify
rows, every reference is to a row) and mirror the committed manifests. `Opened`: while a
transaction is open its tables are well kept too, and the slices of the other releases
are the committed ones (`Same`). Then a loop invariant for each phase: the discs gone
through have media (`HaveMedia`); the tracks gone through have exactly one row each among
those that do not wait for a match any more, and every committed row that does not wait
went to an entry with its audio (`Filled`, `Waiting`); the assets gone through have
theirs. `Follow` carries the ids: what has been written so far continues the committed
rows. That a track listed once before and after finds its row rests on `Waiting`: its row
still waits, because an entry that took it would have the same audio, and it is the only
one waiting with that audio, so the match by content is unambiguous. `ManifestsAssumption`
is `Admissible`, above; with two tracks of one number or two assets of one path the loops
would take a row twice. TLC confirms `IInv` on the run's instance (with `Bounded` looking
for its bound up to 200). SQLite's rule for ids
needs that a bounded set of natural numbers has a greatest element (`GreatestExists`).

*The player.* A pause is silent because every way to start the decoder or the output
looks for the pause when it comes back: `Quiet` adds to the property that no start is
waiting for its answer, and that the ring is empty wherever a load may yet prime it. An
output that is being suspended runs on until the answer comes, and is excepted.
Nothing else is needed, and nothing is assumed.

The other two need everything that happens between a command and the next quiet moment.
The inductive invariant `Fit` puts the player in one of five phases. In `Idles` no engine
has anything open. In `Loads` one task of the newest load is on its way, and each of its
awaits says what the engine may hold. In `Seeks` the decoder owes one answer. In `Sounds`
the cursor, the shown track and the decoder's track agree, and the tasks that may be
pending are those of one boundary: while one of them waits, the decoder cannot announce
another end, and once it has handed over, the position shown is the new track's
(`Awaits`). The engine's half of a boundary is itself in two parts (`Handing`): the next
track is on standby, or the old worker closes and no track is current. In `Over` the last
unit has been heard, and the output may still be on its way to its suspension, which is
awaited in no other phase (`Orderly`). Through all of it the clock adds up
(`Plays`): the offset of the album, what has been rendered, what the ring holds and what
is left of the track are the end of the track the decoder feeds, so that the clock finds
the cursor where the handoff has put it or one track behind. An end that was announced has
been promoted, or is remembered in `pendingEnded`. TLC confirms `Fit` on the run's
`Listener`.

The hypothesis `InSequence` has two parts. The users that are `Careful` (who wait for
every command and meet no failure) give the commands of `Listener`; any others may do
anything, and the properties claim nothing for them. With a shuffle, a repeat, a toggle
or a removal added `ShowsWhatPlays` fails, and with a toggle or a removal `EndIsHandled`
(the [table below](#disagreements-between-the-code-and-its-documents) says how). And
`RingUnits = 2`, for tracks that are one unit long: one track may be heard while the
next is decoded ahead, as with every track longer than the ring. In a ring of one unit the
decoder cannot announce its end before its last unit is heard, against the
simplification above; in a ring of three it runs ahead over a whole track, whose handoff
is pending while the clock passes it, and `ShowsWhatPlays` fails: the code has this
weakness for tracks shorter than its buffer. Items, their engines, the limit of the
history, the number of commands and the length of the queue are arbitrary.

Left to TLC: liveness (`VerifyTerminates`, `ScansSettleRivals`, `SignalStops`,
`ComesToRest`, `DownloadsSettle`), which rests on fairness and `ENABLED`; the rest of `LibraryServer`
(`AnswersAreWhole`, `ListedIsServed`, `IngestsStayApart`) and `Drafts`, whose operators
fold over the entries of a manifest, and `Container`, whose scan is recursive, for what a
fold or a recursion computes needs induction over data; and `Crossfade`, whose properties
depend on how the sizes of rings, leads and fades compare, not only on the order of steps.

## Disagreements between the code and its documents

Each property below is defined in its module next to the line it comes from. A
configuration named here makes TLC show the counterexample; the others need the
constants the text names. None is part of the passing runs, which exclude exactly
these cases.

| property | configuration | what the code does | what is promised |
|---|---|---|---|
| `OwnerHoldsItsRelease` | `StaleOwner` | a row that moves to another release stays the owner of the one it left (`server/src/scanner.c:323`) | "no arbitrary visible package can supply bytes for content it does not own" (`schema.c:184`) |
| `VisibleIsVerified` | `VerifyReplaced` | the verification passes whatever is at the path now (`scanner.c:851`) | `docs/deployment.md:341` |
| `QuarantineEndsByArbitration` | | a light scan makes a quarantined package that lacks an object a warning, and the next verification makes it valid (`scanner.c:525`) | hardening document, line 57 |
| `OnlyVanishedAreSwept` | `CrossSweep` | a sweep takes rows stamped by another process for gone (`library.c:291`) | `scanner.h:48` |
| `NoRivals` | | an owner that returns is `valid` next to the rival that took its release (`scanner.c:529`) | hardening document, line 42 |
| `RescanNoticesMissingObjects` | | alternate representations and waveforms are not counted (`scanner.c:152`) | hardening document, line 80 |
| `FailedStaysFailed` | | with two processes the fast path writes back a verdict it read before its transaction (`scanner.c:539`) | `docs/deployment.md:334` |
| `FailedIsLastOutcome` | | a job without a database does not set `failed` (`jobs.c:92`) | `jobs.h:64` |
| `RefusedWhenBusy` | | 409 also when no thread can be created (`jobs.c:166`) | `jobs.h:81` |
| `UnmovedKeepsId`, `NewIdsAreFresh` | | a track that is doubled may give its id to its copy; a deleted highest id is given again (`library.c:1712`) | `docs/musicpack-api-v1.md:141-147` |
| `PackedAsVerified` | | a file changed and changed back (`Reverts = TRUE`) between the passes is packed as verified (`mpak.c:1796`, `1862`) | the comment there |
| `ReadsAreTrue` | `ReadAfterFailure` | a cache slot is labelled before a read that fails (`mpak.c:423`) | `mpak-http-range-design.md:306-307` |
| `SoundReadsAreTrue` | `RefetchUnchecked` | a reply without a total is not checked against the size probed (`http_source.c:611`) | the comment at 36-38 |
| `PackRefusesToOverwrite` | | `pack` renames over a file that appeared since its check (`main.c:6315`) | `author_service.rs:612` |
| `SaveKeepsAssets` | `DraftAssetsLost` | opening and saving a package drops booklet, lyrics and extras (`main.c:3033-3040`, `draft.c:203`) | `main.c:3113-3121` |
| `ImplementsShelf` without `"overwrite"` in `Breaches` | | the failed record of an install that is cancelled or breaks off is put over the record of a finished one: the package is gone (`installer.ts:112`) | "a failed install leaves nothing behind but staging garbage" (`installer.ts:8-10`) |
| `RecordMatchesFiles` | | a commit copies file by file before the record is put: broken off, it leaves files of the new version, or an empty one where the browser had dropped a file, under the old record (`browser-stores.ts:89-96`) | "replaces the whole set atomically" (`installer.ts:162`) |
| `ImplementsShelf` without `"restore"` | | with `Disturbances`: the update check, or the audit of the boot, writes back a record it read before a removal or an install (`manager.ts:212`, `124`) | "Replacement happens only via explicit remove+install" (`manager.ts:198`) |
| `EndIsHandled` | | with `Users <- Pauses`: an end announced during a pause is dropped (`player.ts:581`) | "it resumes/advances on play()", one line above |
| `WrapPlaysTheFirst` | `WrapDrifts` | after a gapless wrap the clock counts from the old track and moves the cursor on (`player.ts:643`) | `web/README.md:159` |
| `HistorySurvivesEdits` | | `playNext` leaves the history on shifted positions (`queue.ts:162`) | `web/README.md:162` |
| `WrapIsPreloaded` | | a shuffled wrap goes to an item that was not opened ahead (`queue.ts:268`) | `web/README.md:165` |
| `HandoffRebases` | | after a handoff under shuffle the clock moves the cursor back (`player.ts:643`) | `player.ts:1246` |
| `EditsAreFollowed` | | a track removed while it loads plays (`player.ts:243`) | `player.ts:234` |
| `NoAdoptionDuringLoad` | | play during a load lets the old clock move the cursor (`player.ts:1127`) | `player.ts:754` |
| `NewestCommandWins` | | a track selected while engines are exchanged opens in the one that closes (`player.ts:1296`); previous during a load restarts the replaced track (`player.ts:452`) | `controller.test.ts:888`, `909` |
| `EndsWithTheLast` | `CrossfadeShortLast` | a last track decoded wholly inside the fade never ends | `musepack-engine.ts:332-335` |
| `EndsWithTheLast` | | with `Disturbances = {"long pause"}` in `Crossfade.cfg`: a pause of more than a minute in a running fade lets its timer cancel it; the end of the fading track, which its decoder reports once, was swallowed for the fade, and after the resume nothing follows (`musepack-engine.ts:824`, `276`) | "freezes with the suspended AudioContext and completes on resume" (`player.ts:911-912`) |
| `HeardInOrder` | `CrossfadeSkips` | after a gapless handoff the trigger measures the track of the position and fades to the one after the cursor: a track is skipped | `player.ts:914` |
| `CursorFollowsSound` | `CrossfadeSeek` | a seek in a fade started by the decoder's end leaves the old boundary, which then advances | `player.ts:1042` |
| `NeverDrifts` | `CrossfadeDrifts` | credits of a promoted ring are counted against the old level | `audio-worklet.ts:71-78` |

Met while reading, without a configuration of their own:

- *Database.* `mp_db_migrate` (`db.c:104`): a crash between the creation of
  `schema_version` and its first row, or two processes opening a new database at once,
  leaves the version unrecorded and every later open fails at the first migration.
- *API.* `GET /api/v1/session` is answered before the authentication gate
  (`api.c:1622`) and always says `authenticated`, against `musicpack-api-v1.md:53`. A
  release lists extras under an address that is always 404 (`api.c:1302`,
  `library.c:1955`). A logout during a scan's write answers 204 and leaves the session
  (`api.c:1511`). Expiring a token does not end its sessions, only revoking does
  (`sessions.c:153`, `musicpack-api-v1.md:60`). `token revoke` behind a long write says
  "not found".
- *Library.* A record of an invalid package that the database refuses is dropped without a
  word (`scanner.c:434`, `447`): the scan counts as complete, and its sweep may call the
  package unavailable although its directory is there. A read error of `readdir` ends a
  directory like its last entry (`scanner.c:610`), with the same effect.
- *Catalogue.* `release_groups.mbid` is unique and stored as written: of two albums that
  share an id that is not canonical the second never ingests (`library.c:596`). A light
  scan of an unverified package rewrites the title and artists its group shows. Two
  artists of one name share a row until an id separates them.
- *Publishing.* An `unpack` whose disk fills up leaves an incomplete package at its
  destination, and its exit status is all that tells (`main.c:6338-6356`). A save whose
  second rename and roll-back both fail leaves no package at the destination; the message
  names the backup (`main.c:4473`).
- *Container.* `unpack` does not read the fixity record and is silent about a missing
  index; a nested member may shadow one of the package (`mpak.c:54`). Of two
  hard-linked assets `package_verify` hashes one (`package.c:590`).
- *Offline.* With an install during the boot (`"boot" \in Disturbances`) the sweep
  removes a live staging tree and empty files are committed: `PlayableIsWhole` fails.
  `OneLiveInstall` (`installer.ts:80`) fails: the `finally` of a superseded install
  drops the controller of its successor, and a third install leaves that one running.
  `removeStaging` of a nested name fails silently in the browser's file system.
- *Drafts.* Alternates are never copied (`draft.c:329`); renumbering at import is undone
  for tagged files by a later inspection (`main.c:2021`); analyses other than sonic are
  dropped by a save; artworks of one role collide and the build fails after the
  validation passed; a local cover replaces the embedded pictures of every role
  (`main.c:2202`); that booklet, lyrics and extras exist is not validated.
- *Player.* Removing an earlier item shifts the clock (`queue.ts:240`); `next()` with
  nowhere to go kills a load in flight (`player.ts:441`); a toggle after a failed open
  shows "playing" with nothing open; a pause after the queue ended and a toggle buffer
  for ever. A play that follows a pause before the context has answered finds it still
  "running" and does not resume it; the suspension then arrives, and the session shows
  playing and is silent (`musepack-engine.ts:922-934`).
- *Crossfade.* Samples of the outgoing decoder may be appended to the promoted ring;
  a fade longer than the ring starves; a cancelled attempt leaves the standby decoder
  advanced and the next track loses its head; a late end makes the cursor catch up and
  a track be skipped.
- *Musepack stream and tools* (not modelled). `mpc_demux_seek` keeps the old bit count
  while it fills its buffer, so a seek inside the window may land one byte late
  (`mpc_demux.c:224-258`, against its comment at 205). The seek walk checks no block keys
  (`mpc_demux.c:965-980`), and a read that fails in the last frame of a block appends a
  wrong entry to the seek table when it is retried (848). A file whose number of frames
  is a multiple of 64 ends with `MUSEPACK_ERR_INVALID` instead of the end of the stream
  (146 975 samples do, 146 976 do not), against `codec/include/musepack/decoder.h:191-197`
  and `docs/api.md:126`; `decoder.worker.js:120-130` then reports an error at the end.
  `decoder.worker.js:181` reports a seek done whatever its result, and `localreader.js`
  takes a failed read for the end. `mpccut` counts blocks without the decoder's delay
  (`mpccut.c:139`); `mpcchap` adds the header's position to an absolute one (85, 166).
- *Author application* (not modelled). A cancel just before a model download starts is
  forgotten (`sonic_model.rs`, `acquire` clears the flag). A cancelled encode that has
  just finished returns a staging directory that is deleted (`lib.rs:930`). A stage that
  ends after another album was opened puts the old draft back. The verdict of a draft
  edited during its validation may enable Create.

## What is not modelled

- Author application: its concurrency (child processes, cancellation, stages that
  overtake edits) deserves a module; it is next in the plan.
- Session restore and persistence, loudness gain and media controls of the player; the
  native engine beyond the exchange of engines.
- Server start-up, option parsing, static files, paging and search; `mp_db_migrate`.
- Metadata mapping, tag and manifest parsing byte by byte, MusicBrainz identification.
- Codec, loudness, waveform and sonic measurement: numeric code, sequential, compared with
  references by the repository's tests.
- User interface, service worker, wasm bindings, demo, build files, vendored code.

## Plan

In order of what is most likely to be wrong and hardest to test.

1. Done: the modules above with their proofs.
2. `Author`: stages of the authoring application as tasks over one draft, cancellation and
   staging directories; abstract specification: what is created is the draft that was
   validated.
3. Manifests: parsing, building and saving with what the reader does not know, as pure
   operators with a round trip.
4. The Musepack stream: packets, seeking and the tools that cut and join, with the decoded
   samples as the abstract specification.
5. Proofs: `PlayerProofs` for a listener who pauses; `LibraryIndex` as an
   implementation of an abstract catalogue.
