# SubSmelt: a TLA+ model of the server

SubSmelt is a Node server that finds subtitles in a media library, translates
them with one or several LLM connections, transcribes videos with a Whisper
backend, and follows YouTube playlists. This directory holds TLA+ modules of
its concurrent core, TLC runs that check them on small instances, and TLAPS
proofs of the results that matter most.

All server paths below are relative to `src/src/server/`.

## 1. The system

The server is one event loop. Code between two awaits is not interrupted, so
every module takes one step for that code, and anything else may happen
between two steps. State lives in SQLite (`db.ts`), in JSON files written whole
and renamed, in the media folder, and in module variables that a restart loses.

| Component | State | Operations | What is hard, and what makes it correct |
|---|---|---|---|
| Translation queue (`queue.ts`, `queue/`) | the run and its scope, requested and held starts, claimed jobs, active jobs, abort controllers, cancel marks, the run marker on disk | start, stop, claim, wait for the connection's lock, put back, run, title call, settle, cancel, resume after a restart | slots, users and the gate interleave; starts arrive at any moment; registrations are keyed by the job alone. No two slots write one file; every asked job is settled; a run that a crash cut off is finished |
| Jobs table and routes (`db.ts`, `routes/jobs.ts`) | rows: status, force, output path, output claim | create, retry, force, retarget, delete, cancel | rows edited while a slot works on them; two names for one output |
| Library scan (`scanner.ts`, `library-scan.ts`, `watcher.ts`, `output-names.ts`, `file-translation.ts`) | caches of the walk, a single-flight scan | create rows, move an output to its standard name, queue a run | a scan reads rows and files that change meanwhile |
| Connections (`connections.ts`, `connection-lock.ts`) | a promise chain per lock group | take the locks of a machine within a deadline | two slots that wait for each other's lock |
| Translation engine (`translator/`) | one file: chunk queue, attempts, gates, chunks saved for a resume, the partial and the final file | cascade over connections, race a stalled chunk, shrink after an overflow, fall back to lines, save, finish | the races of a chunk's two attempts, lost wake-ups, a failure beside live siblings, a resume |
| GPU gate (`gpu-gate.ts`) | none of its own; it reads the queue, the runs, the backlog, Convert | may translation start, may transcription start, release a held start | four parties check and take at different times; no party may wait forever |
| Transcription runs (`routes/transcription-runtime.ts`, `transcription/in-flight.ts`) | run registry, slot count and waiters, abandoned runs | register, take a slot, wait for the GPU, call, publish, settle | a limit that changes while runs wait; a cancelled call that keeps the GPU |
| Transcription work (`transcription/work.ts`, `review-gate.ts`, `work-artifacts.ts`) | items, receipts, selections (saved on every change); drain flag, cancel marks | submit, drain, cancel, review, approve, retry after a restart, retention | a transcript must not be translated before its approval, through crashes, edits and repeated requests |
| Convert (`routes/convert-batches.ts`) | batches on disk, worker flag | run a batch, recover its files | its turn on the GPU; files saved and removed around a crash |
| YouTube (`youtube/`) | playlists and their settings, listings, rows of videos, the lanes' work in hand, the cooldown | follow, check, take over, filter, download, transcribe, finish, retry, skip, reconcile | a listing, a filter change and a lane each read a row, wait for YouTube, and write it; a check outlives the follow it began for. The user's choice of a video holds; a lane finds its row as it left it; every wanted video gets its turn |
| YouTube notes (`youtube/note-*.ts`) | a journal of note changes | export, mirror | text, and a file that others edit |
| Whisper models (`src/backend-whisper/app/`) | downloads and their worker processes, the resident model, leases of it, retired copies, checkpoints | download, retry, cancel, delete, lease, load, evict, release, shut down | two locks and a process per download; a model evicted under a decode; files replaced between a transcription's start and its checkpoint. One owner of the files; what is decoded with stays loaded; a checkpoint names its model |
| Settings, prompting and subtitle formats, client | values, text, a view | parse, render | no concurrent state of its own |

Who calls whom: the scan, the routes, the transcription work and the YouTube
worker create jobs and call `processQueue`. The queue asks the GPU gate, and the
gate reads the registry of transcription runs, the YouTube backlog and Convert.
A run that settles calls `startHeldQueue`. A job's slot calls the engine with
its connections and its abort signal. The review gate hides held jobs from
`countPendingJobs` and `claimPendingJob`.

## 2. The modules

| Module | Models | Checked by |
|---|---|---|
| `JobLedger` | what the queue promises: one worker per job and output, jobs end by their worker's hand, a restart gives jobs back | refined by `TranslationQueue` |
| `WorkLedger` | what the transcription work queue promises: one open item a video, one at a time and in order, a review before the hand-over, nothing over opened again | refined by `TranscriptionWork` |
| `TranslationQueue` | queue, jobs table, run marker, what scans and routes do to rows | `queue_*`, `putback_hang` |
| `SplitFile` | one file translated on every connection at once | `file_races` |
| `GpuSharing` | queue, transcription lanes, YouTube videos and Convert on one GPU | `gpu_*` |
| `TranscriptionWork` | the work queue, its source review, restarts | `work_*` |
| `YoutubeVideos` | followed playlists, their checks and filters, the rows of their videos, the worker's lanes | `yt_*` |
| `WhisperModels` | the backend's model files, downloads, loaded models, checkpoints | `whisper_models` |
| `MC...` | values of the constants for TLC | |
| `TranslationQueueProofs`; `QueueRunProofs` and `QueueLedgerProofs`, which extend it | theorems about the queue | TLAPS |
| `GpuSharingProofs`, `TranscriptionWorkProofs`, `SplitFileProofs`, `YoutubeVideosProofs`, `WhisperModelsProofs` | theorems about each of the others | TLAPS |

Each module names its `Features`: the events an instance lets the world do.
A run that leaves one out asks another question, and the runs of a module
together use all but those named in sections 5 and 6. An operator whose comment says
"Mutant" is never part of a specification: it is the definition below it with a
plausible mistake, and putting it in place must break the property it goes with.

### TranslationQueue

`vars` is grouped as the code groups it: rows and files, the marker, the module
variables of `queue.ts`, those of `queue/state.ts`, and the slots. A slot is at
one of the awaits of `workerLoop` and `runJob`: its idle delay (`"loop"`), the
wait for its connection's lock (`"waiting"`), the translation (`"engine"`) and
the title call (`"title"`).

- `ProcessQueue`, `BeginOrHold` and `StartTimerFires` are `processQueue` and its
  100 ms timers. Timers are coalesced into one flag, since a second firing finds
  the run live.
- `ClaimSkips` and `ClaimStarts` are one turn each of `claimNextJob`'s loop: a
  job consumed, or a job taken with its output. Priorities are left open, so any
  claimable job may be first.
- `LockArrives`, `PutBack`, `SlotExits`, `EngineFails`, `EngineCompletes`,
  `TitleSettles`, `ConnectionLost`, `SlotRejects` are the ways out of each await,
  with `releaseJob`, `releaseClaim` and what the catch and finally blocks do.
- `RoundEnds`, `RepairEnds`, `Finish` are the end of `runQueue`: the repair of
  titles, another round, the marker.
- `Retry`, `ForceJob`, `Retarget`, `Delete`, `Cancel`, `OutputGone` are the
  handlers of `routes/jobs.ts` and the scanner, `Crash` and `Boot` a restart.

Simplifications: ids are not reused; `restricted`, the jobs under review, is
the environment's; a marker write does not fail; the repair phase is always
there; microtask waits are merged with the step before them; the wait for a
lock is bounded by its deadline in the code, so `LockArrives` may happen at any
time; the stages inside `runJob` before the engine are one step. Database errors
are those of `SlotRejects`, before a job has begun. Two are left out: `runJob`
itself rejecting, when the update in `failJob` throws (`queue/run-job.ts:504`), and a
throw between two rounds (`queue.ts:255`). Either ends the run as failed, and its
finally puts the rows back as it does for `SlotRejects`; the first would also lose
a cancel of that job, so `CancelHolds` is about jobs whose end could be saved.

### SplitFile

An attempt is an original or a duplicate of a chunk, together with the worker
that runs it. Its stages are the awaits of `processChunk` and below: the probe
and the slot of its connection (`"ready"`, `"gate"`, `"woken"`), the call, an
answer to claim, and for an original the waits for its duplicate (`"hear"`,
`"part"`, `"lost"`) and the moment after an overflow (`"full"`).

- `Onward` is the cascade of `translateChunkWithFallback`; `TakesSlot`,
  `Releases`, `Stops` and `Halved` the gate of `concurrency-gate.ts` with its
  FIFO of waiters, who look at the limit again when woken.
- `SendsDuplicate`, `Claims`, `Forgets` are `chunk-hedge.ts`; `Quits`, `Loses`,
  `Requeues`, `Throws` are `runOriginal` and `worker`.
- `Start` loads the chunks saved under the same work key, `Writes` saves them,
  `Finishes` is the sweep, the rename and the removal of the saved progress.

Simplifications: each connection is a machine and a server of its own; the
order of connections is open, because busy ones move to the end, and so workers
are interchangeable and only counted; which connections health has given up is
open each time an attempt looks; any chunk in progress may be duplicated, since
time is left out; a call between its two tries counts as in flight; a single
line and a refinement take a slot and give it back without waiting for anything
else, and their slots are left out. A put-back chunk is taken again by the same
worker in the same tick. An attempt whose claim is followed by a failure ends in
one step, where the code waits for its duplicate first. A sibling that still
claims or saves after `Promise.all` has rejected does so before `WorkersEnd`. A
failure of the final write or rename ends the run with its chunks saved
(`Finishes`). Only a file split over connections is modelled; the
older mode, with one gate for the file, is not.

### GpuSharing

Two serial lanes of runs, the work queue's and the YouTube worker's, go
`"slot"`, `"gpu"`, `"call"`, `"publish"`. `GateOpen` and `TranscriptionMayStart`
are the two questions of `gpu-gate.ts`; `AsksQueue` and `StartsHeld` the queue's
side. `HoldEnds` is the 60 s for which a cancelled call still counts. Runs of a
URL are left out: they download between registering and their slot. The backend
is configured and reachable; delays of retries and polls are plain steps.
`orphaned` videos are unfollowed or gone from their playlist.

### TranscriptionWork

A file is the number of its last write, standing for content, revision and
stat. The items in memory and on disk are one variable: every change is saved
synchronously and taken back when the save fails. `TakesUp` to `Finishes` is
one turn of `drain`; `CrashInFinish` is a process that dies within the
synchronous end of it. `permitted` is a history variable: the targets the
present content of a transcript may be translated into, by plan or approval.
Left out: URL results, notes, the settings inside a plan, submissions of several
inputs at once. A drain that was thrown out by a store that cannot be saved is
`drain = "thrown"`. A cancel of a running, reviewed item is only in memory.
`CancelNotSaved` is a cancel of a running item whose save throws: the mark stays, but
the call behind the request is not aborted, so `Aborted` is the mark together
with what the cancel could do. A run may publish under either name, also over
a file that is there, for overwriting is the choice of the request.

### YoutubeVideos

A row is what `store.ts` keeps of a video: status, owner, why it is skipped,
whether the user picked it, failures, a retry time that is ahead or not.

- `StartCheck` to `EndsCheck` are `checkPlaylist` and `syncPlaylist`: the check
  begins with the settings of that moment, `ListingArrives` decides what a first
  sync leaves out, `AppliesListing` is the store's transaction. `TakesRow` and
  `Listed` are `listedState`: which listing may take a row over. A follow during
  a running check queues a first sync of its own behind it (`QueueCheck`).
- `BackfillChanges` and `ContentChanges` read the rows, wait for lookups in
  `changes`, and `ChangeDone` moves the rows that are as they were read.
- `UserDownload`, `UserRetry`, `UserSkip` are `applyUserAction`.
- `TakeVideo` to `DownloadRefused` are the download lane, `TakeSubtitle` to
  `SubtitleFails` the subtitle lane, `FinishBegins` to `FinishFails` the export
  when the translations have settled. `ClearsSeen` is `clearCooldown`.
- `Restart` loses lanes, checks and changes, and reconciles the rows.

Simplifications: a backfill choice is the set of videos it selects, for dates
and counts are data; the download of a whole playlist is `UserDownload` of each
video; what the rest of the server does with a video is `SubtitleMade` and
`JobsSettle`; the order among the ready videos is open but for the user's
picks; a note export is one step. The guard of `setStatus`, which throws on an
illegal move, is not a guard here: that lanes find their rows as they left them
(`LanesOwnTheirRows`) is why it never throws.

### WhisperModels

A download has a supervisor thread with a stage for each place where it waits
(`"start"`, `"watch"`, `"exit"`, `"reap"`, `"judge"`, `"wait"`, `"finish"`), and a
worker process that writes files on its own until it is seen to be gone. The
files of a model are a state and a revision. Steps that need
`_DOWNLOAD_CHANGED` wait for `DownloadsFree`, those that need `_CACHE_LOCK` for
`CacheFree`; a load holds it over two steps, `Lease` and `Loads`.

- `StartDownload`, `Cancel`, `Supervisor`, `WorkerWrites` to `WorkerDies` are
  `model_manager.py`; `DeleteAsked`, `DeleteChecked`, `DeleteRemoves` the route of
  a deletion, which unloads first, then checks, then removes file by file.
- `Begins`, `Lease`, `Loads`, `Release` are a transcription as `transcribe.py`
  and `model_loader.py` see it; `Evicted`, `RetiredBy` are `_evict_locked`.
- `Shutdown`, `ShutdownEnds`, `Restart`: a stop waits for downloads; a crash takes
  the worker processes along.

Simplifications: a request is accepted at any time its model has once been
there; one deletion runs at a time; no download begins during a shutdown; a
checkpoint that answers a request leaves no trace; changes of the media file
and the event streams are left out.

## 3. What the runs check

Deadlock is checked except where the system may stop: the cfgs with
`CHECK_DEADLOCK FALSE`. State counts are distinct states.

| Run | Instance | Question | States |
|---|---|---|---|
| `queue_outputs` | 2 jobs, 2 slots, one job's older name is the other's output; reviews, offline connections | who writes a file, and when: `OneWriterPerOutput`, `NoStartUnderReview`, refinement of `JobLedger` (`KeepsLedgerPromise`) | 897,680 |
| `queue_modes` | every scope and mode, switched in mid-run; stops, crashes, a gate, failing slots, cancels, retries | is a job or a run forgotten, and what runs beside what: `NoStrandedJob`, `MarkerCoversRun`, `InterruptedRunKept`, `SplitRunsAlone`, `ActiveCoversWork`, `CancelHolds` | 2,502,300 |
| `queue_finishes` | fairness, crashes, gate, cancels, titles, 3 modes | `RunsEnd`, `AskedJobsLeavePending`, `InterruptedRunFinishes` | 14,528 |
| `file_races` | 2 chunks, machines of 2 and 1 slots, 3 workers | `GateCountsCalls`, `NeverTwiceOnOne`, `WrittenOnce`, `FailsOnlyWhenLost`, `OutputIsComplete`, `FileEnds` | 836,120 |
| `gpu_turns` | 2 lanes, a video that is also a work input, limits 1 and 2, Convert | `SharedGpuIsExclusive`, `OneRunPerInput`, `RunsSettle` | 345,920 |
| `gpu_starts` | 1 file, 1 video, settings toggled | `HeldStartBegins` | 121,032 |
| `work_reviews` | a reviewed and a plain video, 2 items, 2 writes | `OnlyPermittedStarts`, `OneActivePerInput`, `CancelSticks`, `QueuedWorkMoves`, refinement of `WorkLedger` (`KeepsWorkPromise`) | 1,909,003 |
| `yt_filters` | 1 video that 2 playlists list, one of them with varying settings and listings | `UsersChoiceHolds`, `FirstSyncIsOwn` | 3,359,582 |
| `yt_lanes` | 2 videos of 1 playlist, pushbacks, failures, restarts | `LanesOwnTheirRows`, `PauseHolds`, `QueuedGetsItsTurn`, `DownloadedIsFinished` | 58,665 |
| `whisper_models` | a model that comes and goes, one that stays, 2 transcriptions (symmetric) | `FilesHaveOneOwner`, `LeasedStaysLoaded`, `NothingElseInMemory`, `CheckpointIsTrue`, `SuccessIsReal` | 3,018,312 |

`TypeOK` is checked by `file_races` and `yt_lanes`, and proved of every module. Two runs show a disagreement with the code's own
text; see section 6.

**Bounds.** Two jobs and two slots are enough for every conflict the queue
guards against: each one is between a job and one other, over an output, a lock
or a registration, and a slot that holds one while another claims. Two outputs
and an older spelling give the only overlap there is, one name of one job being
the other's. In `file_races` two chunks on two machines give a race, a gate
with a line, a shared context that overflows and a sibling that fails; the
larger limit is 2 so that it can shrink. At most one attempt waits at a gate
there: two attempts at one chunk never share a server. The run thus
checks the FIFO through put-backs and overtaking; lines of several waiters are
left to the proof (`GatesCount`). In `GpuSharing`,
`Cap`, `MaxWaiting`, `MaxHolds` and `Retries` are small because the code only
compares them. `MaxClock` and `MaxItems` in `TranscriptionWork` allow a
transcript, a rewrite of it, and a second item for the same video. In
`yt_filters` the ways of one row are the question, so one video is enough; two
playlists are needed for a takeover, and the second follows in manual mode
because ranks decide between the two. In `yt_lanes` two videos compete for
each lane. It has no user actions, filter changes or backfills, with which its
liveness outgrows a run: that a lane finds its row as it left it through those
too is the theorem `LanesHold`, and no run. One strike, one retry, one queued first sync and one filter change
in flight reach each way the code tells apart: a retry that is left and one
that is not, a cooldown the download saw and one it did not. In
`whisper_models` two wants and two requests give an eviction under a lease and
a copy that is asked for again while it is retired; three names of copies are
the resident one and one retired under each lease; two revisions are a download,
a deletion and another download.

**Fairness.** Every liveness run assumes that the event loop goes on and that
awaited calls return: HTTP calls, probes and lock waits all have timeouts. No
user action and no outside event is fair. In `TranslationQueue` each slot's
progress, the ends of a round and the start timer are weakly fair; `SplitFile`
assumes only that some step of the file is taken while one can be. `GpuSharing`
assumes it of each lane, of the download, the polls and the end of an abandoned
hold. `TranscriptionWork` assumes the drain's steps and a boot after a crash.
`YoutubeVideos` assumes weak fairness of what ends by itself, for every call of
yt-dlp has a timeout and a tick comes every half minute, and strong fairness
of `TakeVideo`, `TakeSubtitle`, `SubtitleMade` and `FinishDone`: that each ready
video gets a turn, and that Whisper and the notes folder do not fail for
ever. One put back has its retry time ahead while the next pass follows at once,
so the others come first. Its two liveness properties begin when the process
stays up and the user lets the rows be (`LeftAlone`).
Liveness is claimed only of runs that are let alone long enough: a stop, an
endless review or an endless stream of crashes is not assumed away where the
property would not need it, and named in the property where it would.

## 4. What is proved

TLAPS checks these for all values of the constants that satisfy
`QueueAssumption`, `SplitAssumption`, `GpuAssumption`, `WorkAssumption`, `YoutubeAssumption`,
`WhisperAssumption` and `NoCopyAssumption` (a copy of a model is not `None`).

**The queue.** `QueueInvariant: Spec => []QueueInv`, and from it `TypeCorrect`,
`WritersHoldClaims`, `ClaimsMatchPaths`, `OneWriter`, `NoJobStranded`.
That no two slots write one file is not inductive by itself. `QueueInv` adds:

- `WriterHoldsClaim`: a working slot's job is translating, and its claim is the
  path it writes;
- `ClaimsAreUnique`: no two rows claim one path (the partial unique index);
- `OneWorkerPerJob`: no two slots work on one job;
- `SlotsBelongToRun`: slots work only inside a run, so what happens between
  runs cannot take a claim away under one;
- `NoStrandedJob`: outside a run nothing is translating;
- `ClaimMatchesPath`: a claim is the row's own path.

The argument: claims are taken only when free, together with the work
(`ClaimStarts`); they are dropped only together with it (`SettlesSafe`), or for a
row that is not translating (`RowsSafe`), and such a row has no worker; a round
ends only when all slots have left (`QuietOutsidePump`). `TranslationQueueProofs`
proves the types first, then the rest as `Safe`, action by action. What follows
takes `QueueInv` for granted.

*The ledger.* `KeepsPromise: Spec => KeepsLedgerPromise`, the refinement of
`JobLedger`. `LedgerState` shows the rows as they are, a claimed job that waits
for its connection as translating; only a row marked translating that no slot
works on (after a crash, a stop, a failure or a put-back) counts as pending. `LedgerWriter` picks with a `CHOOSE` the job of the
slot that writes an output. Because two slots never write one output
(`OneWriterPerOutput`) there is only one to pick (`WriterOfOutput`), and the
mapped state depends on the rows and on which slots work. So each lemma names
what a step does to these two: a slot begins a job (`LedgerStartsJob`) or ends
it (`LedgerEndsJob`), a row without a worker changes (`LedgerMovesJob`), the process
dies or comes back. Whatever leaves both alone is a stutter (`LedgerStutters`).

*The run.* `MarkerCovers` and `InterruptedRunsKept`, from `RunInv`: a live run and
a held start exclude each other, a held start has its snapshot, nothing is left
of the request of a run that is over, and the marker covers what is asked.
`MergeCovers` and its companions are the algebra of scopes. `InterruptedRunKept`
excludes jobs under review: the end of a run looks for claimable jobs only
(`queue.ts:281`), and so takes the marker off when nothing but jobs under review
is left. `NoStartsUnderReview` needs only that the check is made after the wait.

*The slots.* `ActiveCovers`, `SplitJobsRunAlone` and `CancelsHold`, from `SlotInv`:
the job of each busy slot, those at their title call included, is active
(`BusyJobsActive`) and no other slot's (`BusyJobsDiffer`); a slot that translates
a split job is the only busy one (`SplitSlotAlone`); a job at its title call is
done or deleted (`TitledJobsRest`). The last one is what a re-run breaks, so the
three are stated for instances with `NoRerunDuringTitle`: no title calls, or no
retry, force and retarget. Without it all three fail; see section 6.

**One file on every connection.** `TypeCorrect`, `GatesCount`, `RaceIsApart`,
`ChunksAreWrittenOnce`, `FailureIsEarned` and `OutputsAreComplete`: every safety
property of `file_races`, for any chunks, connections and limits. Each step is
seen as the change of one attempt that goes on, leaves or writes, or that joins,
and `Inv` has two parts that are kept apart:

- `GateInv`. That nobody sleeps in a line while there is room is not inductive:
  a woken attempt may find the place taken again, or be aborted.
  `SlotsAreSpokenFor` is stronger: while somebody waits, those who call and those
  who were woken are at least as many as the limit. So whoever leaves a slot, or
  gives up a wake-up while there is room, wakes the next. `LinesAreWaiters` says
  that whoever stands in a line waits in it, and stands there once, `CallsAreCounted`
  that the count is that of the calls.
- `RaceInv`. `RecordKnowsConn` ties the record of a chunk to the connection its
  original asks, which gives `NeverTwiceOnOne`. `WinnersWrote` and `LosersAreTold`
  say that a winner has written its chunk and that the other attempt is ended;
  `ChunksAreHeld` that a chunk is to do, in somebody's hand or written, so
  the workers leave nothing out when they end; `FailureAborts` and
  `SavedIsWritten` are what a failure and a resume need.

**The GPU.** `TypeCorrect` and `OneRunEach`, for any settings and any changes of
them, from one invariant, `RunsInv`, a part of which is stated as `SlotsAreHandedOn`. A run registers only an input that no other
run has, and keeps it until it settles; the step of one lane may move the other
on, by handing it a slot, and must not take it out of, or into, the registry. So
the invariant says where the slots are: `SlotsInv`, the counter counts the lanes
that have one, and a lane waits only while the other has one, for the limit is
at least one and whoever gives a slot up hands it to the waiter. `VideoLane` says
that the YouTube worker transcribes files of videos only.

`SharedGpu: Spec => []SharedGpuIsExclusive`, for instances in which
the settings stay as they are (`"toggle" \notin Features`): with the setting
flipped while both run, the code promises nothing. Its invariant `GpuInv` adds
only the shape of the variables the gate reads. `OpenGateSeesNoRun` says what an
open gate implies, `GatedStepKeepsTurns` that a step through the gate keeps the
turns, and the other lemmas take the parties one by one.

**The work queue.** `WorkTypes`, `OneItemWorksOnAVideo`, `CancelIsKept`,
`NoStartIsLost`, `KeepsItsWorkPromise` and `OnlyPermitted`. That a video has one active item is not inductive:
the end of a run writes a status, and could make an item active that a cancel
had ended while another was submitted. `WorkInv` adds `CurrentIsKnown`: the item
whose run drain waits for is marked running, or is cancelled and drain knows it,
so a run that ends makes nothing active that was not (`RunIsOver`), and all other
saves go through `UpdateItems`. For `CancelSticks`, `CancelInv` adds `MarksHold`:
what is marked as cancelled during its run is running, cancelled or dropped. A
mark lives in memory only, so the promise to a running item ends with the
process (`up'` in the property).

`NoStartIsLost` is the part of `QueuedWorkMoves` that is about states: whatever is
queued while the process runs finds the drain on, or a store that could not be
saved (`QueuedIsDriven`, inductive with `WorkInv`).

`KeepsItsWorkPromise: Spec => KeepsWorkPromise` is the refinement of `WorkLedger`.
`LedgerStage` tells a queued item that has its transcript, which is to be handed
on, from one that is to be worked on, and puts cancelled and failed items
together as stopped. Each step that saves an item moves it alone (`ItemGoes`), and
the lemmas say to which stage: the end of a run that a cancel has overtaken is
the ledger's `Leave` when the cancel was saved before, and its `Stop` when it was
only marked; that it is nothing else is `CurrentIsKnown`. A restart queues a
running item again, which is the ledger's `Recover` only when it has no transcript
yet, or it would be handed on with an old one: `RunningIsFresh`.

`OnlyPermitted` is the promise of the source review. That a start needs
`AllowsAutomatic` says nothing by itself: an item may be gone, have ended without
its path, or hold a selection made for another content. `ReviewInv` says that
each file on disk is either covered (everything is permitted, or a selection
exists for this very content and lists nothing that is not permitted,
`SelectionsOK`) or guarded (`Guards`) by an item whose transcript it is, or that
may have written it since its review began. `FileNumbers` keeps the numbers of
writes in order, so that a rewritten file is never taken for the one a selection
was made for. `RecordsOK` says which records have a path and a beginning, `RunOK`
what the run in flight may have written, `ReviewsOK` that what is under review
has no selection yet and what was approved is permitted. `SavedItem` covers every
step that saves an item, `ChangedFile` every step that touches a file, and
`AllowedIsPermitted` reads the property off the invariant. `ReviewAssumption` has
three parts, each needed, and TLC shows what happens without it:

- no `"expire"`: with it retention drops a failed item whose run had published,
  and the next scan starts on that transcript (section 5);
- no two reviewed videos with a transcript name in common (`a.mp4` and `a.mkv`):
  otherwise one approval withdraws targets of the file that the other, earlier
  one still hands out;
- no crash, or one name per reviewed video: otherwise the run that is begun again
  writes a second name, which is the run `work_orphan`.

**YouTube.** `YoutubeTypes`, `LanesHold`, `PausesHold`, `ChoicesHold` and
`FirstSyncOwn`. `YtInvariant: Spec => []YtInv` adds to the types and
`LanesOwnTheirRows`: `SkipsAreSkipped`, a row has a reason only when it is skipped
and none while a lane has it; `ChangesReadNoLane`, a filter change read no
row that a lane holds, so a row it may still move is not one a lane waits on;
`DownloadsBeganUnpaused`, a running download saw no more strikes than are on
record, and fewer once there is a pause, so that it lifts none. The lanes exclude each other by the status they start from, listings and
filters touch only rows nobody acted on (`Untouched`, `Unchanged`). `ChoicesHold`
takes the steps that write a row one by one. `FirstSyncOwn` is stated for
instances in which YouTube does not push back, and its `FirstInv` says why: a
check left over from an earlier follow always has a check of the present one
queued behind it, which takes its mark off again. With a push back the queued
check is dropped; see section 6.

**Whisper models.** The downloads come first: `DownloadInv` says in which stages
of its supervisor a worker process may live, that a model being removed is not
being downloaded, and that an attempt judged complete left the files complete.
From it `OneOwner` and `Successes`. The loader's invariant uses of the downloads
only that the revision of files never falls. `MemoryInv` has the leases of a key
count the decodes that run on it, nothing resident while a request loads, and
`LeasesHold` and `MemoryIsBounded` as conjuncts. `FilesInv` says that a copy is of
the files its key names, or these are gone for good, and that a transcription
whose files are still those it began with holds the key of them: the check of
the identity at its end then gives `CheckpointsAreTrue`. `WhisperTypes` is the type
invariant for every instance, with `Delays` as the bound of a download's retries.

Before its proof, TLC checked each inductive invariant as an invariant of a run
of its module; `RunsInv` on `gpu_turns`, `ReviewInv` on `work_reviews` and on an
instance without crashes whose reviewed video has two names (5,962,754 states).

**Only model-checked:** liveness, because TLAPS has no support for `ENABLED` and
so for fairness: `RunsEnd`, `AskedJobsLeavePending`, `InterruptedRunFinishes`,
`RunsSettle`, `HeldStartBegins`, `QueuedWorkMoves`, `FileEnds`, `QueuedGetsItsTurn`,
`DownloadedIsFinished`. Every other property of a passing run is a theorem.

## 5. What is not modelled

- Text: prompts, subtitle formats, language codes, corrections, titles. They are
  functions of their input, long ones, and without state.
- Settings parsing, the client, logs, usage rows, notifications: no state that
  another part relies on.
- The walk of the library and its caches; the chain of promises of a lock;
  Convert's files and their recovery; the journal of YouTube notes. In the plan.
- The backend's packaging and provisioning: calls to the operating system.
- Liveness of the Whisper backend. A stop waits for its downloads without a
  deadline (`model_manager.py:407`), and a worker's exit is the system's to give.
- In `TranscriptionWork` the feature `"expire"` is used by no run: retention
  drops a cancelled or failed review item whose run published without a
  recorded path, and with it the only hold on that transcript
  (`transcription/work.ts:237`). The code promises nothing there.
- Observed while modelling, and covered by no property: a stop is not on disk
  until the run has wound down (`queue.ts:116`); a start asked for while a stopped
  run winds down is dropped (`queue.ts:233`); with both lanes busy the cap of 20
  waiting subtitles never opens the gate, because it counts registered runs,
  waiting ones included (`gpu-gate.ts:34`); a cancelled run that waits for a slot
  keeps its place until it has one; a review item left running by two failed
  saves cannot be cancelled until a restart; a video that finds the GPU taken
  waits two minutes and may find the next Convert batch on it
  (`youtube/worker.ts:488`); a lock's chain grows by one promise per wait
  (`connection-lock.ts:29`).

## 6. Where the code and its text disagree

| Run | What it shows |
|---|---|
| `putback_hang` | the put-back for a review (`queue.ts:485`) leaves the job active; in split mode the run then waits for it until it is stopped |
| `work_orphan` | a restart between the publication of a reviewed transcript and its record (`routes/transcription-runtime.ts:364`) leaves a transcript that no hold matches. `work_reviews` therefore gives a video one transcript name |

Others show when an event is added to a passing run's `Features`. The runs leave
those events out, and their results hold without them only:

- `CancelHolds` with `"title"` in `queue_modes`: `releaseJob` (`queue/state.ts:81`)
  drops a job's cancel mark for the run before, so a cancel of a forced re-run
  is lost when the earlier run leaves its title call.
- `ActiveCoversWork` likewise, with `"title"`, `"force"` and `"offline"`: a claimed
  re-run is active from its claim on (`queue.ts:372`), but has its own controller
  only from `beginJob`, after its connection's lock. While it waits, `releaseJob`
  of the run before takes its activity mark away, which the comment at
  `queue/state.ts:63` says cannot happen. `SplitRunsAlone` fails in the same
  instances: the end of a slot's title call clears `splitJobRunning`
  (`queue.ts:492`), whichever slot had set it.
- `HeldStartBegins` with `"unfollow"` in `gpu_starts`: `whisperBacklog`
  (`youtube/worker.ts:442`) counts queued videos that nothing will download, and
  translation waits behind them.
- `FirstSyncIsOwn` with `"pushback"` in `yt_filters`: a check of an earlier follow
  that is in flight is recorded as the first sync of the present one when a
  cooldown drops the check queued behind it (`youtube/worker.ts:547`).

The models also contain, and their properties make room for:

- A filter change undoes a user's skip: it read a video that was skipped already,
  and `unchanged` compares statuses (`youtube/sync.ts:324`). `ReadBefore` in
  `UsersChoiceHolds` is this exception, for the step of that change alone.
- What a first sync left out may be queued by a later one, once another playlist
  took the row over and was unfollowed (`youtube/sync.ts:242`); Shorts that are
  turned on during a first sync stay left out; a failed lookup takes back the
  Shorts setting but not the rows it had skipped; a backfill change queues by the
  mode the playlist had before the lookups.
- A deletion checks the leases and then removes the files, and a transcription
  may lease the model in between (`main.py:602`, `model_manager.py:73`). It goes on
  with what is in memory, so the memory properties hold through it; that the
  files of a leased model stay does not.

## 7. Plan

Done, in this order: `TranslationQueue` with `JobLedger` and its proofs,
`GpuSharing`, `TranscriptionWork`, `SplitFile`, `YoutubeVideos`, `WhisperModels`
with theirs. Every safety and action property of the passing runs is a theorem,
and so are the refinements of `JobLedger` and `WorkLedger`.

Next, most important first:

1. An abstract source review (a transcript is open, held or settled), from
   `ReviewInv`: `WorkLedger` has the items, and says nothing of the files.
2. `ConvertBatches`: the order of saves and removals around a crash.
3. `ConnectionLock`: the chain of promises and the deadline, as the abstract lock
   `TranslationQueue` assumes.
4. `NoteJournal`, `LibraryScan` (single flight).
5. `MCQueueRequests`: the order of start and stop requests, as history.

The runs are kept to a dozen. A new module's run takes the place of a
disagreement that has been settled, or is merged with a run that asks the same
of the same module.
