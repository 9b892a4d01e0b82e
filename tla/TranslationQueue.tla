-------------------------- MODULE TranslationQueue --------------------------
(***************************************************************************)
(* The translation queue of the server: the jobs table (src/server/db.ts), *)
(* the run that works through it (src/server/queue.ts), the in-memory      *)
(* registry of active jobs (queue/state.ts), the stages of one job         *)
(* (queue/run-job.ts) and the on-disk marker of an unfinished run          *)
(* (queue/run-marker.ts).                                                  *)
(*                                                                         *)
(* The server is one Node event loop, so a step of this specification is   *)
(* the code between two awaits: it runs without interruption, and any      *)
(* other handler may run before the next one.  A worker slot suspends at   *)
(* four places: its idle delay ("loop"), the wait for its connection's     *)
(* lock ("waiting"), the translation itself ("engine") and the title call  *)
(* after it ("title").                                                     *)
(***************************************************************************)
EXTENDS Integers, FiniteSets

CONSTANTS
  Jobs,          \* rows the jobs table may ever hold (ids are never reused)
  NumSlots,      \* configured connections, and worker slots of a run
  Outputs,       \* output paths, up to letter case (caseKey)
  Standard,      \* Standard[j]: the name job j's task writes
  Spellings,     \* Spellings[j]: every name that counts as that output
  AutoTranslate, \* the values auto_translate may have at a boot
  Modes,         \* the modes the user switches between (ModeNames)
  Requests,      \* the scopes a run may be asked for
  Features,      \* which external events and settings this instance has
  AllJobs,       \* the scope of a run of all pending jobs (ids = null)
  NoRun, NoJob, NoSlot, NoOutput

Slots == 0 .. NumSlots - 1
Conns == Slots  \* the connections, in their configured order
Status == {"absent", "pending", "translating", "done", "skipped", "error",
           "deleted"}
Scopes == {AllJobs} \cup ((SUBSET Jobs) \ {{}})
\* "single" stands for llm_mode single and fallback, "split" for parallel with
\* llm_split_file.
ModeNames == {"single", "parallel", "split"}
\* What may happen to the queue from outside.  Every instance has enqueueing
\* and run requests; the rest is switched on by name.
AllFeatures == {"cancel", "crash", "delete", "faults", "files", "force", "gate",
                "offline", "retarget", "retry", "review", "stop", "switch",
                "title"}

ASSUME QueueAssumption ==
  /\ NumSlots \in Nat \ {0}
  /\ Standard \in [Jobs -> Outputs]
  /\ Spellings \in [Jobs -> SUBSET Outputs]
  /\ AutoTranslate \subseteq BOOLEAN /\ AutoTranslate # {}
  /\ Modes \subseteq ModeNames /\ Modes # {}
  /\ Requests \subseteq Scopes
  /\ Features \subseteq AllFeatures
  /\ AllJobs # NoRun
  /\ \A ids \in SUBSET Jobs : ids # AllJobs /\ ids # NoRun
  /\ NoJob \notin Jobs /\ NoSlot \notin Slots /\ NoOutput \notin Outputs

VARIABLES
  \* SQLite and the disk: kept over a crash
  status, force,   \* the row's status and force columns
  out, claim,      \* output_path, and output_claim (the writer's claim)
  files,           \* finished output files on disk
  marker,          \* data/queue-run.json
  restricted,      \* jobs an open source review keeps from translating
  \* the module state of queue.ts and gpu-gate.ts
  phase,           \* "down", "idle", "pump" (slots run), "repair" (titles)
  stop, failed,    \* stopRequested; a slot rejected
  filter, scope,   \* runFilter; currentRunScope
  requested,       \* requestedRun
  prior,           \* priorPending of the live run
  held, heldPrior, \* the start the GPU gate holds; heldPriorPending
  startTimer,      \* a setTimeout(runQueueSafely, 100) is outstanding
  splitRunning,    \* splitJobRunning
  claimed,         \* claimedJobs
  \* queue/state.ts
  active,          \* activeJobIds
  owner,           \* owner[j]: the slot whose controller abortControllers has
  cancelled,       \* cancelledJobIds
  offline,         \* offlineConnectionIds
  \* the worker slots
  pc, job, conn, split, \* where a slot is; its job, primary and split constants
  \* the environment
  gateOpen, mode   \* the GPU gate; llm_mode with llm_split_file

rows == <<status, force, out, claim, files>>
runVars == <<phase, stop, failed, filter, scope, requested, prior>>
holdVars == <<held, heldPrior, startTimer>>
stateVars == <<active, owner, cancelled, offline>>
slotVars == <<pc, job, conn, split, splitRunning, claimed>>
env == <<gateOpen, mode, restricted>>
vars == <<rows, marker, runVars, holdVars, stateVars, slotVars, env>>

-----------------------------------------------------------------------------
(* Scopes: null ids stand for all jobs, otherwise a non-empty id list.     *)

InScope(j, sc) == sc = AllJobs \/ (sc # NoRun /\ j \in sc)

Merge(a, b) == IF a = NoRun THEN b
               ELSE IF AllJobs \in {a, b} THEN AllJobs ELSE a \cup b

\* Jobs in the table's state st that countPendingJobs and claimPendingJob see.
Claimable(st, sc) ==
  {j \in Jobs : st[j] = "pending" /\ j \notin restricted /\ InScope(j, sc)}

\* interruptedPendingIds: the pending ids of an earlier, unfinished run.
PendingOf(m, st) == {j \in Jobs : st[j] = "pending" /\ InScope(j, m)}

\* markQueueRun: a run that is asked for widens the one on disk.  Mutant: it
\* replaces it.
MarkOnly(ids) == ids
Marked(ids) == Merge(marker, ids)

\* restoreStoppedRun: what the marker keeps when the run of scope sc stops.
\* Mutant: nothing.
RestoredNothing(before, sc, st) == NoRun
Restored(before, sc, st) ==
  LET left == {j \in before : ~InScope(j, sc) /\ st[j] = "pending"}
  IN  IF left = {} THEN NoRun ELSE left

Running == phase \in {"pump", "repair"}
Live == {s \in Slots : pc[s] # "exited"}
Busy == {s \in Slots : pc[s] \in {"waiting", "engine", "title"}}

-----------------------------------------------------------------------------
(* Which slot may claim, re-read on every loop (adaptiveWorker).           *)

Pool == IF offline = Conns THEN Conns ELSE Conns \ offline
Parallel == mode # "single" /\ Cardinality(Pool) > 1
Split == mode = "split" /\ Parallel
Rank(s) == Cardinality({t \in Live : t < s})
Turn(s) == IF Parallel /\ ~Split /\ s < Cardinality(Pool) THEN s ELSE Rank(s)
Concurrency == IF Parallel /\ ~Split THEN Cardinality(Pool) ELSE 1
\* Mutants: a parallel slot ignores a split job; claims count, not active jobs.
WaitsIfSplit == Split /\ active # {}
WaitsForClaims == IF Split THEN claimed # {} ELSE splitRunning
WaitsForOtherFiles == IF Split THEN active # {} ELSE splitRunning
MayClaim(s) == Turn(s) < Concurrency /\ ~WaitsForOtherFiles

\* c is the connection of the slot's turn in the pool.
IsPrimary(c, s) ==
  /\ c \in Pool
  /\ Cardinality({d \in Pool : d < c})
       = IF Parallel /\ ~Split THEN Turn(s) ELSE 0

\* A busy slot holds its primary's lock, or waits for it, until it loops; a
\* job that is being translated may also hold another connection's lock, for
\* the length of a chunk (tryAcquireConnectionLock).
LockTaken(c) == \E t \in Busy : conn[t] = c
ChunkMayHoldLock == \E t \in Slots : pc[t] = "engine"

-----------------------------------------------------------------------------
Idle ==
  /\ phase = "idle" /\ stop = FALSE /\ failed = FALSE
  /\ filter = NoRun /\ scope = NoRun /\ requested = NoRun /\ prior = {}
  /\ held = NoRun /\ heldPrior = NoRun /\ startTimer = FALSE
  /\ active = {} /\ owner = [j \in Jobs |-> NoSlot] /\ cancelled = {}
  /\ offline = {}
  /\ pc = [s \in Slots |-> "exited"] /\ job = [s \in Slots |-> NoJob]
  /\ conn = [s \in Slots |-> NoSlot]
  /\ split = [s \in Slots |-> FALSE] /\ splitRunning = FALSE /\ claimed = {}

\* A table with some jobs queued, perhaps under an older name of their output,
\* some outputs already on disk, and no run recorded.
Init ==
  /\ status \in [Jobs -> {"absent", "pending"}]
  /\ force = [j \in Jobs |-> FALSE]
  /\ out \in {f \in [Jobs -> Outputs] : \A j \in Jobs : f[j] \in Spellings[j]}
  /\ claim = [j \in Jobs |-> NoOutput]
  /\ files \in IF "files" \in Features THEN SUBSET Outputs ELSE {{}}
  /\ marker = NoRun
  /\ restricted = {}
  /\ gateOpen = TRUE /\ mode \in Modes
  /\ Idle

-----------------------------------------------------------------------------
(* Starting a run.                                                         *)

\* The start the gate held begins with the run.
TakeHeld == held' = NoRun /\ heldPrior' = NoRun

\* processQueue with no run live: the marker widens first, then the gate
\* decides between a run and a held start.  hd is the start held so far.
BeginOrHold(ids, st, hd) ==
  LET before == IF heldPrior # NoRun THEN heldPrior ELSE PendingOf(marker, st)
      all == Merge(hd, ids)
  IN  /\ marker' = Marked(ids)
      /\ \/ /\ gateOpen
            /\ phase' = "pump" /\ filter' = all /\ scope' = all
            /\ prior' = before
            /\ TakeHeld
            /\ pc' = [s \in Slots |-> "loop"]
            /\ stop' = FALSE /\ active' = {} /\ cancelled' = {} /\ offline' = {}
            /\ owner' = [j \in Jobs |-> NoSlot]
         \/ /\ ~gateOpen
            /\ held' = all /\ heldPrior' = before
            /\ phase' = "idle"
            /\ UNCHANGED <<filter, scope, prior, pc, stop, stateVars>>
      /\ UNCHANGED <<failed, requested, job, conn, split, splitRunning,
                     claimed>>

\* processQueue while a run is live: it only widens what the run will do.
WidenRun(ids) ==
  /\ marker' = Marked(ids)
  /\ scope' = Merge(scope, ids)
  /\ requested' = IF filter # AllJobs THEN Merge(requested, ids) ELSE requested
  /\ UNCHANGED <<phase, stop, failed, filter, prior, held, heldPrior,
                 stateVars, slotVars>>

ProcessQueue(ids) == \/ Running /\ WidenRun(ids)
                     \/ phase = "idle" /\ BeginOrHold(ids, status, held)

\* POST /api/queue/start (refused while a run is live), and the watcher, the
\* auto-scan and the transcription work queue (not refused).
RequestRun(ids) ==
  /\ ProcessQueue(ids)
  /\ UNCHANGED <<rows, startTimer, env>>

\* The 100 ms timer of the retry, force and translate-file routes.
StartTimerFires ==
  /\ startTimer /\ startTimer' = FALSE
  /\ ProcessQueue(AllJobs)
  /\ UNCHANGED <<rows, env>>

\* startHeldQueue, called whenever something that closed the gate has ended.
StartHeldQueue ==
  /\ phase = "idle" /\ held # NoRun /\ gateOpen
  /\ BeginOrHold(held, status, NoRun)
  /\ UNCHANGED <<rows, startTimer, env>>

RequestStop ==
  /\ "stop" \in Features /\ phase # "down"
  /\ held' = NoRun
  /\ \/ /\ Running
        /\ stop' = TRUE
        /\ UNCHANGED <<marker, heldPrior>>
     \/ /\ ~Running /\ held # NoRun
        /\ LET before == IF heldPrior = NoRun THEN {} ELSE heldPrior
           IN  marker' = Restored(before, held, status)
        /\ heldPrior' = NoRun
        /\ UNCHANGED stop
  /\ UNCHANGED <<rows, phase, failed, filter, scope, requested, prior,
                 startTimer, stateVars, slotVars, env>>

-----------------------------------------------------------------------------
(* A worker slot claims a job (claimNextJob).                              *)

\* getJobOutputOwner.  Mutant: claims are not looked up.
OwnerOfNone(o) == {}
OwnerOf(o) == {j \in Jobs : claim[j] = o}

\* existingTaskOutput: the output on disk, the name the task writes first.
Found(j) == IF Standard[j] \in files THEN {Standard[j]}
            ELSE Spellings[j] \cap files

\* resolvedOutputPath: the standard name, unless only another spelling is on
\* disk and nobody else claims that file.
Written(j) == IF out[j] \in Spellings[j] THEN Standard[j] ELSE out[j]
Resolved(j) ==
  LET std == Written(j)
  IN  IF std \in files \/ Found(j) = {} THEN {std}
      ELSE {IF OwnerOf(o) \subseteq {j} THEN o ELSE std : o \in Found(j)}

\* claimPendingJob and the bookkeeping every outcome shares.
Takes(s, j) ==
  /\ pc[s] = "loop" /\ ~stop /\ MayClaim(s)
  /\ j \in Claimable(status, filter)
  /\ claimed' = claimed \cup {j}
  /\ UNCHANGED <<runVars, holdVars, marker, env, cancelled, offline, force,
                 files>>

Exists(j, o) == o \in files /\ ~force[j]
\* A changed output name moves the job's own claim along with it.
NeedsClaim(j, o) == ~Exists(j, o) \/ (o # out[j] /\ claim[j] = out[j])

\* Another job owns the output: this one ends as an error.
ClaimConflicts(s, j) ==
  /\ Takes(s, j)
  /\ \E o \in Resolved(j) : ~(OwnerOf(o) \subseteq {j})
  /\ status' = [status EXCEPT ![j] = "error"]
  /\ UNCHANGED <<out, claim, active, owner, pc, job, conn, split, splitRunning>>

\* The output is already there and no re-translation was forced.
ClaimSkips(s, j) ==
  /\ Takes(s, j)
  /\ \E o \in Resolved(j) :
       /\ OwnerOf(o) \subseteq {j} /\ Exists(j, o)
       /\ out' = [out EXCEPT ![j] = o]
       /\ claim' = IF NeedsClaim(j, o) THEN [claim EXCEPT ![j] = o] ELSE claim
  /\ status' = [status EXCEPT ![j] = "skipped"]
  /\ UNCHANGED <<active, owner, pc, job, conn, split, splitRunning>>

\* registerActiveJob.  Mutant: the claim does not register the job.
RegisterLate(j) == UNCHANGED active
RegisterActive(j) == active' = active \cup {j}

\* runJob begins: it registers the abort controller (beginJob).
Begins(s, j, whole) ==
  /\ pc' = [pc EXCEPT ![s] = "engine"]
  /\ owner' = [owner EXCEPT ![j] = s]
  /\ splitRunning' = whole

\* The job is this slot's.  It begins at once when the lock of the slot's
\* connection is free, otherwise the slot waits for it, up to
\* CONNECTION_LOCK_WAIT_MS.
ClaimStarts(s, j) ==
  /\ Takes(s, j)
  /\ \E o \in Resolved(j) :
       /\ OwnerOf(o) \subseteq {j} /\ ~Exists(j, o)
       /\ out' = [out EXCEPT ![j] = o]
       /\ claim' = [claim EXCEPT ![j] = o]
  /\ status' = [status EXCEPT ![j] = "translating"]
  /\ RegisterActive(j)
  /\ job' = [job EXCEPT ![s] = j]
  /\ split' = [split EXCEPT ![s] = Split]
  /\ \E c \in Conns :
       /\ IsPrimary(c, s)
       /\ conn' = [conn EXCEPT ![s] = c]
       /\ \/ ~LockTaken(c) /\ Begins(s, j, Split)
          \/ /\ LockTaken(c) \/ ChunkMayHoldLock
             /\ pc' = [pc EXCEPT ![s] = "waiting"]
             /\ UNCHANGED <<owner, splitRunning>>

\* The review check after the wait.  Mutant: the one at the claim is enough.
MayBeginAnyway(s) == TRUE
MayBegin(s) == job[s] \notin restricted

\* The wait for the connection is over, with its lock or past the deadline.
LockArrives(s) ==
  /\ pc[s] = "waiting" /\ ~stop /\ MayBegin(s)
  /\ Begins(s, job[s], split[s])
  /\ UNCHANGED <<rows, marker, runVars, holdVars, active, cancelled, offline,
                 job, conn, split, claimed, env>>

\* A slot gives its job up, for the next turn of its loop or for good.
Leaves(s, to) ==
  /\ pc' = [pc EXCEPT ![s] = to]
  /\ job' = [job EXCEPT ![s] = NoJob]
  /\ conn' = [conn EXCEPT ![s] = NoSlot]
  /\ split' = [split EXCEPT ![s] = FALSE]

RowReturns(j) == status' = [status EXCEPT ![j] = "pending"]

\* A review began while the claimed job waited: it goes back to pending.  The
\* active marker that claimNextJob set is left behind.
PutBack(s) ==
  /\ pc[s] = "waiting" /\ ~stop /\ job[s] \in restricted
  /\ RowReturns(job[s])
  /\ claimed' = claimed \ {job[s]}
  /\ splitRunning' = FALSE
  /\ Leaves(s, "loop")
  /\ UNCHANGED <<force, out, claim, files, marker, runVars, holdVars, stateVars,
                 env>>

\* A slot leaves its loop: the stop, or nothing left for it to do.
SlotExits(s) ==
  /\ \/ pc[s] \in {"loop", "waiting"} /\ stop
     \/ /\ pc[s] = "loop" /\ Claimable(status, filter) = {}
        /\ MayClaim(s) \/ active = {}
  /\ Leaves(s, "exited")
  /\ splitRunning' = (splitRunning /\ pc[s] # "waiting")
  /\ UNCHANGED <<rows, marker, runVars, holdVars, stateVars, claimed, env>>

\* The database or the settings throw outside a job: the slot rejects, and
\* runSlot stops the others.  A job it had claimed stays translating.
SlotRejects(s) ==
  /\ "faults" \in Features
  /\ \/ /\ pc[s] = "loop" /\ ~stop
        /\ \/ UNCHANGED <<status, claimed>>
           \/ /\ MayClaim(s)
              /\ \E j \in Claimable(status, filter) :
                   /\ status' = [status EXCEPT ![j] = "translating"]
                   /\ claimed' = claimed \cup {j}
        /\ UNCHANGED splitRunning
     \/ /\ pc[s] = "waiting" /\ ~stop /\ splitRunning' = FALSE
        /\ UNCHANGED <<status, claimed>>
  /\ Leaves(s, "exited")
  /\ stop' = TRUE /\ failed' = TRUE
  /\ UNCHANGED <<force, out, claim, files, marker, phase, filter, scope,
                 requested, prior, holdVars, stateVars, env>>

-----------------------------------------------------------------------------
(* The stages of one job (runJob).                                         *)

DropsOwn(s) ==
  /\ owner' = [owner EXCEPT ![job[s]] = IF @ = s THEN NoSlot ELSE @]
  /\ active' = IF owner[job[s]] = s THEN active \ {job[s]} ELSE active

\* releaseJob: only the run whose controller is registered clears the
\* registrations, but the cancel marker goes in any case.
Releases(s) ==
  /\ DropsOwn(s)
  /\ cancelled' = cancelled \ {job[s]}
  /\ Leaves(s, "loop")
  /\ splitRunning' = FALSE
  /\ UNCHANGED offline

\* failJob: a stop beats a cancel, and both a cancel and a failure end the
\* job as an error.
FailedStatus == IF stop THEN "pending" ELSE "error"

\* The engine throws: no task, no connection, an LLM failure, an abort.
EngineFails(s) ==
  /\ pc[s] = "engine"
  /\ status' = [status EXCEPT ![job[s]] = FailedStatus]
  /\ Releases(s)
  /\ UNCHANGED <<force, out, claim, files, marker, runVars, holdVars, claimed,
                 env>>

\* Mutant: a cancel is only noticed while the engine runs.
CancelUnseen(s) == FALSE
CancelSeen(s) == job[s] \in cancelled

\* The engine renames its .part file over the output; settleJob then marks
\* the job done unless it was cancelled in the meantime.
EngineCompletes(s) ==
  /\ pc[s] = "engine"
  /\ files' = files \cup {out[job[s]]}
  /\ \/ /\ CancelSeen(s)
        /\ status' = [status EXCEPT ![job[s]] = FailedStatus]
        /\ UNCHANGED force
        /\ Releases(s)
     \/ /\ ~CancelSeen(s)
        /\ status' = [status EXCEPT ![job[s]] = "done"]
        /\ force' = [force EXCEPT ![job[s]] = FALSE]
        /\ \/ Releases(s)
           \/ /\ "title" \in Features  \* title_sidecar: one more LLM call
              /\ pc' = [pc EXCEPT ![s] = "title"]
              /\ UNCHANGED <<job, conn, split, splitRunning, stateVars>>
  /\ UNCHANGED <<out, claim, marker, runVars, holdVars, claimed, env>>

\* writeJobTitle never throws, whatever became of its call.
TitleSettles(s) ==
  /\ pc[s] = "title"
  /\ Releases(s)
  /\ UNCHANGED <<rows, marker, runVars, holdVars, claimed, env>>

\* onConnectionUnavailable: the run gives up on a connection the job may use,
\* its primary or, by cascading, another.
ConnectionLost(s) ==
  /\ "offline" \in Features /\ pc[s] = "engine"
  /\ \E c \in Conns \ offline : offline' = offline \cup {c}
  /\ UNCHANGED <<rows, marker, runVars, holdVars, active, owner, cancelled,
                 slotVars, env>>

-----------------------------------------------------------------------------
(* The end of a round and of the run (processQueue after allSettled).      *)

AllExited == \A s \in Slots : pc[s] = "exited"

\* Mutant: claims that never reached runJob are forgotten.
HandedBackNone == status
HandedBack == [j \in Jobs |-> IF j \in claimed /\ status[j] = "translating"
                                THEN "pending" ELSE status[j]]

\* The finally block: jobs still translating go back to pending, the marker
\* is settled, and the module state is cleared.
Finish ==
  LET st == HandedBack
  IN  /\ status' = st
      /\ marker' = IF failed THEN marker
                   ELSE IF stop THEN Restored(prior, scope, st)
                   ELSE IF Claimable(st, marker) = {} THEN NoRun ELSE marker
      /\ phase' = "idle" /\ stop' = FALSE /\ failed' = FALSE
      /\ filter' = NoRun /\ scope' = NoRun /\ requested' = NoRun /\ prior' = {}
      /\ active' = {} /\ owner' = [j \in Jobs |-> NoSlot] /\ cancelled' = {}
      /\ offline' = {} /\ claimed' = {}
      /\ UNCHANGED <<force, out, claim, files, holdVars, pc, job, conn,
                     split, splitRunning, env>>

\* Every slot has settled: a stopped or failed run ends, any other repairs
\* the title sidecars of the jobs it skipped.
RoundEnds ==
  /\ phase = "pump" /\ AllExited
  /\ \/ stop /\ Finish
     \/ /\ ~stop /\ phase' = "repair"
        /\ UNCHANGED <<rows, marker, stop, failed, filter, scope, requested,
                       prior, holdVars, stateVars, slotVars, env>>

\* nextRunFilter takes up a start asked for meanwhile once the run's own jobs
\* are done.
TakesUp == requested # NoRun /\ Claimable(status, filter) = {}

\* Another round follows while anything is left.  Mutant: only for a new start.
RoundForStart(next) == ~stop /\ TakesUp /\ Claimable(status, next) # {}
AnotherRound(next) == ~stop /\ Claimable(status, next) # {}

RepairEnds ==
  LET next == IF TakesUp THEN requested ELSE filter
  IN  /\ phase = "repair"
      /\ \/ /\ AnotherRound(next)
            /\ phase' = "pump" /\ filter' = next
            /\ requested' = IF TakesUp THEN NoRun ELSE requested
            /\ pc' = [s \in Slots |-> "loop"]
            /\ UNCHANGED <<rows, marker, stop, failed, scope, prior, holdVars,
                           stateVars, job, conn, split, splitRunning, claimed,
                           env>>
         \/ ~AnotherRound(next) /\ Finish

-----------------------------------------------------------------------------
(* The job routes.                                                         *)

\* What a route that only edits rows leaves alone.
OnlyRows == UNCHANGED <<files, marker, runVars, held, heldPrior, stateVars,
                        slotVars, env>>

\* createJob: the scanner, the watcher, the YouTube worker, translate-file.
Enqueue(j) ==
  /\ phase # "down" /\ status[j] = "absent"
  /\ status' = [status EXCEPT ![j] = "pending"]
  /\ UNCHANGED <<force, out, claim, startTimer>> /\ OnlyRows

InTable(j) == status[j] \notin {"absent", "deleted"}

\* The status <> 'translating' of resetJob, forceJob and deleteJob.  Mutant:
\* any row.
InTableNow(j) == InTable(j)
Editable(j) == InTable(j) /\ status[j] # "translating"

\* resetJob: a translating job is refused.
Retry(j) ==
  /\ "retry" \in Features
  /\ phase # "down" /\ Editable(j)
  /\ status' = [status EXCEPT ![j] = "pending"]
  /\ startTimer' = TRUE
  /\ UNCHANGED <<force, out, claim>> /\ OnlyRows

\* Whom the scanner takes for an output's owner: a row with that path and any
\* claim, or else one that will write there.
Owners(o) ==
  LET at == {j \in Jobs : out[j] = o}
      owning == {j \in at : claim[j] # NoOutput}
  IN  IF owning # {} THEN owning
      ELSE {j \in at : status[j] \in {"pending", "translating"}}

\* A finished job whose output is gone from disk (scanner), or a failed one that
\* nothing on disk or in the table is in the way of (translate-file).
OutputGone(j) ==
  /\ status[j] \in {"done", "skipped"} /\ out[j] \notin files
  /\ \A o \in Found(j) : ~(Owners(o) \subseteq {j})
  /\ Owners(Standard[j]) \subseteq {j}
MayTranslateFile(j) ==
  /\ status[j] = "error" /\ Found(j) = {}
  /\ OwnerOf(Standard[j]) \subseteq {j}
  /\ \A i \in Jobs \ {j} : out[i] = Standard[j] =>
       ~InTable(i) \/ status[i] \in {"done", "skipped"}

\* resetJob with a new path, from the scanner (which starts a run only with
\* auto_translate) or from translate-file.  Another path drops the claim.
Retarget(j) ==
  /\ "retarget" \in Features
  /\ phase # "down" /\ (OutputGone(j) \/ MayTranslateFile(j))
  /\ status' = [status EXCEPT ![j] = "pending"]
  /\ out' = [out EXCEPT ![j] = Standard[j]]
  /\ claim' = [claim EXCEPT ![j] = IF @ = Standard[j] THEN @ ELSE NoOutput]
  /\ startTimer' \in {startTimer, TRUE}
  /\ UNCHANGED force /\ OnlyRows

\* forceJob: a translating job is refused.  The route of one job also refuses
\* one under review, the bulk routes any job that has not finished.
ForceJob(j) ==
  /\ "force" \in Features
  /\ phase # "down" /\ Editable(j)
  /\ j \notin restricted \/ status[j] \in {"done", "skipped"}
  /\ status' = [status EXCEPT ![j] = "pending"]
  /\ force' = [force EXCEPT ![j] = TRUE]
  /\ startTimer' = TRUE
  /\ UNCHANGED <<out, claim>> /\ OnlyRows

\* deleteJob: a translating job is refused; the claim goes with the row.
Delete(j) ==
  /\ "delete" \in Features
  /\ phase # "down" /\ Editable(j)
  /\ status' = [status EXCEPT ![j] = "deleted"]
  /\ claim' = [claim EXCEPT ![j] = NoOutput]
  /\ UNCHANGED <<force, out, startTimer>> /\ OnlyRows

\* POST /api/jobs/:id/cancel: refused unless the row is translating and an
\* abort controller is registered for it.
Cancel(j) ==
  /\ "cancel" \in Features
  /\ phase # "down" /\ status[j] = "translating" /\ owner[j] # NoSlot
  /\ cancelled' = cancelled \cup {j}
  /\ UNCHANGED <<rows, marker, runVars, holdVars, active, owner, offline,
                 slotVars, env>>

-----------------------------------------------------------------------------
(* The process dies and comes back; the world around it.                   *)

Crash ==
  /\ "crash" \in Features /\ phase # "down"
  /\ phase' = "down" /\ stop' = FALSE /\ failed' = FALSE
  /\ filter' = NoRun /\ scope' = NoRun /\ requested' = NoRun /\ prior' = {}
  /\ held' = NoRun /\ heldPrior' = NoRun /\ startTimer' = FALSE
  /\ active' = {} /\ owner' = [j \in Jobs |-> NoSlot] /\ cancelled' = {}
  /\ offline' = {}
  /\ pc' = [s \in Slots |-> "exited"] /\ job' = [s \in Slots |-> NoJob]
  /\ conn' = [s \in Slots |-> NoSlot]
  /\ split' = [s \in Slots |-> FALSE] /\ splitRunning' = FALSE /\ claimed' = {}
  /\ UNCHANGED <<rows, marker, env>>

\* resetInterruptedJobs.  Mutant: rows stay as the crash left them.
ResetNone == status
ResetInterrupted ==
  [j \in Jobs |-> IF status[j] = "translating" THEN "pending" ELSE status[j]]

\* resetInterruptedJobs, then resumeQueueOnBoot.
Boot ==
  LET st == ResetInterrupted
  IN  /\ phase = "down"
      /\ status' = st
      /\ \E auto \in AutoTranslate :
           LET ids == IF auto THEN AllJobs ELSE marker
           IN  \/ /\ Claimable(st, ids) # {}
                  /\ BeginOrHold(ids, st, NoRun)
               \/ /\ Claimable(st, ids) = {}
                  /\ marker' = NoRun /\ phase' = "idle"
                  /\ UNCHANGED <<stop, failed, filter, scope, requested, prior,
                                 held, heldPrior, stateVars, slotVars>>
      /\ UNCHANGED <<force, out, claim, files, startTimer, env>>

\* The GPU gate closes for a transcription or a YouTube video, and opens.
GateChanges ==
  /\ "gate" \in Features /\ gateOpen' = ~gateOpen
  /\ UNCHANGED <<rows, marker, runVars, holdVars, stateVars, slotVars, mode,
                 restricted>>

\* The user edits llm_mode or llm_split_file.
ModeChanges ==
  /\ "switch" \in Features /\ mode' \in Modes \ {mode}
  /\ UNCHANGED <<rows, marker, runVars, holdVars, stateVars, slotVars, gateOpen,
                 restricted>>

\* A source review of the job's subtitle opens or is settled.
ReviewChanges(j) ==
  /\ "review" \in Features
  /\ restricted' = IF j \in restricted THEN restricted \ {j}
                   ELSE restricted \cup {j}
  /\ UNCHANGED <<rows, marker, runVars, holdVars, stateVars, slotVars, gateOpen,
                 mode>>

\* The user deletes a finished output from the media folder.
OutputDeleted(o) ==
  /\ "files" \in Features /\ o \in files
  /\ files' = files \ {o}
  /\ UNCHANGED <<status, force, out, claim, marker, runVars, holdVars,
                 stateVars, slotVars, env>>

-----------------------------------------------------------------------------
SlotStep(s) ==
  \/ \E j \in Jobs : \/ ClaimConflicts(s, j) \/ ClaimSkips(s, j)
                     \/ ClaimStarts(s, j)
  \/ LockArrives(s) \/ PutBack(s) \/ SlotExits(s) \/ SlotRejects(s)
  \/ EngineFails(s) \/ EngineCompletes(s) \/ TitleSettles(s)
  \/ ConnectionLost(s)

RunStep == RoundEnds \/ RepairEnds \/ StartTimerFires \/ StartHeldQueue

UserStep ==
  \/ \E ids \in Requests : RequestRun(ids)
  \/ RequestStop
  \/ \E j \in Jobs : \/ Enqueue(j) \/ Retry(j) \/ Retarget(j) \/ ForceJob(j)
                     \/ Delete(j) \/ Cancel(j)

WorldStep ==
  \/ Crash \/ Boot \/ GateChanges \/ ModeChanges
  \/ \E j \in Jobs : ReviewChanges(j)
  \/ \E o \in Outputs : OutputDeleted(o)

Next == (\E s \in Slots : SlotStep(s)) \/ RunStep \/ UserStep \/ WorldStep

Spec == Init /\ [][Next]_vars

\* The event loop keeps running: a slot's timers, its connection wait (bounded
\* by a deadline) and its LLM calls (bounded by request timeouts and retries)
\* end, and so do the run's own awaits.  Nothing is assumed of the user, of
\* crashes, or of the gate.
SlotProgress(s) ==
  \/ \E j \in Jobs : \/ ClaimConflicts(s, j) \/ ClaimSkips(s, j)
                     \/ ClaimStarts(s, j)
  \/ LockArrives(s) \/ PutBack(s) \/ SlotExits(s)
  \/ EngineFails(s) \/ EngineCompletes(s) \/ TitleSettles(s)

Fairness == /\ \A s \in Slots : WF_vars(SlotProgress(s))
            /\ WF_vars(RoundEnds) /\ WF_vars(RepairEnds)
            /\ WF_vars(StartTimerFires) /\ WF_vars(StartHeldQueue)
            /\ WF_vars(Boot)

FairSpec == Spec /\ Fairness

-----------------------------------------------------------------------------
(* Properties.                                                             *)

\* The shape of every variable: the rows and the disk, the run, the registry
\* of active jobs and the slots.
RowsOK ==
  /\ status \in [Jobs -> Status] /\ force \in [Jobs -> BOOLEAN]
  /\ out \in [Jobs -> Outputs] /\ claim \in [Jobs -> Outputs \cup {NoOutput}]
  /\ files \subseteq Outputs /\ restricted \subseteq Jobs
IsScope(sc) == sc = NoRun \/ sc \in Scopes
RunOK ==
  /\ IsScope(marker) /\ IsScope(filter) /\ IsScope(scope)
  /\ IsScope(requested) /\ IsScope(held)
  /\ phase \in {"down", "idle", "pump", "repair"}
  /\ stop \in BOOLEAN /\ failed \in BOOLEAN /\ startTimer \in BOOLEAN
  /\ prior \subseteq Jobs /\ (heldPrior = NoRun \/ heldPrior \subseteq Jobs)
  /\ gateOpen \in BOOLEAN /\ mode \in ModeNames
StateOK ==
  /\ active \subseteq Jobs /\ cancelled \subseteq Jobs /\ claimed \subseteq Jobs
  /\ owner \in [Jobs -> Slots \cup {NoSlot}]
  /\ offline \subseteq Conns
SlotsOK ==
  /\ pc \in [Slots -> {"loop", "waiting", "engine", "title", "exited"}]
  /\ job \in [Slots -> Jobs \cup {NoJob}]
  /\ conn \in [Slots -> Conns \cup {NoSlot}]
  /\ split \in [Slots -> BOOLEAN] /\ splitRunning \in BOOLEAN
TypeOK == RowsOK /\ RunOK /\ StateOK /\ SlotsOK

\* A slot that holds a claimed job it has not settled yet.
Working(s) == pc[s] \in {"waiting", "engine"}

\* No two slots ever work towards the same output file (or, so, the same job):
\* both would write the same .part (db.ts, the comment on resetJob).
OneWriterPerOutput ==
  \A s, t \in Slots :
    Working(s) /\ Working(t) /\ s # t => out[job[s]] # out[job[t]]

\* A working slot's job is translating and holds the claim on the path it
\* writes, so no other row can take that path from under it.
WriterHoldsClaim ==
  \A s \in Slots : Working(s) =>
    /\ job[s] \in Jobs /\ status[job[s]] = "translating"
    /\ claim[job[s]] = out[job[s]]

\* A row says translating only while a slot works on it, or while a stopping
\* or failing run still has to hand it back (the finally of processQueue): no
\* job is stuck translating after its run.
NoStrandedJob ==
  \A j \in Jobs : status[j] = "translating" /\ phase # "down" =>
    \/ \E s \in Slots : Working(s) /\ job[s] = j
    \/ stop /\ Running /\ j \in claimed

\* Slots are in their loops only while processQueue awaits them, and every job
\* a slot works on, or writes the title of, is one it claimed.
SlotsBelongToRun ==
  \A s \in Slots :
    /\ phase # "pump" => pc[s] = "exited"
    /\ Working(s) => job[s] \in claimed
    /\ pc[s] = "title" => job[s] \in Jobs

\* claimPendingJob hands no job to two slots, and output_claim is unique.
OneWorkerPerJob ==
  \A s, t \in Slots : Working(s) /\ Working(t) /\ s # t => job[s] # job[t]
ClaimsAreUnique ==
  \A i, j \in Jobs : i # j /\ claim[i] = claim[j] => claim[i] = NoOutput

\* A row's claim is for the path the row names: the scanner reads the owner of
\* an output off output_path and owns_output alone (scanner.ts).
ClaimMatchesPath == \A j \in Jobs : claim[j] \in {NoOutput, out[j]}

\* The inductive invariant behind the properties above: what every step of the
\* queue preserves.
QueueInv == /\ TypeOK /\ WriterHoldsClaim /\ NoStrandedJob /\ SlotsBelongToRun
            /\ OneWorkerPerJob /\ ClaimsAreUnique /\ ClaimMatchesPath

Covers(m, sc) == \/ sc = NoRun \/ m = AllJobs
                 \/ m # NoRun /\ sc # AllJobs /\ sc \subseteq m

\* Whatever a live run or a held start was asked to do is on disk, so a crash
\* at any moment loses none of it (run-marker.ts).
MarkerCoversRun == /\ Covers(marker, held)
                   /\ Covers(marker, scope)
                   /\ Covers(scope, filter) /\ Covers(scope, requested)

\* Every busy slot's job is in activeJobIds, which is what keeps a split job
\* and the exit of idle slots waiting for it.
ActiveCoversWork == \A s \in Slots : Working(s) => job[s] \in active

\* No slot begins a job whose subtitle is under review, even when the review
\* began while the claimed job waited for its connection.
NoStartUnderReview ==
  [][\A s \in Slots : pc[s] # "engine" /\ pc'[s] = "engine"
                        => job'[s] \notin restricted]_vars

\* A split job uses every connection: no other file is translated beside it,
\* whichever way the setting has changed since it started (queue.ts).
SplitRunsAlone ==
  \A s, t \in Slots :
    pc[s] = "engine" /\ split[s] /\ pc[t] = "engine" => s = t

\* A pending job that an unfinished run on disk covers stays covered, unless
\* a stop withdrew it or it joined after the stopped start was asked for:
\* starting and stopping another selection, through the gate or not, does not
\* lose the interrupted one.  A job under review is not the run's to finish:
\* the marker goes when nothing else is left.
InterruptedRunKept ==
  [][\A j \in Jobs \ restricted :
       /\ status[j] = "pending" /\ status'[j] = "pending"
       /\ InScope(j, marker) /\ ~InScope(j, marker')
       => \/ Running /\ stop /\ (InScope(j, scope) \/ j \notin prior)
          \/ held # NoRun /\ (InScope(j, held) \/ j \notin heldPrior)]_vars

\* A cancel that was accepted for a translating job stays in force until the
\* job stops translating, and never ends with the job done.
CancelHolds ==
  [][\A j \in cancelled : status[j] = "translating" /\ phase' # "down" =>
       /\ status'[j] # "done"
       /\ j \notin cancelled' => status'[j] # "translating"]_vars

\* With nobody stopping it, every job a live run is asked for, at its start or
\* meanwhile, leaves pending, whether or not the process dies in between.
AskedJobsLeavePending ==
  <>[](phase # "down" /\ gateOpen) =>
    \A j \in Jobs : (Running /\ j \in Claimable(status, scope))
                      ~> (status[j] # "pending")

\* Every run comes to an end.
RunsEnd == Running ~> ~Running

\* Once the setting and the reviews have settled, a run still comes to an end:
\* in split mode a worker "claims, once no other file is running" (queue.ts).
RunsEndOnceSettled ==
  <>[](mode = "split" /\ restricted = {}) => RunsEnd

\* A job of a run the process died in is finished after a restart, however
\* often the process dies before it stays up (resumeQueueOnBoot).
Unfinished(j) == status[j] \in {"pending", "translating"}
InterruptedRunFinishes ==
  <>[](phase # "down" /\ gateOpen) =>
    \A j \in Jobs :
      (phase = "down" /\ InScope(j, marker) /\ Unfinished(j)) ~> ~Unfinished(j)

\* The queue keeps the promise of JobLedger.  A row that says translating with
\* no slot working on it (after a crash, a stop or a failure) already counts
\* as pending again.
LedgerState ==
  [j \in Jobs |-> IF status[j] = "translating"
                     /\ \A s \in Slots : ~(Working(s) /\ job[s] = j)
                    THEN "pending" ELSE status[j]]
LedgerWriter ==
  [o \in Outputs |->
     IF \E s \in Slots : Working(s) /\ out[job[s]] = o
       THEN job[CHOOSE s \in Slots : Working(s) /\ out[job[s]] = o]
       ELSE NoJob]
Ledger == INSTANCE JobLedger WITH state <- LedgerState, writer <- LedgerWriter,
                                  Nobody <- NoJob
KeepsLedgerPromise == Ledger!Promise
=============================================================================
