--------------------------- MODULE WhisperModels ---------------------------
(***************************************************************************)
(* The models of the Whisper backend (backend-whisper/app): their files,   *)
(* the one that is in memory, and who may touch either.                    *)
(*   - A download has a supervisor thread, which watches a worker process  *)
(*     that writes the files (model_manager.py).                           *)
(*   - A deletion unloads the model and removes its files.                 *)
(*   - A transcription leases the loaded model for its decode              *)
(*     (model_loader.py) and records what it heard as a checkpoint of      *)
(*     these files (transcribe.py).                                        *)
(* The threads share two locks: _DOWNLOAD_CHANGED guards the downloads and *)
(* is held while files are removed; _CACHE_LOCK guards the loaded models   *)
(* and is held while one is loaded.                                        *)
(***************************************************************************)
EXTENDS Naturals

CONSTANTS
  Models, Managed,  \* the models, and those the backend downloads and deletes
  Requests,         \* transcriptions that run at once
  Wants,            \* what a request loads: a model and how it runs
  ModelOf,          \* the model of a want
  Instances,        \* names of loaded copies
  MaxRevisions,     \* bound: times a model's files appear
  Delays,           \* retries of a download (_DOWNLOAD_RETRY_DELAYS_S)
  Features,         \* which events this instance has
  None

ASSUME WhisperAssumption ==
  /\ Managed \subseteq Models /\ ModelOf \in [Wants -> Models]
  /\ MaxRevisions \in Nat \ {0} /\ Delays \in Nat
  /\ Features \subseteq {"cancel", "crash", "fault", "shutdown"}
  /\ None \notin Models \cup Requests \cup Wants

VARIABLES
  files,      \* files[m]: is its snapshot complete, and which one is it
  operation,  \* operation[m]: its latest download and the supervisor of it
  worker,     \* worker[m]: the process of that download
  removal,    \* the deletion that runs
  cache,      \* cache[k]: the resident copy with key k (_MODEL_CACHE)
  retired,    \* retired[k]: one evicted under a lease (_RETIRED)
  leases,     \* leases[k]: how many transcriptions hold k (_LEASES)
  loader,     \* the request that loads a model under _CACHE_LOCK
  request,    \* request[r]: a transcription
  checkpoints,  \* saved recognitions
  stopping    \* is the service being stopped

downloadVars == <<files, operation, worker>>
loaderVars == <<cache, retired, leases, loader>>
vars == <<downloadVars, removal, loaderVars, request, checkpoints, stopping>>

-----------------------------------------------------------------------------
Revisions == 0 .. MaxRevisions
Keys == Wants \X Revisions

\* A loaded copy: its name, and the files its weights are of.
Copies == [id : Instances, rev : Revisions]
ASSUME NoCopyAssumption == None \notin Copies

NoDownload == [status |-> "none", stage |-> "idle", tries |-> 0,
               result |-> "none"]
NoWorker == [state |-> "none", said |-> "nothing"]
NoRemoval == [phase |-> "idle", m |-> None]
NoRequest == [phase |-> "idle", want |-> None, identity |-> 0, rev |-> 0,
              copy |-> None]

Init ==
  /\ files = [m \in Models |-> IF m \in Managed
                THEN [state |-> "none", rev |-> 0]
                ELSE [state |-> "ready", rev |-> 1]]
  /\ operation = [m \in Models |-> NoDownload]
  /\ worker = [m \in Models |-> NoWorker]
  /\ removal = NoRemoval
  /\ cache = [k \in Keys |-> None] /\ retired = [k \in Keys |-> None]
  /\ leases = [k \in Keys |-> 0] /\ loader = None
  /\ request = [r \in Requests |-> NoRequest]
  /\ checkpoints = {} /\ stopping = "no"

\* describe_model_cache, and model_revision of what it finds (0: None).
Cached(m) == files[m].state = "ready"
Revision(m) == IF Cached(m) THEN files[m].rev ELSE 0

\* _ACTIVE_DOWNLOADS.
Active(m) == operation[m].status \in {"running", "cancelling"}
Cancelled(m) == operation[m].status = "cancelling"

\* _DOWNLOAD_CHANGED is free: nobody removes files.
DownloadsFree == removal.phase # "removing"

-----------------------------------------------------------------------------
(* A download (start_model_download, _supervise_download).                 *)

ToStage(m, s, res) ==
  operation' = [operation EXCEPT ![m].stage = s, ![m].result = res]
Supervises(m) == UNCHANGED <<files, removal, loaderVars, request, checkpoints,
                             stopping>>

\* One that runs is joined; a model that is there is a download that succeeded.
StartDownload(m) ==
  /\ DownloadsFree /\ stopping = "no" /\ ~Active(m)
  /\ Cached(m) \/ files[m].rev < MaxRevisions
  /\ \E thread \in {TRUE} \cup (IF "fault" \in Features THEN {FALSE} ELSE {}) :
       operation' = [operation EXCEPT ![m] =
         IF Cached(m) THEN [NoDownload EXCEPT !.status = "succeeded"]
         ELSE IF thread
              THEN [NoDownload EXCEPT !.status = "running", !.stage = "start"]
              ELSE [NoDownload EXCEPT !.status = "failed"]]
  /\ Supervises(m) /\ UNCHANGED worker

\* cancel_model_download.
Cancel(m) ==
  /\ "cancel" \in Features /\ DownloadsFree
  /\ operation[m].status = "running"
  /\ operation' = [operation EXCEPT ![m].status = "cancelling"]
  /\ Supervises(m) /\ UNCHANGED worker

\* The loop of _supervise_download: the next attempt, or the end.
StartAttempt(m) ==
  /\ operation[m].stage = "start"
  /\ \/ /\ ~Cancelled(m) /\ ToStage(m, "watch", "none")
        /\ worker' = [worker EXCEPT ![m] =
                        [state |-> "alive", said |-> "nothing"]]
     \/ /\ Cancelled(m) \/ "fault" \in Features
        /\ ToStage(m, "finish", "error") /\ UNCHANGED worker
  /\ Supervises(m)

\* _run_download_attempt reads a report, and goes on watching the process.
ReadsReport(m) ==
  /\ operation[m].stage = "watch" /\ ~Cancelled(m)
  /\ worker[m].said # "nothing"
  /\ ToStage(m, "exit", worker[m].said)
  /\ Supervises(m) /\ UNCHANGED worker

\* The watch ends without one: a cancel, the end of the pipe, or a stall.
WatchEnds(m) ==
  /\ operation[m].stage = "watch"
  /\ \/ Cancelled(m) /\ ToStage(m, "reap", "error")
     \/ /\ worker[m].state # "alive" /\ worker[m].said = "nothing"
        /\ ToStage(m, "reap", "error")
     \/ /\ "fault" \in Features /\ worker[m].state = "alive"
        /\ worker[m].said = "nothing" /\ ToStage(m, "reap", "retry")
  /\ Supervises(m) /\ UNCHANGED worker

\* The process has exited, or a cancel or a stall ends the wait for it.
ExitSeen(m) ==
  /\ operation[m].stage = "exit"
  /\ \/ /\ worker[m].state # "alive" \/ Cancelled(m)
        /\ ToStage(m, "reap", IF worker[m].state = "crashed" THEN "error"
                              ELSE operation[m].result)
     \/ /\ "fault" \in Features /\ worker[m].state = "alive"
        /\ ToStage(m, "reap", "retry")
  /\ Supervises(m) /\ UNCHANGED worker

\* The attempt returns once the process is gone, which leaves nothing of it.
\* Mutant: it only asks it to
\* terminate.
Asked(m) == TRUE
Gone(m) == worker[m].state # "alive"
Reaps(m) ==
  /\ operation[m].stage = "reap" /\ Gone(m)
  /\ operation' = [operation EXCEPT ![m].stage = "judge"]
  /\ worker' = [worker EXCEPT ![m] = IF @.state = "alive" THEN @ ELSE NoWorker]
  /\ Supervises(m)

\* One more attempt is left.
RetryLeft(op) == op.tries < Delays

\* What an attempt leads to.  Mutant: a report of success is believed.
Believed(m) == TRUE
Verified(m) == Cached(m)
Judges(m) ==
  /\ operation[m].stage = "judge"
  /\ LET op == operation[m]
     IN operation' = [operation EXCEPT ![m] =
          IF op.result = "complete" /\ Verified(m)
          THEN [op EXCEPT !.stage = "finish"]
          ELSE IF op.result = "retry" /\ RetryLeft(op)
          THEN [op EXCEPT !.stage = "wait", !.tries = @ + 1]
          ELSE [op EXCEPT !.stage = "finish", !.result = "error"]]
  /\ Supervises(m) /\ UNCHANGED worker

\* The delay is over, or a cancel cuts it short.
WaitEnds(m) ==
  /\ operation[m].stage = "wait"
  /\ IF Cancelled(m) THEN ToStage(m, "finish", "error")
     ELSE ToStage(m, "start", "none")
  /\ Supervises(m) /\ UNCHANGED worker

\* _finish: an accepted cancel wins over the result.  Mutant: the result wins.
EndOfResult(op) == IF op.result = "complete" THEN "succeeded"
                   ELSE IF op.status = "cancelling" THEN "cancelled"
                   ELSE "failed"
EndOf(op) == IF op.status = "cancelling" THEN "cancelled"
             ELSE IF op.result = "complete" THEN "succeeded" ELSE "failed"
Finish(m) ==
  /\ operation[m].stage = "finish" /\ DownloadsFree
  /\ operation' = [operation EXCEPT ![m] =
                     [NoDownload EXCEPT !.status = EndOf(operation[m])]]
  /\ Supervises(m) /\ UNCHANGED worker

Supervisor(m) ==
  \/ StartAttempt(m) \/ ReadsReport(m) \/ WatchEnds(m) \/ ExitSeen(m)
  \/ Reaps(m) \/ Judges(m) \/ WaitEnds(m) \/ Finish(m)

-----------------------------------------------------------------------------
(* The worker process (_download_worker).                                  *)

WorkerStep(m, w) ==
  /\ worker[m].state = "alive" /\ worker' = [worker EXCEPT ![m] = w]
  /\ UNCHANGED <<operation, removal, loaderVars, request, checkpoints,
                 stopping>>

\* snapshot_download writes, also while it is being terminated.
WorkerWrites(m) ==
  /\ worker[m].said = "nothing" /\ ~Cached(m)
  /\ files' \in {[files EXCEPT ![m].state = "partial"],
                 [files EXCEPT ![m] = [state |-> "ready", rev |-> @.rev + 1]]}
  /\ files' # files
  /\ WorkerStep(m, worker[m])

\* It reports what came of the download.
WorkerReports(m) ==
  /\ worker[m].said = "nothing" /\ UNCHANGED files
  /\ \E s \in {"complete", "failed", "retry"} :
       /\ (s = "complete" /\ Cached(m)) \/ "fault" \in Features
       /\ WorkerStep(m, [worker[m] EXCEPT !.said = s])

WorkerExits(m) ==
  /\ worker[m].said # "nothing" /\ UNCHANGED files
  /\ WorkerStep(m, [worker[m] EXCEPT !.state = "exited"])

\* It dies on its own, or is terminated and in the end killed.
WorkerDies(m) ==
  /\ "fault" \in Features \/ operation[m].stage = "reap"
  /\ UNCHANGED files
  /\ WorkerStep(m, [worker[m] EXCEPT !.state = "crashed"])

-----------------------------------------------------------------------------
(* Loaded models (model_loader.py).                                        *)

CacheFree == loader = None

\* _evict_locked of the keys in S: a leased copy is retired, another released.
\* Mutant: it is released whether leased or not.
Released(k) == retired[k]
Retired(k) == IF cache[k] # None /\ leases[k] > 0 THEN cache[k] ELSE retired[k]

Evicted(S) == [k \in Keys |-> IF k \in S THEN None ELSE cache[k]]
RetiredBy(S) == [k \in Keys |-> IF k \in S THEN Retired(k) ELSE retired[k]]

KeysOf(m) == {k \in Keys : ModelOf[k[1]] = m}
KeyOf(r) == <<request[r].want, request[r].rev>>

\* A name no copy has, nor had for anyone who still uses it.
Unused(id) == /\ \A k \in Keys : /\ cache[k] # None => cache[k].id # id
                                 /\ retired[k] # None => retired[k].id # id
              /\ \A r \in Requests : request[r].copy # None
                                       => request[r].copy.id # id

\* A transcription, accepted while the model was there, begins: it reads the
\* revision of the files.  One that a checkpoint of it answers changes nothing
\* here (run_transcription_streaming).
Begins(r, w) ==
  /\ request[r].phase = "idle" /\ stopping = "no"
  /\ files[ModelOf[w]].rev > 0
  /\ request' = [request EXCEPT ![r] =
       [NoRequest EXCEPT !.phase = "waiting", !.want = w,
                         !.identity = Revision(ModelOf[w])]]
  /\ UNCHANGED <<downloadVars, removal, loaderVars, checkpoints, stopping>>

\* lease, up to the load: the resident copy of the key is taken, or the retired
\* one reinstated, or what is resident is evicted for a copy to be loaded.
\* Mutant: a retired copy is not looked for.
NotLookedFor(k) == None
Reinstated(k) == retired[k]
Lease(r) ==
  LET w == request[r].want
      k == <<w, Revision(ModelOf[w])>>
      others == Keys \ {k}
      Holds(c) == /\ leases' = [leases EXCEPT ![k] = @ + 1]
                  /\ request' = [request EXCEPT ![r].phase = "decoding",
                                   ![r].rev = k[2], ![r].copy = c]
                  /\ UNCHANGED loader
  IN /\ request[r].phase = "waiting" /\ CacheFree
     /\ IF cache[k] # None
        THEN UNCHANGED <<cache, retired>> /\ Holds(cache[k])
        ELSE IF Reinstated(k) # None
        THEN /\ cache' = [Evicted(others) EXCEPT ![k] = retired[k]]
             /\ retired' = [RetiredBy(others) EXCEPT ![k] = None]
             /\ Holds(retired[k])
        ELSE /\ cache' = Evicted(Keys) /\ retired' = RetiredBy(Keys)
             /\ request' = [request EXCEPT ![r].phase = "loading",
                                           ![r].rev = k[2]]
             /\ loader' = r /\ UNCHANGED leases
     /\ UNCHANGED <<downloadVars, removal, checkpoints, stopping>>

\* The weights that are there now are loaded, or the load fails.
Loads(r) ==
  LET m == ModelOf[request[r].want]
      k == KeyOf(r)
  IN /\ request[r].phase = "loading" /\ loader' = None
     /\ \/ LET c == [id |-> CHOOSE id \in Instances : Unused(id),
                       rev |-> files[m].rev]
             IN /\ Cached(m) /\ \E id \in Instances : Unused(id)
                /\ cache' = [cache EXCEPT ![k] = c]
                /\ leases' = [leases EXCEPT ![k] = @ + 1]
                /\ request' = [request EXCEPT ![r].phase = "decoding",
                                              ![r].copy = c]
        \/ /\ ~Cached(m) \/ "fault" \in Features
           /\ request' = [request EXCEPT ![r] = NoRequest]
           /\ UNCHANGED <<cache, leases>>
     /\ UNCHANGED <<downloadVars, removal, retired, checkpoints, stopping>>

\* What was heard is saved unless the files changed since the transcription
\* began.  Mutant: whatever happened to them.
HasIdentity(r) == request[r].identity # 0
SameFiles(r) == /\ request[r].identity # 0
                /\ Revision(ModelOf[request[r].want]) = request[r].identity
Heard(r) == [want |-> request[r].want, identity |-> request[r].identity,
             of |-> request[r].copy.rev]

\* The decode ends, or is cancelled, and its lease with it: the last lease of a
\* retired copy releases it.  Mutant: the first one does.
AnyLease(k) == TRUE
LastLease(k) == leases[k] = 1
Release(r) ==
  LET k == KeyOf(r)
  IN /\ request[r].phase = "decoding" /\ CacheFree
     /\ leases' = [leases EXCEPT ![k] = @ - 1]
     /\ retired' = [retired EXCEPT ![k] = IF LastLease(k) THEN None ELSE @]
     /\ request' = [request EXCEPT ![r] = NoRequest]
     /\ \/ UNCHANGED checkpoints
        \/ SameFiles(r) /\ checkpoints' = checkpoints \cup {Heard(r)}
     /\ UNCHANGED <<downloadVars, removal, cache, loader, stopping>>

-----------------------------------------------------------------------------
(* Deleting a model (models_delete, delete_model).                         *)

\* unload_model.
DeleteAsked(m) ==
  /\ removal = NoRemoval /\ stopping = "no" /\ CacheFree
  /\ cache' = Evicted(KeysOf(m)) /\ retired' = RetiredBy(KeysOf(m))
  /\ removal' = [phase |-> "asked", m |-> m]
  /\ UNCHANGED <<downloadVars, leases, loader, request, checkpoints, stopping>>

Leased(m) == \E k \in KeysOf(m) : leases[k] > 0

\* Refused while the model is downloaded, missing or leased.  Mutant: a
\* download that is being cancelled is not waited for.
RunsStill(m) == operation[m].status = "running"
InDownload(m) == Active(m)
DeleteChecked ==
  /\ removal.phase = "asked" /\ CacheFree
  /\ LET m == removal.m
     IN removal' = IF ~InDownload(m) /\ Cached(m) /\ ~Leased(m)
                   THEN [removal EXCEPT !.phase = "removing"] ELSE NoRemoval
  /\ UNCHANGED <<downloadVars, loaderVars, request, checkpoints, stopping>>

\* rmtree, file by file; it may fail on the way.
DeleteRemoves ==
  LET m == removal.m
  IN /\ removal.phase = "removing"
     /\ \/ /\ Cached(m) /\ UNCHANGED removal
           /\ files' = [files EXCEPT ![m].state = "partial"]
        \/ /\ ~Cached(m) /\ removal' = NoRemoval
           /\ files' = [files EXCEPT ![m].state = "none"]
        \/ "fault" \in Features /\ removal' = NoRemoval /\ UNCHANGED files
     /\ UNCHANGED <<operation, worker, loaderVars, request, checkpoints,
                    stopping>>

-----------------------------------------------------------------------------
(* The service stops, or dies, and starts again.                           *)

\* shutdown_model_downloads.
Shutdown ==
  /\ "shutdown" \in Features /\ stopping = "no" /\ DownloadsFree
  /\ stopping' = "waiting"
  /\ operation' = [m \in Models |-> IF operation[m].status = "running"
                     THEN [operation[m] EXCEPT !.status = "cancelling"]
                     ELSE operation[m]]
  /\ UNCHANGED <<files, worker, removal, loaderVars, request, checkpoints>>

ShutdownEnds ==
  /\ stopping = "waiting" /\ DownloadsFree /\ \A m \in Models : ~Active(m)
  /\ stopping' = "stopped"
  /\ UNCHANGED <<downloadVars, removal, loaderVars, request, checkpoints>>

\* A worker exits with its parent (exit_with_parent).
Restart ==
  /\ stopping = "stopped" \/ "crash" \in Features
  /\ operation' = [m \in Models |-> NoDownload]
  /\ worker' = [m \in Models |-> NoWorker] /\ removal' = NoRemoval
  /\ cache' = [k \in Keys |-> None] /\ retired' = [k \in Keys |-> None]
  /\ leases' = [k \in Keys |-> 0] /\ loader' = None
  /\ request' = [r \in Requests |-> NoRequest] /\ stopping' = "no"
  /\ UNCHANGED <<files, checkpoints>>

-----------------------------------------------------------------------------
Next ==
  \/ \E m \in Managed :
       \/ StartDownload(m) \/ Cancel(m) \/ Supervisor(m) \/ WorkerWrites(m)
       \/ WorkerReports(m) \/ WorkerExits(m) \/ WorkerDies(m) \/ DeleteAsked(m)
  \/ \E r \in Requests : \/ \E w \in Wants : Begins(r, w)
                         \/ Lease(r) \/ Loads(r) \/ Release(r)
  \/ DeleteChecked \/ DeleteRemoves \/ Shutdown \/ ShutdownEnds \/ Restart

Spec == Init /\ [][Next]_vars

-----------------------------------------------------------------------------
(* Properties.                                                             *)

\* The shape of every variable: of the downloads', and of the loader's.
Phases == {"idle", "waiting", "loading", "decoding"}
States == {"none", "running", "cancelling", "succeeded", "failed", "cancelled"}
Stages == {"idle", "start", "watch", "exit", "reap", "judge", "wait", "finish"}
Results == {"none", "complete", "failed", "retry", "error"}

Downloads == [status : States, stage : Stages, tries : 0 .. Delays,
              result : Results]
Processes == [state : {"none", "alive", "exited", "crashed"},
              said : {"nothing", "complete", "failed", "retry"}]

DownloadTypes ==
  /\ files \in [Models -> [state : {"none", "partial", "ready"},
                           rev : Revisions]]
  /\ operation \in [Models -> Downloads] /\ worker \in [Models -> Processes]
  /\ removal \in [phase : {"idle", "asked", "removing"}, m : Models \cup {None}]
  /\ stopping \in {"no", "waiting", "stopped"}

Transcriptions == [phase : Phases, want : Wants \cup {None},
                   identity : Revisions, rev : Revisions,
                   copy : Copies \cup {None}]

LoaderTypes ==
  /\ cache \in [Keys -> Copies \cup {None}]
  /\ retired \in [Keys -> Copies \cup {None}]
  /\ leases \in [Keys -> Nat] /\ loader \in Requests \cup {None}
  /\ request \in [Requests -> Transcriptions]
  /\ checkpoints \subseteq [want : Wants, identity : Revisions, of : Revisions]

TypeOK == DownloadTypes /\ LoaderTypes

\* A model's files have one owner: while a worker process lives, its download
\* is on the record and nobody removes the files; also a cancelled or stalled
\* worker that is still writing (_run_download_attempt, delete_model).
FilesHaveOneOwner ==
  \A m \in Models : worker[m].state = "alive" =>
    /\ Active(m) /\ stopping # "stopped"
    /\ ~(removal.phase = "removing" /\ removal.m = m)

\* What a decode runs on stays loaded until it ends, whichever models other
\* requests load and whoever deletes it (lease, _evict_locked).
LeasedStaysLoaded ==
  \A r \in Requests : request[r].phase = "decoding" =>
    request[r].copy \in {cache[KeyOf(r)], retired[KeyOf(r)]}

\* Memory holds one resident model and what decodes still run on, and of no
\* weights two copies (_resident_locked, _RETIRED).
NothingElseInMemory ==
  /\ \A j, k \in Keys : cache[j] # None /\ cache[k] # None => j = k
  /\ \A k \in Keys : retired[k] # None => cache[k] = None /\ leases[k] > 0

\* A recognition is filed under the files it was made with, however they were
\* deleted and downloaded meanwhile (run_transcription_streaming, _cache_key).
CheckpointIsTrue == \A c \in checkpoints : c.of = c.identity

\* A download succeeds with the whole model in place, and never once its cancel
\* was accepted (_supervise_download, _finish).
SuccessIsReal ==
  [][\A m \in Models :
       operation'[m].status = "succeeded" /\ operation[m].status # "succeeded"
         => files'[m].state = "ready" /\ operation[m].status # "cancelling"]_vars
=============================================================================
