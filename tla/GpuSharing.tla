----------------------------- MODULE GpuSharing -----------------------------
(***************************************************************************)
(* Whisper and the translation model may share one GPU (gpu_shared).  Four *)
(* parties take turns on it:                                               *)
(*   - the translation queue's run, which the gate of gpu-gate.ts lets     *)
(*     start only when no transcription runs and the YouTube backlog is    *)
(*     empty, or enough subtitles wait; a refused start is held;           *)
(*   - the work queue and the YouTube worker, two serial lanes of          *)
(*     transcription runs (routes/transcription-runtime.ts), each run      *)
(*     registered, then waiting for a slot, then polling for the GPU;      *)
(*   - a Convert batch, with convert_gpu_shared (routes/convert-batches.ts)*)
(* The GPU itself, the backend and YouTube are the environment's.          *)
(***************************************************************************)
EXTENDS Integers, FiniteSets, Sequences

CONSTANTS
  Inputs,      \* media files the work queue may be given
  Videos,      \* media files of YouTube videos (an input may be one of them)
  Limits,      \* the values transcription_max_concurrent takes
  Cap,         \* SUBTITLES_WAITING_CAP
  Retries,     \* failures a video survives (BACKOFF_MS)
  MaxWaiting,  \* bound: pending translation jobs
  MaxHolds,    \* bound: abandoned runs counted at a time
  Shared, ConvertShared,  \* the two settings at the start
  Features,    \* which settings and events this instance has
  NoInput

\* The work queue runs one item at a time, and so does the YouTube worker.
Lanes == {"work", "youtube"}
AllFeatures == {"cancel", "convert", "cooldown", "limits", "skip",
                "stop", "timeout", "toggle", "unfollow"}

ASSUME GpuAssumption ==
  /\ Limits \subseteq 1 .. 4 /\ Limits # {}
  /\ Cap \in Nat \ {0} /\ Retries \in Nat /\ MaxWaiting \in Nat
  /\ MaxHolds \in Nat /\ Shared \in BOOLEAN /\ ConvertShared \in BOOLEAN
  /\ Features \subseteq AllFeatures
  /\ NoInput \notin Inputs \cup Videos

VARIABLES
  shared, convertShared,  \* gpu_shared and convert_gpu_shared
  limit,                  \* transcription_max_concurrent
  stage,    \* stage[l]: where the lane's run is
  input,    \* input[l]: the file it transcribes
  reached,  \* reached[l]: it reached the backend (markReachedBackend)
  aborted,  \* aborted[l]: its controller is aborted
  slots, waiters,     \* transcriptionActive and transcriptionWaiters
  abandoned,          \* abandonedRuns
  queue, held,        \* the queue's run is live; the gate holds a start
  waiting,            \* pending translation jobs (countPendingJobs)
  convert,            \* "idle", "waiting" for the GPU, "translating"
  todo,               \* queued items of the work queue
  video, fails,       \* a video's status, and its failed attempts
  orphaned,           \* videos no followed playlist lists any more
  cooldown            \* YouTube asked to slow down

settings == <<shared, convertShared, limit>>
laneVars == <<stage, input, reached, aborted>>
slotVars == <<slots, waiters>>
queueVars == <<queue, held>>
videoVars == <<video, fails, orphaned, cooldown>>
vars == <<settings, laneVars, slotVars, abandoned, queueVars, waiting, convert,
          todo, videoVars>>

-----------------------------------------------------------------------------
(* Who may use the GPU.                                                    *)

\* inFlightTranscriptions: a run is registered from its start until it settles,
\* also while it waits.  Mutant: only a run that calls the backend counts.
OnlyCalls == {l \in Lanes : stage[l] \in {"call", "publish"}}
Registered == {l \in Lanes : stage[l] \in {"slot", "gpu", "call", "publish"}}

\* gpuTranscriptionCount() > 0.
WhisperCounted == Registered # {} \/ abandoned > 0

\* whisperBacklog: queued videos do not count during a cooldown.  Mutant: they
\* do.
BacklogAlways ==
  {v \in Videos : video[v] \in {"queued", "downloading", "transcribing"}}
Backlog == {v \in Videos : \/ video[v] \in {"downloading", "transcribing"}
                           \/ video[v] = "queued" /\ ~cooldown}

\* translationGate, SUBTITLES_WAITING_CAP.
CapReached == waiting >= Cap
GateOpen == \/ ~shared
            \/ ~WhisperCounted /\ (Backlog = {} \/ CapReached)

\* translationHoldsGpu and transcriptionMayStart.  Mutant: Convert is forgotten.
QueueHoldsGpu == queue
TranslationHoldsGpu == \/ queue
                       \/ convert = "translating" /\ shared /\ convertShared
TranscriptionMayStart == ~shared \/ ~TranslationHoldsGpu

\* processQueue, with what else the step changes already in effect.
AsksQueue ==
  \/ queue /\ UNCHANGED queueVars
  \/ ~queue /\ GateOpen' /\ queue' = TRUE /\ held' = FALSE
  \/ ~queue /\ ~GateOpen' /\ held' = TRUE /\ UNCHANGED queue

\* startHeldQueue.
StartsHeld ==
  IF held /\ ~queue /\ GateOpen' THEN queue' = TRUE /\ held' = FALSE
  ELSE UNCHANGED queueVars

-----------------------------------------------------------------------------
Init ==
  /\ shared = Shared /\ convertShared = ConvertShared /\ limit \in Limits
  /\ stage = [l \in Lanes |-> "off"] /\ input = [l \in Lanes |-> NoInput]
  /\ reached = [l \in Lanes |-> FALSE] /\ aborted = [l \in Lanes |-> FALSE]
  /\ slots = 0 /\ waiters = <<>> /\ abandoned = 0
  /\ queue = FALSE /\ held = FALSE /\ waiting = 0 /\ convert = "idle"
  /\ todo = {}
  /\ video = [v \in Videos |-> "absent"] /\ fails = [v \in Videos |-> 0]
  /\ orphaned = {} /\ cooldown = FALSE

-----------------------------------------------------------------------------
(* A transcription run (withTranscriptionRun and runTranscriptionAttempt). *)

\* One run per input.  Mutant: nothing is looked up.
NeverInFlight(i) == FALSE
InFlight(i) == \E l \in Registered : input[l] = i

\* beginTranscriptionRun, and acquireTranscriptionSlot right after it.
Enters(l, i) ==
  /\ input' = [input EXCEPT ![l] = i]
  /\ reached' = [reached EXCEPT ![l] = FALSE]
  /\ aborted' = [aborted EXCEPT ![l] = FALSE]
  /\ \/ /\ slots < limit
        /\ slots' = slots + 1 /\ stage' = [stage EXCEPT ![l] = "gpu"]
        /\ UNCHANGED waiters
     \/ /\ slots >= limit
        /\ waiters' = Append(waiters, l)
        /\ stage' = [stage EXCEPT ![l] = "slot"]
        /\ UNCHANGED slots

\* releaseTranscriptionSlot: the lane goes on to stage to, and as many waiters
\* as the setting now allows get a slot, first come first served.
Admits(free) == IF free <= 0 THEN 0
                ELSE IF Len(waiters) < free THEN Len(waiters) ELSE free
FreesSlot(l, to) ==
  LET n == Admits(limit - (slots - 1))
      next == {waiters[k] : k \in 1 .. n}
  IN  /\ slots' = slots - 1 + n
      /\ waiters' = SubSeq(waiters, n + 1, Len(waiters))
      /\ stage' = [m \in Lanes |-> IF m = l THEN to
                                   ELSE IF m \in next THEN "gpu" ELSE stage[m]]

\* settleTranscriptionRun: an abandoned run stays counted, any other gives a
\* held start another look.
Settles(abandons) ==
  IF abandons
    THEN /\ abandoned < MaxHolds /\ abandoned' = abandoned + 1
         /\ UNCHANGED queueVars
    ELSE UNCHANGED abandoned /\ StartsHeld

\* Where a lane goes when its run has settled: the work queue to its next item,
\* the YouTube worker on with its video.
After(l, ok) == IF l = "work" THEN "off" ELSE IF ok THEN "routes" ELSE "retry"

Rest == UNCHANGED <<settings, waiting, convert, todo, videoVars>>

\* waitUntilTranscriptionMayStart polls; the preflight follows.
GpuIsFree(l) ==
  /\ stage[l] = "gpu" /\ ~aborted[l] /\ TranscriptionMayStart
  /\ stage' = [stage EXCEPT ![l] = "call"]
  /\ UNCHANGED <<input, reached, aborted, slotVars, abandoned, queueVars>>
  /\ Rest

\* The wait ends with "Transcription cancelled".
WaitIsCancelled(l) ==
  /\ stage[l] = "gpu" /\ aborted[l]
  /\ FreesSlot(l, After(l, FALSE))
  /\ UNCHANGED <<input, reached, aborted>> /\ Rest
  /\ Settles(FALSE)

\* markReachedBackend: from here the backend works on the GPU.
ReachesBackend(l) ==
  /\ stage[l] = "call" /\ ~reached[l]
  /\ reached' = [reached EXCEPT ![l] = TRUE]
  /\ UNCHANGED <<stage, input, aborted, slotVars, abandoned, queueVars>> /\ Rest

\* The call fails: refused by the preflight, cancelled, timed out, or an error
\* of the backend.  isAbandonedRun.
Abandons(l, timedOut) == reached[l] /\ (aborted[l] \/ timedOut)
CallFails(l) ==
  /\ stage[l] = "call"
  /\ FreesSlot(l, After(l, FALSE))
  /\ UNCHANGED <<input, reached, aborted>> /\ Rest
  /\ \E timedOut \in {FALSE, "timeout" \in Features} :
       Settles(Abandons(l, timedOut))

\* The transcript is there: the slot is free while it is published.
CallSucceeds(l) ==
  /\ stage[l] = "call" /\ reached[l]
  /\ FreesSlot(l, "publish")
  /\ UNCHANGED <<input, reached, aborted, abandoned, queueVars>> /\ Rest

\* Published, or not (no speech, no space, or cancelled in the meantime).
Publishes(l) ==
  /\ stage[l] = "publish"
  /\ UNCHANGED <<input, reached, aborted, slotVars>> /\ Rest
  /\ \E ok \in BOOLEAN : /\ stage' = [stage EXCEPT ![l] = After(l, ok)]
                         /\ Settles(~ok /\ aborted[l])

\* POST /api/transcribe/cancel; the work queue's cancel.
Cancel(l) ==
  /\ "cancel" \in Features /\ l \in Registered /\ ~aborted[l]
  /\ aborted' = [aborted EXCEPT ![l] = TRUE]
  /\ UNCHANGED <<stage, input, reached, slotVars, abandoned, queueVars>> /\ Rest

\* ABANDONED_RUN_GPU_HOLD_MS later.
HoldEnds ==
  /\ abandoned > 0 /\ abandoned' = abandoned - 1
  /\ UNCHANGED laneVars /\ Rest
  /\ StartsHeld
  /\ UNCHANGED slotVars

-----------------------------------------------------------------------------
(* The work queue.                                                         *)

\* enqueue: an input that is queued or running is not queued again.
WorkSubmitted(i) ==
  /\ i \notin todo
  /\ input["work"] = i => stage["work"] = "off"
  /\ todo' = todo \cup {i}
  /\ UNCHANGED <<settings, laneVars, slotVars, abandoned, queueVars, waiting,
                 convert, videoVars>>

\* WorkRunner.drain takes the next item; a file that is being transcribed
\* already is refused (TranscriptionInFlightError) and the item fails.
WorkStarts(i) ==
  /\ stage["work"] = "off" /\ i \in todo /\ todo' = todo \ {i}
  /\ \/ ~InFlight(i) /\ Enters("work", i)
     \/ InFlight(i) /\ UNCHANGED <<laneVars, slotVars>>
  /\ UNCHANGED <<settings, abandoned, queueVars, waiting, convert, videoVars>>

-----------------------------------------------------------------------------
(* The YouTube worker.                                                     *)

OnlyVideos == UNCHANGED <<settings, slotVars, abandoned, convert, todo>>

\* A playlist check finds a video to download (one that has to wait for its
\* premiere is listed when it is due).
VideoListed(v) ==
  /\ video[v] = "absent"
  /\ video' = [video EXCEPT ![v] = "queued"] /\ fails' = [fails EXCEPT ![v] = 0]
  /\ UNCHANGED <<orphaned, cooldown, laneVars, queueVars, waiting>>
  /\ OnlyVideos

\* The user skips a queued video.
VideoSkipped(v) ==
  /\ "skip" \in Features /\ video[v] = "queued"
  /\ video' = [video EXCEPT ![v] = "settled"]
  /\ UNCHANGED <<fails, orphaned, cooldown, laneVars, queueVars, waiting>>
  /\ OnlyVideos

\* DELETE /api/youtube/playlists/:id, or a check that no longer finds the video
\* in its playlist: the row stays as it is.
Unfollowed(v) ==
  /\ "unfollow" \in Features /\ video[v] # "absent" /\ v \notin orphaned
  /\ orphaned' = orphaned \cup {v}
  /\ UNCHANGED <<video, fails, cooldown, laneVars, queueVars, waiting>>
  /\ OnlyVideos

\* downloadNext: nextQueued looks at followed playlists only.
DownloadStarts(v) ==
  /\ video[v] = "queued" /\ v \notin orphaned /\ ~cooldown
  /\ \A w \in Videos : video[w] # "downloading"
  /\ video' = [video EXCEPT ![v] = "downloading"]
  /\ UNCHANGED <<fails, orphaned, cooldown, laneVars, queueVars, waiting>>
  /\ OnlyVideos

\* retryOrFail: the video goes back to the status it had, or fails for good.
RetryOrFail(v, status) ==
  IF fails[v] < Retries
    THEN /\ fails' = [fails EXCEPT ![v] = @ + 1]
         /\ video' = [video EXCEPT ![v] = status]
    ELSE video' = [video EXCEPT ![v] = "settled"] /\ UNCHANGED fails

DownloadSettles(v) ==
  /\ video[v] = "downloading"
  /\ \/ /\ video' = [video EXCEPT ![v] = "transcribing"]
        /\ fails' = [fails EXCEPT ![v] = 0]
     \/ video' = [video EXCEPT ![v] = "settled"] /\ UNCHANGED fails
     \/ RetryOrFail(v, "queued")
  /\ UNCHANGED <<orphaned, cooldown, laneVars, queueVars, waiting>>
  /\ OnlyVideos

\* enterCooldown: the queued videos no longer hold a start back.
EntersCooldown ==
  /\ "cooldown" \in Features /\ ~cooldown /\ cooldown' = TRUE
  /\ \/ \E v \in Videos : /\ video[v] = "downloading"
                          /\ video' = [video EXCEPT ![v] = "queued"]
     \/ UNCHANGED video
  /\ UNCHANGED <<fails, orphaned, laneVars, waiting>> /\ OnlyVideos
  /\ StartsHeld

CooldownEnds ==
  /\ cooldown /\ cooldown' = FALSE
  /\ UNCHANGED <<video, fails, orphaned, laneVars, queueVars, waiting>>
  /\ OnlyVideos

\* subtitleNext hands the next video to Whisper, unless translation has the
\* GPU: then it is put aside for a while (notYet).
VideoTurn(v) ==
  /\ stage["youtube"] = "off" /\ video[v] = "transcribing"
  /\ TranscriptionMayStart
  /\ \/ ~InFlight(v) /\ Enters("youtube", v)
     \/ /\ InFlight(v)
        /\ stage' = [stage EXCEPT !["youtube"] = "retry"]
        /\ input' = [input EXCEPT !["youtube"] = v]
        /\ UNCHANGED <<reached, aborted, slotVars>>
  /\ UNCHANGED <<settings, abandoned, queueVars, waiting, convert, todo,
                 videoVars>>

\* Captions, or a transcript of an earlier run, make Whisper unnecessary.
VideoCaptioned(v) ==
  /\ stage["youtube"] = "off" /\ video[v] = "transcribing"
  /\ stage' = [stage EXCEPT !["youtube"] = "routes"]
  /\ input' = [input EXCEPT !["youtube"] = v]
  /\ UNCHANGED <<reached, aborted, queueVars, waiting, videoVars>> /\ OnlyVideos

\* The transcript has its routes: the video waits for its translations now, and
\* the queue is asked to start for the jobs it made, if any.
VideoRouted ==
  /\ stage["youtube"] = "routes"
  /\ stage' = [stage EXCEPT !["youtube"] = "off"]
  /\ video' = [video EXCEPT ![input["youtube"]] = "settled"]
  /\ UNCHANGED <<input, reached, aborted, fails, orphaned, cooldown>>
  /\ OnlyVideos
  /\ \/ waiting < MaxWaiting /\ waiting' = waiting + 1 /\ AsksQueue
     \/ UNCHANGED waiting /\ StartsHeld

VideoRetries ==
  /\ stage["youtube"] \in {"retry", "routes"}
  /\ stage' = [stage EXCEPT !["youtube"] = "off"]
  /\ RetryOrFail(input["youtube"], "transcribing")
  /\ UNCHANGED <<input, reached, aborted, orphaned, cooldown, queueVars,
                 waiting>>
  /\ OnlyVideos

-----------------------------------------------------------------------------
(* The translation queue, as far as the GPU is concerned.                  *)

OnlyQueue == UNCHANGED <<settings, laneVars, slotVars, abandoned, convert, todo,
                         videoVars>>

\* createJob by a scan, the watcher, a work item's targets.
JobQueued ==
  /\ waiting < MaxWaiting /\ waiting' = waiting + 1
  /\ UNCHANGED queueVars /\ OnlyQueue

\* Run, retry, the watcher, the work queue: runQueueSafely.
AskStart == ~queue /\ UNCHANGED waiting /\ OnlyQueue /\ AsksQueue

\* The worker's tick, every 30 s.
StartHeldQueue == held /\ ~queue /\ UNCHANGED waiting /\ OnlyQueue /\ StartsHeld

QueueEnds ==
  /\ queue /\ queue' = FALSE
  /\ \E left \in 0 .. waiting : waiting' = left
  /\ UNCHANGED held /\ OnlyQueue

\* requestStop drops a held start.
StopHeld ==
  /\ "stop" \in Features /\ held /\ held' = FALSE
  /\ UNCHANGED <<queue, waiting>> /\ OnlyQueue

-----------------------------------------------------------------------------
(* Convert batches, one at a time.                                         *)

OnlyConvert == UNCHANGED <<settings, laneVars, slotVars, abandoned, queueVars,
                           waiting, todo, videoVars>>

BatchSubmitted ==
  /\ "convert" \in Features
  /\ convert = "idle" /\ convert' = "waiting" /\ OnlyConvert

\* acquireGpuForConvert: the check and the take are one step.
ConvertMayTake == ~(shared /\ convertShared) \/ ~WhisperCounted
ConvertTakesGpu ==
  /\ convert = "waiting" /\ ConvertMayTake
  /\ convert' = "translating" /\ OnlyConvert

\* releaseGpuForConvert.
ConvertEnds == convert = "translating" /\ convert' = "idle" /\ OnlyConvert

-----------------------------------------------------------------------------
(* The settings page.                                                      *)

LimitChanges ==
  /\ "limits" \in Features /\ limit' \in Limits \ {limit}
  /\ UNCHANGED <<shared, convertShared, laneVars, slotVars, abandoned,
                 queueVars, waiting, convert, todo, videoVars>>

SharingChanges ==
  /\ "toggle" \in Features
  /\ \/ shared' = ~shared /\ UNCHANGED convertShared
     \/ convertShared' = ~convertShared /\ UNCHANGED shared
  /\ UNCHANGED <<limit, laneVars, slotVars, abandoned, queueVars, waiting,
                 convert, todo, videoVars>>

-----------------------------------------------------------------------------
RunStep(l) == \/ GpuIsFree(l) \/ WaitIsCancelled(l) \/ ReachesBackend(l)
              \/ CallFails(l) \/ CallSucceeds(l) \/ Publishes(l)

WorkStep == \E i \in Inputs : WorkSubmitted(i) \/ WorkStarts(i)

VideoStep == \/ \E v \in Videos : \/ VideoListed(v) \/ VideoSkipped(v)
                                  \/ Unfollowed(v) \/ DownloadStarts(v)
                                  \/ DownloadSettles(v) \/ VideoTurn(v)
                                  \/ VideoCaptioned(v)
             \/ EntersCooldown \/ CooldownEnds \/ VideoRouted \/ VideoRetries

QueueStep == JobQueued \/ AskStart \/ StartHeldQueue \/ QueueEnds \/ StopHeld

ConvertStep == BatchSubmitted \/ ConvertTakesGpu \/ ConvertEnds

SettingsStep == LimitChanges \/ SharingChanges

Next == \/ \E l \in Lanes : RunStep(l) \/ Cancel(l)
        \/ HoldEnds \/ WorkStep \/ VideoStep \/ QueueStep \/ ConvertStep
        \/ SettingsStep

Spec == Init /\ [][Next]_vars

\* Timers fire, calls and downloads end (each has a timeout), runs of the queue
\* and batches end, and both lanes take their next input.  Nothing is assumed
\* of the user, of YouTube's listings, or of what a call or download returns.
Fairness ==
  /\ \A l \in Lanes : WF_vars(RunStep(l))
  /\ WF_vars(HoldEnds) /\ WF_vars(CooldownEnds) /\ WF_vars(StartHeldQueue)
  /\ WF_vars(QueueEnds) /\ WF_vars(ConvertTakesGpu) /\ WF_vars(ConvertEnds)
  /\ \A i \in Inputs : WF_vars(WorkStarts(i))
  /\ \A v \in Videos : /\ WF_vars(DownloadStarts(v))
                       /\ WF_vars(DownloadSettles(v))
                       /\ WF_vars(VideoTurn(v) \/ VideoCaptioned(v))
  /\ WF_vars(VideoRouted \/ VideoRetries)

FairSpec == Spec /\ Fairness

-----------------------------------------------------------------------------
(* Properties.                                                             *)

\* The shape of every variable.
Stages == {"off", "slot", "gpu", "call", "publish", "routes", "retry"}
SettingsOK == /\ shared \in BOOLEAN /\ convertShared \in BOOLEAN
              /\ limit \in Limits
LanesOK == /\ stage \in [Lanes -> Stages]
           /\ input \in [Lanes -> Inputs \cup Videos \cup {NoInput}]
           /\ reached \in [Lanes -> BOOLEAN] /\ aborted \in [Lanes -> BOOLEAN]
           /\ slots \in 0 .. 4 /\ waiters \in Seq(Lanes)
QueueOK == /\ queue \in BOOLEAN /\ held \in BOOLEAN
           /\ abandoned \in 0 .. MaxHolds /\ waiting \in 0 .. MaxWaiting
           /\ convert \in {"idle", "waiting", "translating"}
VideosOK == /\ todo \subseteq Inputs /\ orphaned \subseteq Videos
            /\ video \in [Videos -> {"absent", "queued", "downloading",
                                     "transcribing", "settled"}]
            /\ fails \in [Videos -> 0 .. Retries] /\ cooldown \in BOOLEAN
TypeOK == SettingsOK /\ LanesOK /\ QueueOK /\ VideosOK

\* While the sharing settings stay put, Whisper and a translation that shares
\* the GPU with it are never on it together, and a run the app let go of counts
\* as on it for as long as it is held (gpu-gate.ts, in-flight.ts).
Translates == queue \/ (convert = "translating" /\ convertShared)
SharedGpuIsExclusive ==
  shared /\ Translates => OnlyCalls = {} /\ abandoned = 0

\* No two runs transcribe one file, which would write one subtitle twice
\* (in-flight.ts).
OneRunPerInput ==
  \A l, m \in Registered : input[l] = input[m] => l = m

\* Every registered run settles: neither translations that take turns on the
\* GPU nor the other lane keep it waiting forever.
RunsSettle == \A l \in Lanes : (stage[l] \in {"slot", "gpu", "call", "publish"})
                                  ~> (stage[l] \in {"off", "routes", "retry"})

\* Once nobody submits more files, a start the gate holds is not held forever:
\* the videos and runs it waits for are dealt with or fail for good, and a
\* change of the sharing settings leaves none behind.
HeldStartBegins == <>[](todo = {}) => (held ~> ~held)
=============================================================================
