-------------------------- MODULE GpuSharingProofs --------------------------
(***************************************************************************)
(* While nobody changes the sharing settings, Whisper and translation are  *)
(* never on a shared GPU together, for any set of inputs, videos, limits   *)
(* and bounds.  The invariant adds to SharedGpuIsExclusive only what its   *)
(* own steps rely on: the shape of the lanes' stages and that the count of *)
(* abandoned runs is a natural number, so that "not counted" means zero.   *)
(* The last part needs no such assumption: for any settings, changed as    *)
(* often as one likes, the shape of every variable, the count of the slots *)
(* that are taken, and that no two lanes transcribe one video.             *)
(***************************************************************************)
EXTENDS GpuSharing, TLAPS

Shape == /\ stage \in [Lanes -> Stages]
         /\ abandoned \in Nat

GpuInv == Shape /\ SharedGpuIsExclusive

-----------------------------------------------------------------------------
\* A start of the queue needs an open gate, and an open gate on a shared GPU
\* sees no run and no hold (translationGate).
LEMMA OpenGateSeesNoRun ==
  ASSUME Shape', GateOpen', shared'
  PROVE  OnlyCalls' = {} /\ abandoned' = 0
<1>1. ~WhisperCounted'
  BY DEF GateOpen
<1>2. Registered' = {} /\ ~(abandoned' > 0)
  BY <1>1 DEF WhisperCounted
<1>3. OnlyCalls' \subseteq Registered'
  BY DEF OnlyCalls, Registered
<1> QED
  BY <1>2, <1>3 DEF Shape

\* A step that leaves Convert and the settings alone, starts the queue only
\* through the gate, and puts no further run or hold on the GPU keeps the turns.
LEMMA GatedStepKeepsTurns ==
  ASSUME GpuInv, Shape', UNCHANGED <<shared, convertShared, convert>>,
         queue' => queue \/ GateOpen',
         OnlyCalls' \subseteq OnlyCalls,
         (OnlyCalls = {} /\ abandoned = 0) => abandoned' = 0
  PROVE  SharedGpuIsExclusive'
<1> SUFFICES ASSUME shared', Translates'
             PROVE  OnlyCalls' = {} /\ abandoned' = 0
  BY DEF SharedGpuIsExclusive
<1>1. CASE GateOpen'
  BY <1>1, OpenGateSeesNoRun
<1>2. CASE ~GateOpen'
  <2>1. shared /\ Translates
    BY <1>2 DEF Translates
  <2>2. OnlyCalls = {} /\ abandoned = 0
    BY <2>1 DEF GpuInv, SharedGpuIsExclusive
  <2> QED
    BY <2>2
<1> QED
  BY <1>1, <1>2

\* Both ways a start passes the gate.
LEMMA StartsPassTheGate ==
  ASSUME AsksQueue \/ StartsHeld
  PROVE  queue' => queue \/ GateOpen'
BY DEF AsksQueue, StartsHeld, queueVars

\* A released slot moves its lane on and waiters to their wait for the GPU: the
\* shape is kept and no other lane gets to its call.
LEMMA FreedSlotShape ==
  ASSUME NEW l \in Lanes, NEW to \in Stages, FreesSlot(l, to), Shape
  PROVE  /\ stage' \in [Lanes -> Stages]
         /\ \A m \in Lanes : stage'[m] \in {"call", "publish"} =>
              stage[m] \in {"call", "publish"} \/ (m = l /\ to \in {"call", "publish"})
<1> DEFINE n == Admits(limit - (slots - 1))
           next == {waiters[k] : k \in 1 .. n}
<1>1. stage' = [m \in Lanes |-> IF m = l THEN to
                                ELSE IF m \in next THEN "gpu" ELSE stage[m]]
  BY DEF FreesSlot
<1> HIDE DEF next
<1>2. "gpu" \in Stages
  BY DEF Stages
<1> QED
  BY <1>1, <1>2 DEF Shape

\* What the turns depend on; most steps leave all of it alone.
turns == <<stage, abandoned, queue, shared, convertShared, convert>>

LEMMA IdleStepKeepsTurns ==
  ASSUME GpuInv, UNCHANGED turns
  PROVE  GpuInv'
BY DEF GpuInv, Shape, SharedGpuIsExclusive, Translates, OnlyCalls, turns

\* A run that leaves its call or its publication, whatever it leaves behind.
LEMMA SettledRunKeepsTurns ==
  ASSUME GpuInv, NEW l \in OnlyCalls,
         stage' \in [Lanes -> Stages], OnlyCalls' \subseteq OnlyCalls,
         UNCHANGED <<shared, convertShared, convert>>,
         NEW abandons \in BOOLEAN, Settles(abandons)
  PROVE  GpuInv'
<1>1. abandoned' \in Nat
  BY DEF GpuInv, Shape, Settles
<1>2. queue' => queue \/ GateOpen'
  BY StartsPassTheGate DEF Settles, queueVars
<1>3. SharedGpuIsExclusive'
  BY <1>1, <1>2, GatedStepKeepsTurns DEF Shape
<1> QED
  BY <1>1, <1>3 DEF GpuInv, Shape

-----------------------------------------------------------------------------
LEMMA InitTurns == Init => GpuInv
<1> SUFFICES ASSUME Init PROVE GpuInv
  OBVIOUS
<1>1. Shape
  BY DEF Init, Shape, Stages
<1>2. ~Translates
  BY DEF Init, Translates
<1> QED
  BY <1>1, <1>2 DEF GpuInv, SharedGpuIsExclusive

\* Each kind of step keeps the invariant as long as the settings stay put.
LEMMA RunStepKeepsTurns ==
  ASSUME GpuInv, NEW l \in Lanes, RunStep(l) \/ Cancel(l)
  PROVE  GpuInv'
<1>1. CASE GpuIsFree(l)
  <2>1. Shape'
    BY <1>1 DEF GpuIsFree, GpuInv, Shape, Stages
  <2>2. ~(shared /\ Translates)
    BY <1>1 DEF GpuIsFree, TranscriptionMayStart, TranslationHoldsGpu, Translates
  <2>3. ~(shared' /\ Translates')
    BY <1>1, <2>2 DEF GpuIsFree, Rest, settings, queueVars, Translates
  <2> QED
    BY <2>1, <2>3 DEF GpuInv, SharedGpuIsExclusive
<1>2. CASE WaitIsCancelled(l)
  <2>1. After(l, FALSE) \in Stages /\ After(l, FALSE) \notin {"call", "publish"}
    BY DEF After, Stages
  <2>2. stage' \in [Lanes -> Stages] /\ OnlyCalls' \subseteq OnlyCalls
    BY <1>2, <2>1, FreedSlotShape DEF WaitIsCancelled, GpuInv, OnlyCalls
  <2>3. UNCHANGED <<shared, convertShared, convert, abandoned>>
    BY <1>2 DEF WaitIsCancelled, Rest, settings, Settles
  <2>4. queue' => queue \/ GateOpen'
    BY <1>2, StartsPassTheGate DEF WaitIsCancelled, Settles
  <2>5. Shape'
    BY <2>2, <2>3 DEF GpuInv, Shape
  <2> QED
    BY <2>2, <2>3, <2>4, <2>5, GatedStepKeepsTurns DEF GpuInv
<1>3. CASE ReachesBackend(l)
  BY <1>3, IdleStepKeepsTurns
     DEF ReachesBackend, Rest, settings, queueVars, turns
<1>4. CASE CallFails(l)
  <2>1. After(l, FALSE) \in Stages /\ After(l, FALSE) \notin {"call", "publish"}
    BY DEF After, Stages
  <2>2. stage' \in [Lanes -> Stages] /\ OnlyCalls' \subseteq OnlyCalls
    BY <1>4, <2>1, FreedSlotShape DEF CallFails, GpuInv, OnlyCalls
  <2>3. PICK timedOut \in {FALSE, "timeout" \in Features} :
          Settles(Abandons(l, timedOut))
    BY <1>4 DEF CallFails
  <2>4. Abandons(l, timedOut) \in BOOLEAN
    BY DEF Abandons
  <2>5. l \in OnlyCalls /\ UNCHANGED <<shared, convertShared, convert>>
    BY <1>4 DEF CallFails, OnlyCalls, Rest, settings
  <2> QED
    BY <2>2, <2>3, <2>4, <2>5, SettledRunKeepsTurns
<1>5. CASE CallSucceeds(l)
  <2>1. stage' \in [Lanes -> Stages] /\ OnlyCalls' \subseteq OnlyCalls
    BY <1>5, FreedSlotShape DEF CallSucceeds, GpuInv, OnlyCalls, Stages
  <2>2. UNCHANGED <<shared, convertShared, convert, abandoned, queue>>
    BY <1>5 DEF CallSucceeds, Rest, settings, queueVars
  <2>3. Shape'
    BY <2>1, <2>2 DEF GpuInv, Shape
  <2> QED
    BY <2>1, <2>2, <2>3, GatedStepKeepsTurns DEF GpuInv
<1>6. CASE Publishes(l)
  <2>1. PICK ok \in BOOLEAN : /\ stage' = [stage EXCEPT ![l] = After(l, ok)]
                              /\ Settles(~ok /\ aborted[l])
    BY <1>6 DEF Publishes
  <2>2. After(l, ok) \in Stages /\ After(l, ok) \notin {"call", "publish"}
    BY DEF After, Stages
  <2>3. stage' \in [Lanes -> Stages] /\ OnlyCalls' \subseteq OnlyCalls
    BY <2>1, <2>2 DEF GpuInv, Shape, OnlyCalls
  <2>4. l \in OnlyCalls /\ UNCHANGED <<shared, convertShared, convert>>
    BY <1>6 DEF Publishes, OnlyCalls, Rest, settings
  <2>5. (~ok /\ aborted[l]) \in BOOLEAN
    OBVIOUS
  <2> QED
    BY <2>1, <2>3, <2>4, <2>5, SettledRunKeepsTurns
<1>7. CASE Cancel(l)
  BY <1>7, IdleStepKeepsTurns DEF Cancel, Rest, settings, queueVars, turns
<1> QED
  BY <1>1, <1>2, <1>3, <1>4, <1>5, <1>6, <1>7 DEF RunStep

\* A lane whose run has not reached its call, or has left it, may go to any
\* stage but those two.
LEMMA LaneMovesAside ==
  ASSUME GpuInv, NEW l \in Lanes, NEW to \in Stages \ {"call", "publish"},
         stage' = [stage EXCEPT ![l] = to]
  PROVE  stage' \in [Lanes -> Stages] /\ OnlyCalls' \subseteq OnlyCalls
BY DEF GpuInv, Shape, OnlyCalls

LEMMA EnteringKeepsTurns ==
  ASSUME GpuInv, NEW l \in Lanes, NEW i, Enters(l, i),
         UNCHANGED <<settings, abandoned, queueVars, convert>>
  PROVE  GpuInv'
<1>1. PICK to \in {"slot", "gpu"} : stage' = [stage EXCEPT ![l] = to]
  BY DEF Enters
<1>2. to \in Stages \ {"call", "publish"}
  BY DEF Stages
<1>3. stage' \in [Lanes -> Stages] /\ OnlyCalls' \subseteq OnlyCalls
  BY <1>1, <1>2, LaneMovesAside
<1>4. UNCHANGED <<shared, convertShared, convert, abandoned, queue>>
  BY DEF settings, queueVars
<1>5. Shape'
  BY <1>3, <1>4 DEF GpuInv, Shape
<1> QED
  BY <1>3, <1>4, <1>5, GatedStepKeepsTurns DEF GpuInv

LEMMA WorkStepKeepsTurns ==
  ASSUME GpuInv, WorkStep
  PROVE  GpuInv'
<1> PICK i \in Inputs : WorkSubmitted(i) \/ WorkStarts(i)
  BY DEF WorkStep
<1>1. CASE WorkSubmitted(i)
  BY <1>1, IdleStepKeepsTurns
     DEF WorkSubmitted, laneVars, settings, queueVars, turns
<1>2. CASE WorkStarts(i) /\ InFlight(i)
  BY <1>2, IdleStepKeepsTurns
     DEF WorkStarts, laneVars, settings, queueVars, turns
<1>3. CASE WorkStarts(i) /\ ~InFlight(i)
  BY <1>3, EnteringKeepsTurns DEF WorkStarts, Lanes
<1> QED
  BY <1>1, <1>2, <1>3

LEMMA VideoStepKeepsTurns ==
  ASSUME GpuInv, VideoStep
  PROVE  GpuInv'
<1> DEFINE Aside == {"off", "routes", "retry"}
<1>0. Aside \subseteq Stages \ {"call", "publish"} /\ "youtube" \in Lanes
  BY DEF Stages, Lanes
<1>1. ASSUME NEW to \in Aside, stage' = [stage EXCEPT !["youtube"] = to],
             UNCHANGED <<settings, abandoned, convert>>,
             queue' => queue \/ GateOpen'
      PROVE  GpuInv'
  <2>1. stage' \in [Lanes -> Stages] /\ OnlyCalls' \subseteq OnlyCalls
    BY <1>0, <1>1, LaneMovesAside
  <2>2. Shape' /\ UNCHANGED <<shared, convertShared, convert, abandoned>>
    BY <1>1, <2>1 DEF GpuInv, Shape, settings
  <2> QED
    BY <1>1, <2>1, <2>2, GatedStepKeepsTurns DEF GpuInv
<1>2. ASSUME NEW v \in Videos,
             \/ VideoListed(v) \/ VideoSkipped(v) \/ Unfollowed(v)
             \/ DownloadStarts(v) \/ DownloadSettles(v)
      PROVE  GpuInv'
  <2>1. UNCHANGED turns
    BY <1>2 DEF VideoListed, VideoSkipped, Unfollowed, DownloadStarts,
                DownloadSettles, OnlyVideos, laneVars, settings, queueVars, turns
  <2> QED
    BY <2>1, IdleStepKeepsTurns
<1>3. ASSUME NEW v \in Videos, VideoTurn(v), ~InFlight(v)
      PROVE  GpuInv'
  BY <1>0, <1>3, EnteringKeepsTurns DEF VideoTurn
<1>4. ASSUME NEW v \in Videos, VideoTurn(v), InFlight(v)
      PROVE  GpuInv'
  <2>1. stage' = [stage EXCEPT !["youtube"] = "retry"] /\ "retry" \in Aside
    BY <1>4 DEF VideoTurn
  <2>2. UNCHANGED <<settings, abandoned, convert, queue>>
    BY <1>4 DEF VideoTurn, queueVars
  <2> QED
    BY <1>1, <2>1, <2>2
<1>5. ASSUME NEW v \in Videos, VideoCaptioned(v)
      PROVE  GpuInv'
  <2>1. stage' = [stage EXCEPT !["youtube"] = "routes"] /\ "routes" \in Aside
    BY <1>5 DEF VideoCaptioned
  <2>2. UNCHANGED <<settings, abandoned, convert, queue>>
    BY <1>5 DEF VideoCaptioned, OnlyVideos, queueVars
  <2> QED
    BY <1>1, <2>1, <2>2
<1>6. CASE EntersCooldown
  <2>1. UNCHANGED <<shared, convertShared, convert, abandoned, stage>>
    BY <1>6 DEF EntersCooldown, OnlyVideos, laneVars, settings
  <2>2. queue' => queue \/ GateOpen'
    BY <1>6, StartsPassTheGate DEF EntersCooldown
  <2>3. Shape' /\ OnlyCalls' \subseteq OnlyCalls
    BY <2>1 DEF GpuInv, Shape, OnlyCalls
  <2> QED
    BY <2>1, <2>2, <2>3, GatedStepKeepsTurns DEF GpuInv
<1>7. CASE CooldownEnds
  BY <1>7, IdleStepKeepsTurns
     DEF CooldownEnds, OnlyVideos, laneVars, settings, queueVars, turns
<1>8. CASE VideoRouted
  <2>1. stage' = [stage EXCEPT !["youtube"] = "off"] /\ "off" \in Aside
    BY <1>8 DEF VideoRouted
  <2>2. UNCHANGED <<settings, abandoned, convert>>
    BY <1>8 DEF VideoRouted, OnlyVideos
  <2>3. queue' => queue \/ GateOpen'
    BY <1>8, StartsPassTheGate DEF VideoRouted
  <2> QED
    BY <1>1, <2>1, <2>2, <2>3
<1>9. CASE VideoRetries
  <2>1. stage' = [stage EXCEPT !["youtube"] = "off"] /\ "off" \in Aside
    BY <1>9 DEF VideoRetries
  <2>2. UNCHANGED <<settings, abandoned, convert, queue>>
    BY <1>9 DEF VideoRetries, OnlyVideos, queueVars
  <2> QED
    BY <1>1, <2>1, <2>2
<1> QED
  BY <1>2, <1>3, <1>4, <1>5, <1>6, <1>7, <1>8, <1>9 DEF VideoStep

LEMMA QueueStepKeepsTurns ==
  ASSUME GpuInv, QueueStep
  PROVE  GpuInv'
<1>1. UNCHANGED <<shared, convertShared, convert, abandoned, stage>>
  BY DEF QueueStep, JobQueued, AskStart, StartHeldQueue, QueueEnds, StopHeld,
         OnlyQueue, laneVars, settings
<1>2. queue' => queue \/ GateOpen'
  <2>1. CASE AskStart \/ StartHeldQueue
    BY <2>1, StartsPassTheGate DEF AskStart, StartHeldQueue
  <2>2. CASE JobQueued \/ QueueEnds \/ StopHeld
    BY <2>2 DEF JobQueued, QueueEnds, StopHeld, queueVars
  <2> QED
    BY <2>1, <2>2 DEF QueueStep
<1>3. Shape' /\ OnlyCalls' \subseteq OnlyCalls
  BY <1>1 DEF GpuInv, Shape, OnlyCalls
<1> QED
  BY <1>1, <1>2, <1>3, GatedStepKeepsTurns DEF GpuInv

LEMMA ConvertStepKeepsTurns ==
  ASSUME GpuInv, ConvertStep
  PROVE  GpuInv'
<1>1. UNCHANGED <<shared, convertShared, stage, abandoned, queue>>
  BY DEF ConvertStep, BatchSubmitted, ConvertTakesGpu, ConvertEnds, OnlyConvert,
         laneVars, settings, queueVars
<1>2. Shape' /\ OnlyCalls' = OnlyCalls
  BY <1>1 DEF GpuInv, Shape, OnlyCalls
<1>3. CASE BatchSubmitted \/ ConvertEnds
  <2>1. Translates' => Translates
    BY <1>1, <1>3 DEF BatchSubmitted, ConvertEnds, Translates
  <2> QED
    BY <1>1, <1>2, <2>1 DEF GpuInv, SharedGpuIsExclusive
<1>4. CASE ConvertTakesGpu
  <2>1. CASE shared /\ convertShared
    <3>1. OnlyCalls = {} /\ abandoned = 0
      BY <1>4, <2>1 DEF ConvertTakesGpu, ConvertMayTake, WhisperCounted,
                        OnlyCalls, Registered, GpuInv, Shape
    <3> QED
      BY <1>1, <1>2, <3>1 DEF GpuInv, SharedGpuIsExclusive
  <2>2. CASE ~(shared /\ convertShared)
    BY <1>1, <1>2, <2>2 DEF GpuInv, SharedGpuIsExclusive, Translates
  <2> QED
    BY <2>1, <2>2
<1> QED
  BY <1>3, <1>4 DEF ConvertStep

-----------------------------------------------------------------------------
\* Transcriptions and translations never share a GPU they were told to share
\* in turns, while the sharing settings stay put (translationGate,
\* waitUntilTranscriptionMayStart, acquireGpuForConvert).
THEOREM SharedGpu ==
  ASSUME "toggle" \notin Features
  PROVE  Spec => []SharedGpuIsExclusive
<1>1. GpuInv /\ [Next]_vars => GpuInv'
  <2> SUFFICES ASSUME GpuInv, [Next]_vars PROVE GpuInv'
    OBVIOUS
  <2>1. CASE \E l \in Lanes : RunStep(l) \/ Cancel(l)
    BY <2>1, RunStepKeepsTurns
  <2>2. CASE HoldEnds
    <3>1. abandoned # 0 /\ abandoned' \in Nat
      BY <2>2 DEF HoldEnds, GpuInv, Shape
    <3>2. UNCHANGED <<shared, convertShared, convert, stage>>
      BY <2>2 DEF HoldEnds, Rest, laneVars, settings
    <3>3. queue' => queue \/ GateOpen'
      BY <2>2, StartsPassTheGate DEF HoldEnds
    <3>4. Shape' /\ OnlyCalls' \subseteq OnlyCalls
      BY <3>1, <3>2 DEF GpuInv, Shape, OnlyCalls
    <3> QED
      BY <3>1, <3>2, <3>3, <3>4, GatedStepKeepsTurns DEF GpuInv
  <2>3. CASE LimitChanges
    BY <2>3, IdleStepKeepsTurns DEF LimitChanges, laneVars, queueVars, turns
  <2>4. CASE SharingChanges
    BY <2>4 DEF SharingChanges
  <2>5. CASE UNCHANGED vars
    BY <2>5, IdleStepKeepsTurns DEF vars, laneVars, settings, queueVars, turns
  <2> QED
    BY <2>1, <2>2, <2>3, <2>4, <2>5, WorkStepKeepsTurns, VideoStepKeepsTurns,
       QueueStepKeepsTurns, ConvertStepKeepsTurns DEF Next, SettingsStep
<1>2. GpuInv => SharedGpuIsExclusive
  BY DEF GpuInv
<1> QED
  BY InitTurns, <1>1, <1>2, PTL DEF Spec

-----------------------------------------------------------------------------
(* The slots of the two lanes.  A lane waits for one only while the other  *)
(* has one (the limit is at least one), so the list of waiters never       *)
(* holds more than a lane, and the counter counts the lanes with a slot.   *)

Other(l) == IF l = "work" THEN "youtube" ELSE "work"
HasSlot(l) == stage[l] \in {"gpu", "call"}
Count(l) == IF HasSlot(l) THEN 1 ELSE 0

SlotsInv ==
  /\ slots = Count("work") + Count("youtube")
  /\ \/ waiters = <<>> /\ \A l \in Lanes : stage[l] # "slot"
     \/ \E l \in Lanes : /\ waiters = <<l>> /\ stage[l] = "slot"
                         /\ HasSlot(Other(l))

\* The YouTube worker transcribes files of videos.
VideoLane == stage["youtube"] # "off" => input["youtube"] \in Videos

\* The inductive invariant behind TypeOK and OneRunPerInput.
RunsInv == TypeOK /\ SlotsInv /\ VideoLane /\ OneRunPerInput

LEMMA LaneNames ==
  /\ "work" \in Lanes /\ "youtube" \in Lanes
  /\ \A l \in Lanes : /\ l \in {"work", "youtube"} /\ Other(l) \in Lanes
                      /\ Other(l) # l /\ Other(Other(l)) = l
                      /\ \A m \in Lanes : m = l \/ m = Other(l)
BY DEF Lanes, Other

LEMMA SlotsOfLane ==
  ASSUME SlotsInv, NEW l \in Lanes
  PROVE  slots = Count(l) + Count(Other(l))
BY DEF SlotsInv, Count, Lanes, Other

\* A lane that releases its slot hands it to the other lane, if that one waits.
LEMMA FreedSlot ==
  ASSUME TypeOK, SlotsInv, NEW l \in Lanes, HasSlot(l),
         NEW to \in {"off", "routes", "retry", "publish"}, FreesSlot(l, to)
  PROVE  /\ stage' \in [Lanes -> Stages] /\ stage'[l] = to
         /\ \A m \in Lanes \ {l} :
              \/ stage'[m] = stage[m]
              \/ stage[m] = "slot" /\ stage'[m] = "gpu"
         /\ slots' \in 0 .. 4 /\ waiters' \in Seq(Lanes) /\ SlotsInv'
<1> DEFINE o == Other(l)
           n == Admits(limit - (slots - 1))
           next == {waiters[k] : k \in 1 .. n}
<1>0. /\ o \in Lanes /\ o # l /\ \A m \in Lanes : m = l \/ m = o
      /\ Other(o) = l
  BY LaneNames
<1>1. /\ slots' = slots - 1 + n /\ waiters' = SubSeq(waiters, n + 1, Len(waiters))
      /\ stage' = [m \in Lanes |-> IF m = l THEN to
                                   ELSE IF m \in next THEN "gpu" ELSE stage[m]]
  BY DEF FreesSlot
<1>2. slots = 1 + Count(o) /\ limit \in 1 .. 4 /\ stage \in [Lanes -> Stages]
  BY GpuAssumption, SlotsOfLane DEF TypeOK, SettingsOK, LanesOK, Count
<1>3. CASE waiters = <<>> /\ stage[o] # "slot"
  <2>1. n = 0
    BY <1>2, <1>3 DEF Admits, Count
  <2>2. next = {}
    BY <2>1
  <2>3. waiters' = <<>>
    BY <1>1, <1>3, <2>1
  <2>4. stage' = [stage EXCEPT ![l] = to]
    BY <1>0, <1>1, <1>2, <2>2
  <2>5. slots' = Count(o) /\ Count(o)' = Count(o) /\ Count(l)' = 0
    BY <1>0, <1>1, <1>2, <2>1, <2>4 DEF Count, HasSlot
  <2>6. SlotsInv'
    BY <1>0, <1>2, <1>3, <2>3, <2>4, <2>5, LaneNames
       DEF SlotsInv, Count, HasSlot
  <2> QED
    BY <1>0, <1>2, <2>3, <2>4, <2>5, <2>6 DEF Stages, Count
<1>4. CASE waiters = <<o>> /\ stage[o] = "slot"
  <2>1. slots = 1 /\ n = 1
    BY <1>2, <1>4 DEF Admits, Count, HasSlot
  <2>2. next = {o}
    BY <1>4, <2>1
  <2>3. waiters' = <<>>
    BY <1>1, <1>4, <2>1
  <2>4. stage'[l] = to /\ stage'[o] = "gpu"
    BY <1>0, <1>1, <2>2
  <2>5. slots' = 1 /\ Count(o)' = 1 /\ Count(l)' = 0
    BY <1>1, <2>1, <2>4 DEF Count, HasSlot
  <2>6. SlotsInv'
    BY <1>0, <2>3, <2>4, <2>5, LaneNames DEF SlotsInv, Count, HasSlot
  <2>7. stage' \in [Lanes -> Stages]
    BY <1>0, <1>1, <1>2, <2>2 DEF Stages
  <2> QED
    BY <1>0, <1>4, <2>3, <2>4, <2>5, <2>6, <2>7
<1> QED
  BY <1>0, <1>3, <1>4 DEF SlotsInv, HasSlot

\* A lane that begins a run takes a slot, or waits behind the other lane's.
LEMMA EnteredSlot ==
  ASSUME TypeOK, SlotsInv, NEW l \in Lanes, stage[l] = "off", NEW i,
         Enters(l, i)
  PROVE  /\ stage' \in [Lanes -> Stages] /\ stage'[l] \in {"slot", "gpu"}
         /\ \A m \in Lanes \ {l} : stage'[m] = stage[m]
         /\ slots' \in 0 .. 4 /\ waiters' \in Seq(Lanes) /\ SlotsInv'
<1> DEFINE o == Other(l)
<1>0. /\ o \in Lanes /\ o # l /\ \A m \in Lanes : m = l \/ m = o
      /\ Other(o) = l
  BY LaneNames
<1>1. slots = Count(o) /\ limit \in 1 .. 4 /\ stage \in [Lanes -> Stages]
  BY GpuAssumption, SlotsOfLane DEF TypeOK, SettingsOK, LanesOK, Count, HasSlot
<1>2. waiters = <<>> /\ stage[o] # "slot"
  BY <1>0 DEF SlotsInv, HasSlot
<1>3. CASE /\ slots' = slots + 1 /\ stage' = [stage EXCEPT ![l] = "gpu"]
           /\ UNCHANGED waiters
  <2>1. slots' = 1 + Count(o) /\ Count(o)' = Count(o) /\ Count(l)' = 1
    BY <1>0, <1>1, <1>3 DEF Count, HasSlot
  <2>2. SlotsInv'
    BY <1>0, <1>1, <1>2, <1>3, <2>1, LaneNames DEF SlotsInv, Count, HasSlot
  <2> QED
    BY <1>0, <1>1, <1>2, <1>3, <2>1, <2>2 DEF Stages, Count
<1>4. CASE /\ slots >= limit /\ waiters' = Append(waiters, l)
           /\ stage' = [stage EXCEPT ![l] = "slot"] /\ UNCHANGED slots
  <2>1. slots = 1 /\ HasSlot(o)
    BY <1>1, <1>4 DEF Count
  <2>2. waiters' = <<l>>
    BY <1>2, <1>4
  <2>3. Count(o)' = 1 /\ Count(l)' = 0 /\ HasSlot(o)'
    BY <1>0, <1>1, <1>4, <2>1 DEF Count, HasSlot
  <2>4. SlotsInv'
    BY <1>0, <1>1, <1>4, <2>1, <2>2, <2>3, LaneNames DEF SlotsInv, Count
  <2> QED
    BY <1>0, <1>1, <1>4, <2>1, <2>2, <2>4 DEF Stages
<1> QED
  BY <1>3, <1>4 DEF Enters

-----------------------------------------------------------------------------
\* What starts a run, or looks at a held one, sets two flags.
LEMMA StartsAreFlags ==
  ASSUME queue \in BOOLEAN, held \in BOOLEAN, AsksQueue \/ StartsHeld
  PROVE  queue' \in BOOLEAN /\ held' \in BOOLEAN
BY DEF AsksQueue, StartsHeld, queueVars

LEMMA SettledQueue ==
  ASSUME QueueOK, NEW abandons, Settles(abandons), UNCHANGED <<waiting, convert>>
  PROVE  QueueOK'
<1>1. CASE abandoned < MaxHolds /\ abandoned' = abandoned + 1 /\ UNCHANGED queueVars
  BY <1>1, GpuAssumption DEF QueueOK, queueVars
<1>2. CASE UNCHANGED abandoned /\ StartsHeld
  BY <1>2, StartsAreFlags DEF QueueOK
<1> QED
  BY <1>1, <1>2 DEF Settles

\* A step that leaves the lanes and their slots alone.
LEMMA LanesStay ==
  ASSUME RunsInv, UNCHANGED <<laneVars, slotVars>>,
         SettingsOK', QueueOK', VideosOK'
  PROVE  RunsInv'
BY DEF RunsInv, TypeOK, LanesOK, SlotsInv, HasSlot, Count, VideoLane,
       OneRunPerInput, Registered, laneVars, slotVars

\* No run is registered but those that were, with the inputs they had.
LEMMA SameInputs ==
  ASSUME OneRunPerInput,
         \A l \in Registered' : l \in Registered /\ input'[l] = input[l]
  PROVE  OneRunPerInput'
BY DEF OneRunPerInput

\* A step of a lane that has a slot and lets it go.
LEMMA ReleasingRun ==
  ASSUME RunsInv, NEW l \in Lanes, HasSlot(l),
         NEW to \in {"off", "routes", "retry", "publish"}, FreesSlot(l, to),
         UNCHANGED <<input, reached, aborted>>, Rest, QueueOK'
  PROVE  RunsInv'
<1>1. /\ stage' \in [Lanes -> Stages] /\ stage'[l] = to
      /\ \A m \in Lanes \ {l} : \/ stage'[m] = stage[m]
                                \/ stage[m] = "slot" /\ stage'[m] = "gpu"
      /\ slots' \in 0 .. 4 /\ waiters' \in Seq(Lanes) /\ SlotsInv'
  BY FreedSlot DEF RunsInv
<1>2. TypeOK'
  BY <1>1 DEF RunsInv, TypeOK, LanesOK, SettingsOK, VideosOK, Rest, settings,
              videoVars
<1>3. \A m \in Registered' : m \in Registered /\ input'[m] = input[m]
  BY <1>1 DEF Registered, HasSlot
<1>4. VideoLane'
  BY <1>1, LaneNames DEF RunsInv, VideoLane, HasSlot
<1> QED
  BY <1>1, <1>2, <1>3, <1>4, SameInputs DEF RunsInv

\* A lane whose step neither takes nor frees a slot nor begins a run.
LEMMA LaneGoesOn ==
  ASSUME RunsInv, NEW l \in Lanes, NEW to \in Stages \ {"slot"},
         stage[l] # "slot", stage' = [stage EXCEPT ![l] = to],
         HasSlot(l) <=> to \in {"gpu", "call"},
         to = "publish" => l \in Registered, HasSlot(l) => l \in Registered,
         UNCHANGED <<reached, aborted, slotVars>>,
         \/ UNCHANGED input /\ stage[l] # "off"
         \/ /\ l = "youtube" /\ to \in {"routes", "retry"}
            /\ \E v \in Videos : input' = [input EXCEPT ![l] = v],
         SettingsOK', QueueOK', VideosOK'
  PROVE  RunsInv'
<1>1. /\ stage'[l] = to /\ stage' \in [Lanes -> Stages]
      /\ \A m \in Lanes \ {l} : stage'[m] = stage[m]
  BY DEF RunsInv, TypeOK, LanesOK
<1>2. \A m \in Lanes : Count(m)' = Count(m) /\ (HasSlot(m)' <=> HasSlot(m))
  BY <1>1 DEF Count, HasSlot
<1>3. SlotsInv'
  BY <1>1, <1>2, LaneNames DEF RunsInv, SlotsInv, slotVars
<1>4. input' \in [Lanes -> Inputs \cup Videos \cup {NoInput}]
      /\ \A m \in Lanes \ {l} : input'[m] = input[m]
  BY DEF RunsInv, TypeOK, LanesOK
<1>5. TypeOK'
  BY <1>1, <1>4 DEF RunsInv, TypeOK, LanesOK, slotVars
<1>6. VideoLane'
  BY <1>1, <1>4, LaneNames DEF RunsInv, VideoLane, TypeOK, LanesOK
<1>7. \A m \in Registered' : m \in Registered /\ input'[m] = input[m]
  BY <1>1, <1>4 DEF Registered
<1> QED
  BY <1>3, <1>5, <1>6, <1>7, SameInputs DEF RunsInv

\* A lane that begins the run of a file nobody transcribes.
LEMMA RunBegins ==
  ASSUME RunsInv, NEW l \in Lanes, stage[l] = "off",
         NEW i \in Inputs \cup Videos, l = "youtube" => i \in Videos,
         ~InFlight(i), Enters(l, i), SettingsOK', QueueOK', VideosOK'
  PROVE  RunsInv'
<1>1. /\ stage' \in [Lanes -> Stages] /\ stage'[l] \in {"slot", "gpu"}
      /\ \A m \in Lanes \ {l} : stage'[m] = stage[m]
      /\ slots' \in 0 .. 4 /\ waiters' \in Seq(Lanes) /\ SlotsInv'
  BY EnteredSlot DEF RunsInv
<1>2. /\ input' = [input EXCEPT ![l] = i]
      /\ reached' \in [Lanes -> BOOLEAN] /\ aborted' \in [Lanes -> BOOLEAN]
  BY DEF Enters, RunsInv, TypeOK, LanesOK
<1>3. /\ input' \in [Lanes -> Inputs \cup Videos \cup {NoInput}]
      /\ input'[l] = i /\ \A m \in Lanes \ {l} : input'[m] = input[m]
  BY <1>2 DEF RunsInv, TypeOK, LanesOK
<1>4. TypeOK'
  BY <1>1, <1>2, <1>3 DEF TypeOK, LanesOK
<1>5. VideoLane'
  BY <1>1, <1>3, LaneNames DEF RunsInv, VideoLane
<1>6. \A m \in Registered' \ {l} : m \in Registered /\ input'[m] # i
  BY <1>1, <1>3 DEF Registered, InFlight
<1>7. OneRunPerInput'
  BY <1>3, <1>6 DEF RunsInv, OneRunPerInput, Registered
<1> QED
  BY <1>1, <1>4, <1>5, <1>7 DEF RunsInv

-----------------------------------------------------------------------------
LEMMA InitRuns == Init => RunsInv
<1> SUFFICES ASSUME Init PROVE RunsInv
  OBVIOUS
<1>1. TypeOK
  <2>0. 0 \in 0 .. MaxHolds /\ 0 \in 0 .. MaxWaiting /\ 0 \in 0 .. Retries
    BY GpuAssumption
  <2>1. SettingsOK /\ QueueOK
    BY <2>0, GpuAssumption, Zenon DEF Init, SettingsOK, QueueOK
  <2>2. LanesOK
    BY DEF Init, LanesOK, Stages
  <2>3. VideosOK
    BY <2>0, Zenon DEF Init, VideosOK
  <2> QED
    BY <2>1, <2>2, <2>3 DEF TypeOK
<1>2. SlotsInv
  BY LaneNames DEF Init, SlotsInv, Count, HasSlot
<1>3. VideoLane /\ OneRunPerInput
  BY LaneNames DEF Init, VideoLane, OneRunPerInput, Registered
<1> QED
  BY <1>1, <1>2, <1>3 DEF RunsInv

LEMMA RunStepRuns ==
  ASSUME RunsInv, NEW l \in Lanes, RunStep(l) \/ Cancel(l)
  PROVE  RunsInv'
<1>0. \A ok \in BOOLEAN : After(l, ok) \in {"off", "routes", "retry"}
  BY DEF After
<1>1. ASSUME Rest PROVE SettingsOK' /\ VideosOK' /\ UNCHANGED <<waiting, convert>>
  BY <1>1 DEF Rest, settings, videoVars, RunsInv, TypeOK, SettingsOK, VideosOK
<1>2. ASSUME Rest, UNCHANGED <<abandoned, queueVars>> PROVE QueueOK'
  BY <1>1, <1>2 DEF queueVars, RunsInv, TypeOK, QueueOK
<1>3. CASE GpuIsFree(l)
  BY <1>1, <1>2, <1>3, LaneGoesOn DEF GpuIsFree, HasSlot, Registered, Stages
<1>4. CASE WaitIsCancelled(l)
  <2>1. QueueOK'
    BY <1>1, <1>4, SettledQueue DEF WaitIsCancelled, RunsInv, TypeOK
  <2> QED
    BY <1>0, <1>4, <2>1, ReleasingRun DEF WaitIsCancelled, HasSlot
<1>5. CASE ReachesBackend(l) \/ Cancel(l)
  <2>1. /\ Rest /\ UNCHANGED <<stage, input, slotVars, abandoned, queueVars>>
        /\ reached' \in [Lanes -> BOOLEAN] /\ aborted' \in [Lanes -> BOOLEAN]
    BY <1>5 DEF ReachesBackend, Cancel, RunsInv, TypeOK, LanesOK
  <2>2. TypeOK'
    BY <1>1, <1>2, <2>1 DEF RunsInv, TypeOK, LanesOK, slotVars
  <2> QED
    BY <2>1, <2>2 DEF RunsInv, SlotsInv, Count, HasSlot, VideoLane,
                      OneRunPerInput, Registered, slotVars
<1>6. CASE CallFails(l)
  <2>1. QueueOK'
    BY <1>1, <1>6, SettledQueue DEF CallFails, RunsInv, TypeOK
  <2> QED
    BY <1>0, <1>6, <2>1, ReleasingRun DEF CallFails, HasSlot
<1>7. CASE CallSucceeds(l)
  BY <1>2, <1>7, ReleasingRun DEF CallSucceeds, HasSlot
<1>8. CASE Publishes(l)
  <2>1. PICK ok \in BOOLEAN : /\ stage' = [stage EXCEPT ![l] = After(l, ok)]
                              /\ Settles(~ok /\ aborted[l])
    BY <1>8 DEF Publishes
  <2>2. QueueOK'
    BY <1>1, <1>8, <2>1, SettledQueue DEF Publishes, RunsInv, TypeOK
  <2>3. After(l, ok) \in {"off", "routes", "retry"}
    BY <1>0
  <2> QED
    BY <1>1, <1>8, <2>1, <2>2, <2>3, LaneGoesOn
       DEF Publishes, HasSlot, Registered, Stages
<1> QED
  BY <1>3, <1>4, <1>5, <1>6, <1>7, <1>8 DEF RunStep

LEMMA WorkStepRuns ==
  ASSUME RunsInv, WorkStep
  PROVE  RunsInv'
<1> PICK i \in Inputs : WorkSubmitted(i) \/ WorkStarts(i)
  BY DEF WorkStep
<1>1. SettingsOK' /\ QueueOK' /\ VideosOK'
  BY DEF WorkSubmitted, WorkStarts, settings, queueVars, videoVars, RunsInv,
         TypeOK, SettingsOK, QueueOK, VideosOK
<1>2. CASE WorkStarts(i) /\ ~InFlight(i)
  BY <1>1, <1>2, RunBegins, LaneNames DEF WorkStarts
<1>3. CASE WorkSubmitted(i) \/ (WorkStarts(i) /\ InFlight(i))
  BY <1>1, <1>3, LanesStay DEF WorkSubmitted, WorkStarts
<1> QED
  BY <1>2, <1>3

LEMMA RetriedVideo ==
  ASSUME VideosOK, NEW v \in Videos,
         NEW st \in {"queued", "transcribing"}, RetryOrFail(v, st)
  PROVE  /\ fails' \in [Videos -> 0 .. Retries]
         /\ video' \in [Videos -> {"absent", "queued", "downloading",
                                   "transcribing", "settled"}]
<1>1. CASE fails[v] < Retries /\ fails' = [fails EXCEPT ![v] = @ + 1]
             /\ video' = [video EXCEPT ![v] = st]
  BY <1>1, GpuAssumption DEF VideosOK
<1>2. CASE video' = [video EXCEPT ![v] = "settled"] /\ UNCHANGED fails
  BY <1>2 DEF VideosOK
<1> QED
  BY <1>1, <1>2 DEF RetryOrFail

LEMMA VideoStepRuns ==
  ASSUME RunsInv, VideoStep
  PROVE  RunsInv'
<1>0. /\ "youtube" \in Lanes /\ SettingsOK /\ QueueOK /\ VideosOK
      /\ waiting \in Nat /\ MaxWaiting \in Nat
  BY LaneNames, GpuAssumption DEF RunsInv, TypeOK, QueueOK
<1>1. ASSUME OnlyVideos PROVE SettingsOK' /\ UNCHANGED <<abandoned, convert, todo>>
  BY <1>0, <1>1 DEF OnlyVideos, settings, SettingsOK
<1>2. ASSUME OnlyVideos, UNCHANGED <<queueVars, waiting>> PROVE QueueOK'
  BY <1>0, <1>2 DEF OnlyVideos, queueVars, QueueOK
<1>3. ASSUME NEW v \in Videos,
             \/ VideoListed(v) \/ VideoSkipped(v) \/ Unfollowed(v)
             \/ DownloadStarts(v)
      PROVE  RunsInv'
  <2>1. OnlyVideos /\ UNCHANGED <<queueVars, waiting, laneVars, cooldown>>
    BY <1>3 DEF VideoListed, VideoSkipped, Unfollowed, DownloadStarts
  <2>2. VideosOK'
    BY <1>0, <1>3, GpuAssumption DEF VideoListed, VideoSkipped, Unfollowed,
                                     DownloadStarts, OnlyVideos, VideosOK
  <2> QED
    BY <1>1, <1>2, <2>1, <2>2, LanesStay DEF OnlyVideos
<1>4. ASSUME NEW v \in Videos, DownloadSettles(v) PROVE RunsInv'
  <2>1. OnlyVideos /\ UNCHANGED <<orphaned, cooldown, queueVars, waiting, laneVars>>
    BY <1>4 DEF DownloadSettles
  <2>2. /\ fails' \in [Videos -> 0 .. Retries]
        /\ video' \in [Videos -> {"absent", "queued", "downloading",
                                  "transcribing", "settled"}]
    <3>1. CASE RetryOrFail(v, "queued")
      BY <1>0, <3>1, RetriedVideo
    <3>2. CASE ~RetryOrFail(v, "queued")
      BY <1>0, <1>4, <3>2, GpuAssumption DEF DownloadSettles, VideosOK
    <3> QED
      BY <3>1, <3>2
  <2>3. VideosOK'
    BY <1>0, <2>1, <2>2 DEF OnlyVideos, VideosOK
  <2> QED
    BY <1>1, <1>2, <2>1, <2>3, LanesStay DEF OnlyVideos
<1>5. ASSUME NEW v \in Videos, VideoTurn(v) PROVE RunsInv'
  <2>1. SettingsOK' /\ QueueOK' /\ VideosOK'
    BY <1>0, <1>5 DEF VideoTurn, settings, queueVars, videoVars, SettingsOK,
                      QueueOK, VideosOK
  <2>2. CASE ~InFlight(v)
    BY <1>0, <1>5, <2>1, <2>2, RunBegins DEF VideoTurn
  <2>3. CASE InFlight(v)
    BY <1>0, <1>5, <2>1, <2>3, LaneGoesOn DEF VideoTurn, HasSlot, Stages
  <2> QED
    BY <2>2, <2>3
<1>6. ASSUME NEW v \in Videos, VideoCaptioned(v) PROVE RunsInv'
  <2>1. OnlyVideos /\ UNCHANGED <<queueVars, waiting, videoVars>>
    BY <1>6 DEF VideoCaptioned
  <2>2. VideosOK'
    BY <1>0, <2>1 DEF OnlyVideos, videoVars, VideosOK
  <2> QED
    BY <1>0, <1>1, <1>2, <1>6, <2>1, <2>2, LaneGoesOn
       DEF VideoCaptioned, OnlyVideos, HasSlot, Stages
<1>7. CASE EntersCooldown
  <2>1. OnlyVideos /\ UNCHANGED <<laneVars, waiting>>
    BY <1>7 DEF EntersCooldown
  <2>2. VideosOK'
    BY <1>0, <1>7 DEF EntersCooldown, OnlyVideos, VideosOK
  <2>3. QueueOK'
    BY <1>0, <1>1, <1>7, <2>1, StartsAreFlags DEF EntersCooldown, QueueOK
  <2> QED
    BY <1>1, <2>1, <2>2, <2>3, LanesStay DEF OnlyVideos
<1>8. CASE CooldownEnds
  <2>1. OnlyVideos /\ UNCHANGED <<laneVars, queueVars, waiting>>
    BY <1>8 DEF CooldownEnds
  <2>2. VideosOK'
    BY <1>0, <1>8 DEF CooldownEnds, OnlyVideos, VideosOK
  <2> QED
    BY <1>1, <1>2, <2>1, <2>2, LanesStay DEF OnlyVideos
<1>9. CASE VideoRouted
  <2>1. OnlyVideos
    BY <1>9 DEF VideoRouted
  <2>2. input["youtube"] \in Videos
    BY <1>9 DEF VideoRouted, RunsInv, VideoLane
  <2>3. VideosOK'
    BY <1>0, <1>9, <2>1, <2>2 DEF VideoRouted, OnlyVideos, VideosOK
  <2>4. waiting' \in 0 .. MaxWaiting /\ (AsksQueue \/ StartsHeld)
    BY <1>0, <1>9 DEF VideoRouted, QueueOK
  <2>5. QueueOK'
    BY <1>0, <1>1, <2>1, <2>4, StartsAreFlags DEF QueueOK
  <2> QED
    BY <1>0, <1>1, <1>9, <2>1, <2>3, <2>5, LaneGoesOn
       DEF VideoRouted, OnlyVideos, HasSlot, Stages
<1>10. CASE VideoRetries
  <2>1. OnlyVideos /\ UNCHANGED <<queueVars, waiting>>
    BY <1>10 DEF VideoRetries
  <2>2. input["youtube"] \in Videos
    BY <1>10 DEF VideoRetries, RunsInv, VideoLane
  <2>3. VideosOK'
    BY <1>0, <1>10, <2>1, <2>2, RetriedVideo
       DEF VideoRetries, OnlyVideos, VideosOK
  <2> QED
    BY <1>0, <1>1, <1>2, <1>10, <2>1, <2>3, LaneGoesOn
       DEF VideoRetries, OnlyVideos, HasSlot, Stages
<1> QED
  BY <1>3, <1>4, <1>5, <1>6, <1>7, <1>8, <1>9, <1>10 DEF VideoStep

LEMMA OtherStepRuns ==
  ASSUME RunsInv, HoldEnds \/ QueueStep \/ ConvertStep \/ SettingsStep
  PROVE  RunsInv'
<1>0. SettingsOK /\ QueueOK /\ VideosOK
  BY DEF RunsInv, TypeOK
<1>1. UNCHANGED <<laneVars, slotVars, videoVars, todo>>
  BY DEF HoldEnds, Rest, QueueStep, JobQueued, AskStart, StartHeldQueue,
         QueueEnds, StopHeld, OnlyQueue, ConvertStep, BatchSubmitted,
         ConvertTakesGpu, ConvertEnds, OnlyConvert, SettingsStep, LimitChanges,
         SharingChanges
<1>2. VideosOK'
  BY <1>0, <1>1 DEF VideosOK, videoVars
<1>3. SettingsOK'
  <2>1. CASE HoldEnds \/ QueueStep \/ ConvertStep
    BY <1>0, <2>1 DEF HoldEnds, Rest, QueueStep, JobQueued, AskStart,
         StartHeldQueue, QueueEnds, StopHeld, OnlyQueue, ConvertStep,
         BatchSubmitted, ConvertTakesGpu, ConvertEnds, OnlyConvert, settings,
         SettingsOK
  <2>2. CASE SettingsStep
    BY <1>0, <2>2 DEF SettingsStep, LimitChanges, SharingChanges, SettingsOK
  <2> QED
    BY <2>1, <2>2
<1>4. QueueOK'
  <2>1. CASE HoldEnds
    BY <1>0, <2>1, StartsAreFlags, GpuAssumption DEF HoldEnds, Rest, QueueOK
  <2>2. CASE AskStart \/ StartHeldQueue
    BY <1>0, <2>2, StartsAreFlags
       DEF AskStart, StartHeldQueue, OnlyQueue, QueueOK
  <2>3. CASE JobQueued \/ QueueEnds \/ StopHeld
    <3>1. UNCHANGED <<abandoned, convert>> /\ waiting \in 0 .. MaxWaiting
      BY <1>0, <2>3 DEF JobQueued, QueueEnds, StopHeld, OnlyQueue, QueueOK
    <3>2. queue' \in BOOLEAN /\ held' \in BOOLEAN
      BY <1>0, <2>3 DEF JobQueued, QueueEnds, StopHeld, queueVars, QueueOK
    <3>3. waiting' \in 0 .. MaxWaiting
      <4>1. CASE JobQueued
        BY <3>1, <4>1, GpuAssumption DEF JobQueued
      <4>2. CASE QueueEnds
        BY <3>1, <4>2, GpuAssumption DEF QueueEnds
      <4>3. CASE StopHeld
        BY <3>1, <4>3 DEF StopHeld
      <4> QED
        BY <2>3, <4>1, <4>2, <4>3
    <3> QED
      BY <1>0, <3>1, <3>2, <3>3 DEF QueueOK
  <2>4. CASE ConvertStep
    BY <1>0, <2>4 DEF ConvertStep, BatchSubmitted, ConvertTakesGpu,
                      ConvertEnds, OnlyConvert, queueVars, QueueOK
  <2>5. CASE SettingsStep
    BY <1>0, <2>5 DEF SettingsStep, LimitChanges, SharingChanges, queueVars,
                      QueueOK
  <2> QED
    BY <2>1, <2>2, <2>3, <2>4, <2>5 DEF QueueStep
<1> QED
  BY <1>1, <1>2, <1>3, <1>4, LanesStay

LEMMA StepRuns == RunsInv /\ [Next]_vars => RunsInv'
<1> SUFFICES ASSUME RunsInv, [Next]_vars PROVE RunsInv'
  OBVIOUS
<1>1. CASE UNCHANGED vars
  BY <1>1, LanesStay DEF vars, settings, queueVars, videoVars, RunsInv, TypeOK,
                         SettingsOK, QueueOK, VideosOK
<1> QED
  BY <1>1, RunStepRuns, WorkStepRuns, VideoStepRuns, OtherStepRuns DEF Next

\* Every variable keeps its shape: the slot counter never exceeds the four the
\* setting allows, only lanes wait, and the counters stay within their bounds,
\* whatever is toggled, cancelled or abandoned on the way
\* (routes/transcription-runtime.ts).
THEOREM TypeCorrect == Spec => []TypeOK
<1>1. RunsInv => TypeOK
  BY DEF RunsInv
<1> QED
  BY InitRuns, StepRuns, <1>1, PTL DEF Spec

\* No file is ever transcribed by two runs at once: a run stays registered
\* under its file from before its wait for a slot until it is published, also
\* while the slot changes hands (in-flight.ts).
THEOREM OneRunEach == Spec => []OneRunPerInput
<1>1. RunsInv => OneRunPerInput
  BY DEF RunsInv
<1> QED
  BY InitRuns, StepRuns, <1>1, PTL DEF Spec

\* No wake-up is lost between the lanes: one that waits for a slot is in the
\* list of waiters while the other lane has one, and the counter is the number
\* of lanes that have a slot, through every change of the limit
\* (routes/transcription-runtime.ts).
THEOREM SlotsAreHandedOn == Spec => []SlotsInv
<1>1. RunsInv => SlotsInv
  BY DEF RunsInv
<1> QED
  BY InitRuns, StepRuns, <1>1, PTL DEF Spec
=============================================================================
