--------------------------- MODULE QueueRunProofs ---------------------------
(***************************************************************************)
(* Proofs about the run of TranslationQueue: what its marker on disk       *)
(* covers, what the registry of active jobs covers, that a split job runs  *)
(* alone, that a cancel stays in force and that a review holds a job back. *)
(* RunInv and SlotInv are the inductive invariants; both rest on QueueInv. *)
(***************************************************************************)
EXTENDS TranslationQueueProofs

-----------------------------------------------------------------------------
(* Scopes: widening one keeps what it covered.                             *)

LEMMA MergeCovers ==
  ASSUME NEW m, NEW a, NEW ids \in Scopes, IsScope(m), IsScope(a), Covers(m, a)
  PROVE  Covers(Merge(m, ids), Merge(a, ids)) /\ Covers(Merge(m, ids), a)
<1>1. NoRun \notin Scopes /\ AllJobs \notin SUBSET Jobs /\ AllJobs # NoRun
  BY QueueAssumption DEF Scopes
<1>2. CASE m = NoRun
  BY <1>1, <1>2 DEF Covers, Merge
<1>3. CASE m # NoRun /\ AllJobs \in {m, ids}
  BY <1>1, <1>3 DEF Covers, Merge
<1>4. CASE m # NoRun /\ AllJobs \notin {m, ids}
  <2>1. Merge(m, ids) = m \cup ids /\ m \in SUBSET Jobs /\ ids \in SUBSET Jobs
    BY <1>4 DEF Merge, IsScope, Scopes
  <2>2. m \cup ids # NoRun
    BY <2>1, QueueAssumption
  <2>3. CASE a = NoRun
    BY <1>1, <2>1, <2>2, <2>3, <1>4 DEF Covers, Merge
  <2>4. CASE a # NoRun
    <3>1. a \subseteq m /\ a # AllJobs
      BY <1>4, <2>4 DEF Covers
    <3>2. Merge(a, ids) = a \cup ids
      BY <1>4, <2>4, <3>1 DEF Merge
    <3>3. a \cup ids # AllJobs
      BY <2>1, <3>1, QueueAssumption
    <3> QED
      BY <2>1, <2>2, <3>1, <3>2, <3>3 DEF Covers
  <2> QED
    BY <2>3, <2>4
<1> QED
  BY <1>2, <1>3, <1>4

LEMMA MergeKeepsJobs ==
  ASSUME NEW m, NEW ids \in Scopes, IsScope(m), NEW j \in Jobs, InScope(j, m)
  PROVE  InScope(j, Merge(m, ids))
<1>1. m # NoRun
  BY QueueAssumption DEF InScope
<1>2. CASE AllJobs \in {m, ids}
  BY <1>1, <1>2 DEF Merge, InScope
<1>3. CASE AllJobs \notin {m, ids}
  <2>1. Merge(m, ids) = m \cup ids /\ m \in SUBSET Jobs /\ ids \in SUBSET Jobs
    BY <1>1, <1>3 DEF Merge, IsScope, Scopes
  <2>2. j \in m /\ m \cup ids # NoRun
    BY <1>3, <2>1, QueueAssumption DEF InScope
  <2> QED
    BY <2>1, <2>2 DEF InScope
<1> QED
  BY <1>2, <1>3

LEMMA NothingToCover ==
  ASSUME NEW m
  PROVE  Covers(m, NoRun)
BY DEF Covers

-----------------------------------------------------------------------------
(* The run and its marker.                                                 *)

\* A held start belongs to a process that is up and idle, and remembers what
\* was pending before it; outside a run nothing is asked of one.
RunInv ==
  /\ phase # "idle" => held = NoRun
  /\ held # NoRun => heldPrior # NoRun
  /\ ~Running => filter = NoRun /\ scope = NoRun /\ requested = NoRun
  /\ MarkerCoversRun

\* What RunInv is about; most steps leave all of it alone.
asked == <<phase, filter, scope, requested, held, heldPrior, marker>>

LEMMA AskedUnchanged ==
  ASSUME RunInv, UNCHANGED asked
  PROVE  RunInv'
BY DEF RunInv, asked, Running, MarkerCoversRun

\* Slots never touch what the run is asked for, nor do the routes of one job.
LEMMA SlotStepAsks ==
  ASSUME NEW s \in Slots, SlotStep(s)
  PROVE  UNCHANGED <<asked, prior, startTimer>>
BY DEF SlotStep, ClaimConflicts, ClaimSkips, ClaimStarts, Takes, LockArrives,
       PutBack, SlotExits, SlotRejects, EngineFails, EngineCompletes,
       TitleSettles, ConnectionLost, runVars, holdVars, asked

JobRoute(j) == \/ Enqueue(j) \/ Retry(j) \/ Retarget(j) \/ ForceJob(j)
               \/ Delete(j) \/ Cancel(j)

LEMMA JobRouteAsks ==
  ASSUME NEW j \in Jobs, JobRoute(j)
  PROVE  UNCHANGED asked
BY DEF JobRoute, Enqueue, Retry, Retarget, ForceJob, Delete, Cancel, OnlyRows,
       runVars, holdVars, asked

LEMMA BeginOrHoldAsks ==
  ASSUME TypeOK, RunInv, ~Running, NEW ids \in Scopes, NEW st, NEW hd,
         IsScope(hd), Covers(marker, hd), BeginOrHold(ids, st, hd)
  PROVE  RunInv'
<1> DEFINE before == IF heldPrior # NoRun THEN heldPrior
                                          ELSE PendingOf(marker, st)
<1>1. IsScope(marker)
  BY DEF TypeOK, RunOK
<1>2. Covers(Merge(marker, ids), Merge(hd, ids))
  BY <1>1, MergeCovers
<1>3. before # NoRun
  BY QueueAssumption DEF PendingOf
<1>4. marker' = Merge(marker, ids) /\ requested' = NoRun
  BY DEF BeginOrHold, Marked, RunInv
<1>5. CASE phase' = "pump"
  <2>1. /\ held' = NoRun /\ filter' = Merge(hd, ids)
        /\ scope' = Merge(hd, ids)
    BY <1>5 DEF BeginOrHold, TakeHeld
  <2>2. Covers(Merge(hd, ids), Merge(hd, ids))
    BY DEF Covers
  <2> QED
    BY <1>2, <1>4, <1>5, <2>1, <2>2, NothingToCover
    DEF RunInv, MarkerCoversRun, Running
<1>6. CASE phase' = "idle"
  <2>1. /\ held' = Merge(hd, ids) /\ heldPrior' = before
        /\ filter' = NoRun /\ scope' = NoRun
    BY <1>6 DEF BeginOrHold, RunInv
  <2> QED
    BY <1>2, <1>3, <1>4, <1>6, <2>1, NothingToCover
    DEF RunInv, MarkerCoversRun, Running
<1> QED
  BY <1>5, <1>6 DEF BeginOrHold

LEMMA ProcessQueueAsks ==
  ASSUME TypeOK, RunInv, NEW ids \in Scopes, ProcessQueue(ids)
  PROVE  RunInv'
<1>1. CASE Running /\ WidenRun(ids)
  <2>1. /\ marker' = Merge(marker, ids) /\ scope' = Merge(scope, ids)
        /\ requested' \in {requested, Merge(requested, ids)}
        /\ UNCHANGED <<phase, filter, held, heldPrior>>
    BY <1>1 DEF WidenRun, Marked
  <2>2. /\ IsScope(marker) /\ IsScope(scope) /\ IsScope(filter)
        /\ IsScope(requested) /\ IsScope(held)
    BY DEF TypeOK, RunOK
  <2>3. Covers(marker', held) /\ Covers(marker', scope')
    BY <2>1, <2>2, MergeCovers DEF RunInv, MarkerCoversRun
  <2>4. Covers(scope', filter)
    BY <2>1, <2>2, MergeCovers DEF RunInv, MarkerCoversRun
  <2>5. Covers(scope', requested) /\ Covers(scope', Merge(requested, ids))
    BY <2>1, <2>2, MergeCovers DEF RunInv, MarkerCoversRun
  <2>6. MarkerCoversRun'
    BY <2>1, <2>3, <2>4, <2>5 DEF MarkerCoversRun
  <2> QED
    BY <1>1, <2>1, <2>6 DEF RunInv, Running
<1>2. CASE phase = "idle" /\ BeginOrHold(ids, status, held)
  BY <1>2, BeginOrHoldAsks DEF TypeOK, RunOK, Running, RunInv, MarkerCoversRun
<1> QED
  BY <1>1, <1>2 DEF ProcessQueue

\* When a run ends nothing is held and nothing asked any more.
LEMMA FinishAsks ==
  ASSUME RunInv, Running, Finish
  PROVE  RunInv'
<1>1. held' = NoRun /\ filter' = NoRun /\ scope' = NoRun /\ requested' = NoRun
  BY DEF Finish, holdVars, RunInv, Running
<1> QED
  BY <1>1, NothingToCover DEF RunInv, MarkerCoversRun

LEMMA RunStepAsks ==
  ASSUME TypeOK, RunInv, RunStep
  PROVE  RunInv'
<1>1. CASE RoundEnds
  <2>1. CASE stop /\ Finish
    BY <1>1, <2>1, FinishAsks DEF RoundEnds, Running
  <2>2. CASE ~(stop /\ Finish)
    <3>1. /\ phase = "pump" /\ phase' = "repair"
          /\ UNCHANGED <<filter, scope, requested, held, heldPrior, marker>>
      BY <1>1, <2>2 DEF RoundEnds, holdVars
    <3> QED
      BY <3>1 DEF RunInv, MarkerCoversRun, Running
  <2> QED
    BY <2>1, <2>2
<1>2. CASE RepairEnds
  <2>1. CASE Finish
    BY <1>2, <2>1, FinishAsks DEF RepairEnds, Running
  <2>2. CASE ~Finish
    <3>1. /\ phase = "repair" /\ phase' = "pump"
          /\ filter' \in {filter, requested}
          /\ requested' \in {NoRun, requested}
          /\ UNCHANGED <<scope, held, heldPrior, marker>>
      BY <1>2, <2>2 DEF RepairEnds, holdVars
    <3> QED
      BY <3>1, NothingToCover DEF RunInv, MarkerCoversRun, Running
  <2> QED
    BY <2>1, <2>2
<1>3. CASE StartTimerFires
  BY <1>3, ProcessQueueAsks DEF StartTimerFires, Scopes
<1>4. CASE StartHeldQueue
  <2>1. held \in Scopes /\ IsScope(NoRun) /\ ~Running
    BY <1>4 DEF StartHeldQueue, TypeOK, RunOK, IsScope, Running
  <2> QED
    BY <1>4, <2>1, BeginOrHoldAsks, NothingToCover DEF StartHeldQueue
<1> QED
  BY <1>1, <1>2, <1>3, <1>4 DEF RunStep

LEMMA RequestStopAsks ==
  ASSUME RunInv, RequestStop
  PROVE  RunInv'
<1>1. held' = NoRun /\ UNCHANGED <<phase, filter, scope, requested>>
  BY DEF RequestStop
<1>2. CASE Running
  <2>1. UNCHANGED marker
    BY <1>2 DEF RequestStop
  <2> QED
    BY <1>1, <2>1, NothingToCover DEF RunInv, MarkerCoversRun, Running
<1>3. CASE ~Running
  BY <1>1, <1>3, NothingToCover DEF RunInv, MarkerCoversRun, Running
<1> QED
  BY <1>2, <1>3

LEMMA WorldStepAsks ==
  ASSUME TypeOK, RunInv, WorldStep
  PROVE  RunInv'
<1>1. CASE Crash
  BY <1>1, NothingToCover DEF Crash, RunInv, MarkerCoversRun
<1>2. CASE Boot
  <2>1. PICK auto \in AutoTranslate :
          LET ids == IF auto THEN AllJobs ELSE marker
          IN  \/ /\ Claimable(ResetInterrupted, ids) # {}
                 /\ BeginOrHold(ids, ResetInterrupted, NoRun)
              \/ /\ marker' = NoRun /\ phase' = "idle"
                 /\ UNCHANGED <<stop, failed, filter, scope, requested, prior,
                                held, heldPrior, stateVars, slotVars>>
    BY <1>2 DEF Boot
  <2> DEFINE ids == IF auto THEN AllJobs ELSE marker
             st == ResetInterrupted
  <2>2. phase = "down" /\ ~Running
    BY <1>2 DEF Boot, Running
  <2>3. CASE Claimable(st, ids) # {} /\ BeginOrHold(ids, st, NoRun)
    <3>1. ids # NoRun
      BY <2>3, QueueAssumption DEF Claimable, InScope
    <3>2. ids \in Scopes /\ IsScope(NoRun)
      BY <3>1 DEF TypeOK, RunOK, IsScope, Scopes
    <3> HIDE DEF st, ids
    <3> QED
      BY <2>2, <2>3, <3>2, BeginOrHoldAsks, NothingToCover
  <2>4. CASE marker' = NoRun /\ phase' = "idle"
             /\ UNCHANGED <<filter, scope, requested, held, heldPrior>>
    BY <2>2, <2>4, NothingToCover DEF RunInv, MarkerCoversRun
  <2> QED
    BY <2>1, <2>3, <2>4
<1>3. CASE GateChanges \/ ModeChanges
  BY <1>3, AskedUnchanged DEF GateChanges, ModeChanges, runVars, holdVars, asked
<1>4. ASSUME NEW j \in Jobs, ReviewChanges(j) PROVE RunInv'
  BY <1>4, AskedUnchanged DEF ReviewChanges, runVars, holdVars, asked
<1>5. ASSUME NEW o \in Outputs, OutputDeleted(o) PROVE RunInv'
  BY <1>5, AskedUnchanged DEF OutputDeleted, runVars, holdVars, asked
<1> QED
  BY <1>1, <1>2, <1>3, <1>4, <1>5 DEF WorldStep

LEMMA NextAsks ==
  ASSUME TypeOK, RunInv, Next
  PROVE  RunInv'
<1>1. ASSUME NEW s \in Slots, SlotStep(s) PROVE RunInv'
  BY <1>1, SlotStepAsks, AskedUnchanged
<1>2. ASSUME NEW ids \in Requests, RequestRun(ids) PROVE RunInv'
  BY <1>2, ProcessQueueAsks, QueueAssumption DEF RequestRun
<1>3. ASSUME NEW j \in Jobs, JobRoute(j) PROVE RunInv'
  BY <1>3, JobRouteAsks, AskedUnchanged
<1> QED
  BY <1>1, <1>2, <1>3, RunStepAsks, RequestStopAsks, WorldStepAsks
  DEF Next, UserStep, JobRoute

LEMMA RunInvariant == Spec => []RunInv
<1>1. Init => RunInv
  BY NothingToCover DEF Init, Idle, RunInv, MarkerCoversRun
<1>2. QueueInv /\ RunInv /\ [Next]_vars => RunInv'
  <2> SUFFICES ASSUME QueueInv, RunInv, [Next]_vars PROVE RunInv'
    OBVIOUS
  <2>1. CASE Next
    BY <2>1, NextAsks DEF QueueInv
  <2>2. CASE UNCHANGED vars
    BY <2>2, AskedUnchanged DEF vars, runVars, holdVars, asked
  <2> QED
    BY <2>1, <2>2
<1> QED
  BY <1>1, <1>2, QueueInvariant, PTL DEF Spec

\* Whatever a live run or a held start was asked to do is on disk.
THEOREM MarkerCovers == Spec => []MarkerCoversRun
<1>1. RunInv => MarkerCoversRun
  BY DEF RunInv
<1> QED
  BY <1>1, RunInvariant, PTL

-----------------------------------------------------------------------------
(* What a stop and the end of a run take off the marker.                   *)

\* A pending job that a stop drops from the marker was part of what is stopped,
\* or was not pending before it.
LEMMA StopDrops ==
  ASSUME NEW before \in SUBSET Jobs, NEW sc, NEW st, NEW j \in Jobs,
         st[j] = "pending", ~InScope(j, Restored(before, sc, st))
  PROVE  InScope(j, sc) \/ j \notin before
<1> DEFINE left == {i \in before : ~InScope(i, sc) /\ st[i] = "pending"}
<1>1. SUFFICES ASSUME j \in left PROVE FALSE
  OBVIOUS
<1>2. Restored(before, sc, st) = left /\ left \in SUBSET Jobs
  BY <1>1 DEF Restored
<1> HIDE DEF left
<1>3. left # NoRun
  BY <1>2, QueueAssumption
<1> QED
  BY <1>1, <1>2, <1>3 DEF InScope

Withdrawn(j) == \/ Running /\ stop /\ (InScope(j, scope) \/ j \notin prior)
                \/ held # NoRun /\ (InScope(j, held) \/ j \notin heldPrior)

\* The run's end: it clears the marker only when nothing claimable is left of
\* it, and a stop leaves on it what the run was not asked for.
LEMMA FinishDrops ==
  ASSUME TypeOK, Running, Finish, NEW j \in Jobs \ restricted,
         status'[j] = "pending", InScope(j, marker), ~InScope(j, marker')
  PROVE  Withdrawn(j)
<1>1. status' = HandedBack /\ HandedBack[j] = "pending"
  BY DEF Finish
<1>2. CASE failed
  BY <1>2 DEF Finish
<1>3. CASE ~failed /\ stop
  <2>1. marker' = Restored(prior, scope, HandedBack)
    BY <1>3 DEF Finish
  <2>2. InScope(j, scope) \/ j \notin prior
    BY <1>1, <2>1, StopDrops DEF TypeOK, RunOK
  <2> QED
    BY <1>3, <2>2 DEF Withdrawn
<1>4. CASE ~failed /\ ~stop
  <2>1. j \in Claimable(HandedBack, marker)
    BY <1>1 DEF Claimable
  <2>2. marker' = marker
    BY <1>4, <2>1 DEF Finish
  <2> QED
    BY <2>2
<1> QED
  BY <1>2, <1>3, <1>4

LEMMA ProcessQueueKeeps ==
  ASSUME TypeOK, NEW ids \in Scopes, NEW j \in Jobs, InScope(j, marker),
         \/ ProcessQueue(ids)
         \/ \E st, hd : BeginOrHold(ids, st, hd)
  PROVE  InScope(j, marker')
<1>1. marker' = Merge(marker, ids)
  BY DEF ProcessQueue, WidenRun, BeginOrHold, Marked
<1> QED
  BY <1>1, MergeKeepsJobs DEF TypeOK, RunOK

LEMMA NextKeepsMarked ==
  ASSUME QueueInv, RunInv, Next, NEW j \in Jobs \ restricted,
         status[j] = "pending", status'[j] = "pending",
         InScope(j, marker), ~InScope(j, marker')
  PROVE  Withdrawn(j)
<1> USE DEF QueueInv
<1>0. marker' # marker
  OBVIOUS
<1>1. ASSUME NEW s \in Slots, SlotStep(s) PROVE FALSE
  BY <1>0, <1>1, SlotStepAsks DEF asked
<1>2. CASE RunStep
  <2>1. CASE RoundEnds \/ RepairEnds
    <3>1. Running /\ Finish
      BY <1>0, <2>1 DEF RoundEnds, RepairEnds, Running
    <3> QED
      BY <3>1, FinishDrops
  <2>2. CASE StartTimerFires
    BY <2>2, ProcessQueueKeeps DEF StartTimerFires, Scopes
  <2>3. CASE StartHeldQueue
    <3>1. held \in Scopes
      BY <2>3 DEF StartHeldQueue, TypeOK, RunOK, IsScope
    <3> QED
      BY <2>3, <3>1, ProcessQueueKeeps DEF StartHeldQueue
  <2> QED
    BY <1>2, <2>1, <2>2, <2>3 DEF RunStep
<1>3. ASSUME NEW ids \in Requests, RequestRun(ids) PROVE FALSE
  BY <1>3, ProcessQueueKeeps, QueueAssumption DEF RequestRun
<1>4. CASE RequestStop
  <2>1. /\ held # NoRun /\ heldPrior # NoRun
        /\ marker' = Restored(heldPrior, held, status)
    BY <1>0, <1>4 DEF RequestStop, RunInv
  <2>2. heldPrior \in SUBSET Jobs
    BY <2>1 DEF TypeOK, RunOK
  <2>3. InScope(j, held) \/ j \notin heldPrior
    BY <2>1, <2>2, StopDrops
  <2> QED
    BY <2>1, <2>3 DEF Withdrawn
<1>5. ASSUME NEW i \in Jobs, JobRoute(i) PROVE FALSE
  BY <1>0, <1>5, JobRouteAsks DEF asked
<1>6. CASE WorldStep
  <2>1. CASE Boot
    <3>1. PICK auto \in AutoTranslate :
            LET ids == IF auto THEN AllJobs ELSE marker
            IN  \/ /\ Claimable(ResetInterrupted, ids) # {}
                   /\ BeginOrHold(ids, ResetInterrupted, NoRun)
                \/ Claimable(ResetInterrupted, ids) = {}
      BY <2>1 DEF Boot
    <3> DEFINE ids == IF auto THEN AllJobs ELSE marker
               st == ResetInterrupted
    <3>2. st[j] = "pending" /\ InScope(j, ids)
      BY DEF ResetInterrupted, InScope
    <3>3. j \in Claimable(st, ids)
      BY <3>2 DEF Claimable
    <3>4. ids # NoRun
      BY <3>2, QueueAssumption DEF InScope
    <3>5. ids \in Scopes
      BY <3>4 DEF TypeOK, RunOK, IsScope, Scopes
    <3> HIDE DEF ids, st
    <3>6. BeginOrHold(ids, st, NoRun)
      BY <3>1, <3>3 DEF ids, st
    <3> QED
      BY <3>5, <3>6, ProcessQueueKeeps
  <2>2. CASE ~Boot
    <3>1. UNCHANGED marker
      BY <1>6, <2>2 DEF WorldStep, Crash, GateChanges, ModeChanges,
                        ReviewChanges, OutputDeleted
    <3> QED
      BY <1>0, <3>1
  <2> QED
    BY <2>1, <2>2
<1> QED
  BY <1>1, <1>2, <1>3, <1>4, <1>5, <1>6 DEF Next, UserStep, JobRoute

\* The jobs of an interrupted run stay on its marker until they are done, a
\* stop withdraws them or they are under review: no start, stop or end of
\* another selection loses them (markQueueRun, restoreStoppedRun, and the
\* finally block of processQueue).
THEOREM InterruptedRunsKept == Spec => InterruptedRunKept
<1> DEFINE Kept ==
      \A j \in Jobs \ restricted :
        /\ status[j] = "pending" /\ status'[j] = "pending"
        /\ InScope(j, marker) /\ ~InScope(j, marker')
        => \/ Running /\ stop /\ (InScope(j, scope) \/ j \notin prior)
           \/ held # NoRun /\ (InScope(j, held) \/ j \notin heldPrior)
<1>1. QueueInv /\ RunInv /\ [Next]_vars => [Kept]_vars
  <2> SUFFICES ASSUME QueueInv, RunInv, Next PROVE Kept
    OBVIOUS
  <2> QED
    BY NextKeepsMarked DEF Withdrawn
<1> QED
  BY <1>1, QueueInvariant, RunInvariant, PTL DEF Spec, InterruptedRunKept

-----------------------------------------------------------------------------
(* A review holds a job back.                                              *)

\* No slot begins a job whose subtitle is under review, however long the
\* claimed job waited for its connection.
THEOREM NoStartsUnderReview == Spec => NoStartUnderReview
<1> DEFINE Allowed == \A s \in Slots : pc[s] # "engine" /\ pc'[s] = "engine"
                                         => job'[s] \notin restricted
<1>1. TypeOK /\ [Next]_vars => [Allowed]_vars
  <2> SUFFICES ASSUME TypeOK, Next, NEW s \in Slots, pc[s] # "engine",
                      pc'[s] = "engine"
               PROVE  job'[s] \notin restricted
    OBVIOUS
  <2> USE DEF TypeOK, SlotsOK
  <2>1. ASSUME NEW t \in Slots, NEW j \in Jobs, ClaimStarts(t, j)
        PROVE  job'[s] \notin restricted
    <3>1. j \notin restricted /\ job' = [job EXCEPT ![t] = j]
      BY <2>1, ClaimableJobs DEF ClaimStarts, Takes
    <3>2. s = t
      BY <2>1 DEF ClaimStarts, Begins
    <3> QED
      BY <3>1, <3>2
  <2>2. ASSUME NEW t \in Slots, LockArrives(t)
        PROVE  job'[s] \notin restricted
    BY <2>2 DEF LockArrives, Begins, MayBegin
  <2>3. ASSUME NEW t \in Slots, SlotStep(t), ~LockArrives(t),
               \A j \in Jobs : ~ClaimStarts(t, j)
        PROVE  FALSE
    BY <2>3 DEF SlotStep, ClaimConflicts, ClaimSkips, PutBack, SlotExits,
                SlotRejects, EngineFails, EngineCompletes, TitleSettles,
                ConnectionLost, Leaves, Releases, slotVars
  <2>4. CASE RunStep
    BY <2>4 DEF RunStep, RoundEnds, RepairEnds, StartTimerFires,
                StartHeldQueue, ProcessQueue, WidenRun, BeginOrHold, Finish,
                slotVars
  <2>5. CASE UserStep
    BY <2>5 DEF UserStep, RequestRun, ProcessQueue, WidenRun, BeginOrHold,
                RequestStop, Enqueue, Retry, Retarget, ForceJob, Delete,
                Cancel, OnlyRows, slotVars
  <2>6. CASE WorldStep
    BY <2>6 DEF WorldStep, Crash, Boot, BeginOrHold, GateChanges, ModeChanges,
                ReviewChanges, OutputDeleted, slotVars
  <2> QED
    BY <2>1, <2>2, <2>3, <2>4, <2>5, <2>6 DEF Next
<1> QED
  BY <1>1, TypeCorrect, PTL DEF Spec, NoStartUnderReview

-----------------------------------------------------------------------------
(* Active jobs, split jobs and cancels.  They are registered by the job    *)
(* alone, so they need that no job is queued again while an earlier run of *)
(* it is still at its title call: otherwise that run clears what the new   *)
(* one registered.                                                         *)

NoRerunDuringTitle ==
  "title" \notin Features \/ Features \cap {"retry", "force", "retarget"} = {}

\* A job whose title is being written has left the queue for good.
TitledJobsRest ==
  \A s \in Slots : pc[s] = "title" =>
    "title" \in Features /\ status[job[s]] \in {"done", "deleted"}

\* Every busy slot's job, the ones at their title call included, is active and
\* its own; and a slot that translates a split job is the only busy one.
BusyJobsActive == \A s \in Busy : job[s] \in active
BusyJobsDiffer == \A s, t \in Busy : job[s] = job[t] => s = t
SplitSlotAlone ==
  \A s \in Slots : Working(s) /\ split[s] =>
    pc[s] = "engine" /\ splitRunning /\ Busy \subseteq {s}

SlotInv == TitledJobsRest /\ BusyJobsActive /\ BusyJobsDiffer /\ SplitSlotAlone

LEMMA WorkingIsBusy ==
  /\ \A s \in Slots : Working(s) => s \in Busy
  /\ \A s \in Busy : Working(s) \/ pc[s] = "title"
BY DEF Working, Busy

\* With no slot busy there is nothing to say.
LEMMA NobodyBusy ==
  ASSUME \A s \in Slots : pc'[s] \in {"loop", "exited"}
  PROVE  SlotInv'
BY DEF SlotInv, TitledJobsRest, BusyJobsActive, BusyJobsDiffer,
       SplitSlotAlone, Busy, Working

\* A step that leaves the slots alone, and the rows of titled jobs.
LEMMA SlotsUnchanged ==
  ASSUME SlotInv, UNCHANGED <<pc, job, split, splitRunning, active>>,
         TitledJobsRest'
  PROVE  SlotInv'
BY DEF SlotInv, BusyJobsActive, BusyJobsDiffer, SplitSlotAlone, Busy, Working

\* A pending job is nobody's.
LEMMA PendingIsFree ==
  ASSUME QueueInv, TitledJobsRest, NEW j \in Jobs, status[j] = "pending",
         NEW t \in Busy
  PROVE  job[t] # j
<1>1. CASE Working(t)
  BY <1>1 DEF QueueInv, WriterHoldsClaim, Busy
<1>2. CASE pc[t] = "title"
  BY <1>2 DEF TitledJobsRest, Busy
<1> QED
  BY <1>1, <1>2, WorkingIsBusy

\* A slot that leaves drops at most its own job from the active ones, and rows
\* change only for jobs whose title nobody else is writing.
LEMMA LeavingKeepsSlots ==
  ASSUME QueueInv, SlotInv, NEW s \in Slots, NEW to \in {"loop", "exited"},
         Leaves(s, to),
         \/ active' = active
         \/ s \in Busy /\ active' = active \ {job[s]},
         s \in Busy \/ splitRunning' = splitRunning,
         \A t \in Slots \ {s} : pc[t] = "title" =>
           status'[job[t]] = status[job[t]]
  PROVE  SlotInv'
<1> USE DEF QueueInv, TypeOK, SlotsOK
<1>1. /\ Busy' = Busy \ {s}
      /\ \A t \in Slots \ {s} : /\ pc'[t] = pc[t] /\ job'[t] = job[t]
                                /\ split'[t] = split[t]
                                /\ Working(t)' <=> Working(t)
      /\ ~Working(s)' /\ pc'[s] # "title"
  BY DEF Leaves, Busy, Working
<1>2. TitledJobsRest'
  BY <1>1 DEF SlotInv, TitledJobsRest
<1>3. BusyJobsActive' /\ BusyJobsDiffer'
  BY <1>1 DEF SlotInv, BusyJobsActive, BusyJobsDiffer, Busy
<1>4. SplitSlotAlone'
  <2> SUFFICES ASSUME NEW t \in Slots, Working(t)', split'[t]
               PROVE  pc'[t] = "engine" /\ splitRunning' /\ Busy' \subseteq {t}
    BY DEF SplitSlotAlone
  <2>1. t # s /\ Working(t) /\ split[t]
    BY <1>1
  <2>2. pc[t] = "engine" /\ splitRunning /\ Busy \subseteq {t}
    BY <2>1 DEF SlotInv, SplitSlotAlone
  <2>3. s \notin Busy
    BY <2>1, <2>2
  <2> QED
    BY <1>1, <2>1, <2>2, <2>3
<1> QED
  BY <1>2, <1>3, <1>4 DEF SlotInv

\* Slots whose job is at its title call have other jobs than working slots.
LEMMA TitledRowsKept ==
  ASSUME QueueInv, SlotInv, NEW j \in Jobs, NEW r,
         status' = [status EXCEPT ![j] = r],
         status[j] \notin {"done", "deleted"}
  PROVE  \A t \in Slots : pc[t] = "title" => status'[job[t]] = status[job[t]]
<1> SUFFICES ASSUME NEW t \in Slots, pc[t] = "title"
             PROVE  status'[job[t]] = status[job[t]]
  OBVIOUS
<1>1. job[t] \in Jobs /\ status[job[t]] \in {"done", "deleted"}
  BY DEF QueueInv, SlotsBelongToRun, SlotInv, TitledJobsRest
<1> QED
  BY <1>1 DEF QueueInv, TypeOK, RowsOK

\* A claim: in split mode only with no job active, so with no slot busy, and
\* then the job begins at once; otherwise only with no split job running.
LEMMA ClaimKeepsSlots ==
  ASSUME QueueInv, SlotInv, NEW s \in Slots, NEW j \in Jobs, ClaimStarts(s, j)
  PROVE  SlotInv'
<1> USE DEF QueueInv, TypeOK, SlotsOK
<1>1. /\ status[j] = "pending" /\ pc[s] = "loop"
      /\ status' = [status EXCEPT ![j] = "translating"]
      /\ active' = active \cup {j} /\ job' = [job EXCEPT ![s] = j]
      /\ split' = [split EXCEPT ![s] = Split]
      /\ ~WaitsForOtherFiles
  BY ClaimableJobs DEF ClaimStarts, Takes, RegisterActive, MayClaim
<1>2. PICK c \in Conns :
        \/ ~LockTaken(c) /\ Begins(s, j, Split)
        \/ /\ LockTaken(c) \/ ChunkMayHoldLock
           /\ pc' = [pc EXCEPT ![s] = "waiting"]
           /\ UNCHANGED <<owner, splitRunning>>
  BY DEF ClaimStarts
<1>3. pc'[s] \in {"waiting", "engine"}
      /\ \A t \in Slots \ {s} : pc'[t] = pc[t]
  BY <1>2 DEF Begins
<1>4. s \notin Busy /\ Busy' = Busy \cup {s}
  BY <1>1, <1>3 DEF Busy
<1>5. \A t \in Busy : job[t] # j
  BY <1>1, PendingIsFree DEF SlotInv
<1>6. TitledJobsRest'
  <2>1. \A t \in Slots : pc[t] = "title" => status'[job[t]] = status[job[t]]
    BY <1>1, TitledRowsKept
  <2> QED
    BY <1>1, <1>3, <2>1 DEF SlotInv, TitledJobsRest
<1>7. BusyJobsActive' /\ BusyJobsDiffer'
  BY <1>1, <1>4, <1>5 DEF SlotInv, BusyJobsActive, BusyJobsDiffer, Busy
<1>8. CASE Split
  <2>1. Busy = {}
    BY <1>1, <1>8 DEF WaitsForOtherFiles, SlotInv, BusyJobsActive
  <2>2. ~LockTaken(c) /\ ~ChunkMayHoldLock
    BY <2>1 DEF LockTaken, ChunkMayHoldLock, Busy
  <2>3. pc'[s] = "engine" /\ splitRunning' = Split
    BY <1>2, <2>2 DEF Begins
  <2>4. \A t \in Slots : Working(t)' => t = s
    BY <1>4, <2>1 DEF Busy, Working
  <2>5. SplitSlotAlone'
    BY <1>4, <1>8, <2>1, <2>3, <2>4 DEF SplitSlotAlone
  <2> QED
    BY <1>6, <1>7, <2>5 DEF SlotInv
<1>9. CASE ~Split
  <2>1. ~splitRunning /\ split'[s] = FALSE
    BY <1>1, <1>9 DEF WaitsForOtherFiles
  <2>2. \A t \in Slots : ~(Working(t) /\ split[t])
    BY <2>1 DEF SlotInv, SplitSlotAlone
  <2>3. \A t \in Slots : ~(Working(t)' /\ split'[t])
    BY <1>1, <1>3, <2>1, <2>2 DEF Working
  <2> QED
    BY <1>6, <1>7, <2>3 DEF SlotInv, SplitSlotAlone
<1> QED
  BY <1>8, <1>9

\* releaseJob clears the registration of the slot's own job only.
LEMMA ReleasingKeepsSlots ==
  ASSUME QueueInv, SlotInv, NEW s \in Busy, Releases(s),
         \A t \in Slots \ {s} : pc[t] = "title" =>
           status'[job[t]] = status[job[t]]
  PROVE  SlotInv'
<1>1. Leaves(s, "loop")
      /\ (active' = active \/ active' = active \ {job[s]})
  BY DEF Releases, DropsOwn
<1> QED
  BY <1>1, LeavingKeepsSlots DEF Busy

LEMMA SlotStepKeepsSlots ==
  ASSUME QueueInv, SlotInv, NEW s \in Slots, SlotStep(s)
  PROVE  SlotInv'
<1> USE DEF QueueInv, TypeOK
<1>1. ASSUME NEW j \in Jobs, ClaimConflicts(s, j) \/ ClaimSkips(s, j)
      PROVE  SlotInv'
  <2>1. /\ status[j] = "pending"
        /\ UNCHANGED <<pc, job, split, splitRunning, active>>
        /\ \E r : status' = [status EXCEPT ![j] = r]
    BY <1>1, ClaimableJobs DEF ClaimConflicts, ClaimSkips, Takes
  <2>2. TitledJobsRest'
    BY <2>1, TitledRowsKept DEF SlotInv, TitledJobsRest
  <2> QED
    BY <2>1, <2>2, SlotsUnchanged
<1>2. ASSUME NEW j \in Jobs, ClaimStarts(s, j) PROVE SlotInv'
  BY <1>2, ClaimKeepsSlots
<1>3. CASE LockArrives(s)
  <2>1. /\ pc[s] = "waiting" /\ pc' = [pc EXCEPT ![s] = "engine"]
        /\ UNCHANGED <<status, active, job, split>>
    BY <1>3 DEF LockArrives, Begins, rows
  <2>2. Busy' = Busy /\ \A t \in Slots : Working(t)' <=> Working(t)
    BY <2>1 DEF Busy, Working, SlotsOK
  <2>3. s \in Busy /\ Working(s) /\ ~split[s]
    BY <2>1 DEF Busy, Working, SlotInv, SplitSlotAlone
  <2>4. \A t \in Slots : ~(Working(t) /\ split[t])
    BY <2>3 DEF SlotInv, SplitSlotAlone
  <2>5. TitledJobsRest'
    BY <2>1 DEF SlotInv, TitledJobsRest, SlotsOK
  <2> QED
    BY <2>1, <2>2, <2>4, <2>5
    DEF SlotInv, BusyJobsActive, BusyJobsDiffer, SplitSlotAlone
<1>4. CASE PutBack(s)
  <2>1. /\ s \in Busy /\ Working(s) /\ Leaves(s, "loop") /\ active' = active
        /\ status' = [status EXCEPT ![job[s]] = "pending"]
    BY <1>4 DEF PutBack, Busy, Working, stateVars, RowReturns
  <2>2. \A t \in Slots : pc[t] = "title" => status'[job[t]] = status[job[t]]
    BY <2>1, TitledRowsKept DEF WriterHoldsClaim
  <2> QED
    BY <2>1, <2>2, LeavingKeepsSlots
<1>5. CASE SlotExits(s)
  <2>1. /\ Leaves(s, "exited") /\ UNCHANGED <<status, active>>
        /\ s \in Busy \/ splitRunning' = splitRunning
    BY <1>5 DEF SlotExits, Busy, stateVars, rows, SlotsOK
  <2> QED
    BY <2>1, LeavingKeepsSlots
<1>6. CASE SlotRejects(s)
  <2>1. /\ Leaves(s, "exited") /\ UNCHANGED active
        /\ s \in Busy \/ splitRunning' = splitRunning
    BY <1>6 DEF SlotRejects, Busy, stateVars
  <2>2. \/ UNCHANGED status
        \/ \E j \in Jobs : /\ status[j] = "pending"
                           /\ status' = [status EXCEPT ![j] = "translating"]
    BY <1>6, ClaimableJobs DEF SlotRejects
  <2>3. \A t \in Slots : pc[t] = "title" => status'[job[t]] = status[job[t]]
    BY <2>2, TitledRowsKept
  <2> QED
    BY <2>1, <2>3, LeavingKeepsSlots
<1>7. CASE EngineFails(s)
  <2>1. /\ s \in Busy /\ Working(s) /\ Releases(s)
        /\ status' = [status EXCEPT ![job[s]] = FailedStatus]
    BY <1>7 DEF EngineFails, Busy, Working
  <2>2. \A t \in Slots : pc[t] = "title" => status'[job[t]] = status[job[t]]
    BY <2>1, TitledRowsKept DEF WriterHoldsClaim
  <2> QED
    BY <2>1, <2>2, ReleasingKeepsSlots
<1>8. CASE EngineCompletes(s)
  <2>1. s \in Busy /\ Working(s) /\ job[s] \in Jobs /\ pc[s] = "engine"
        /\ status[job[s]] = "translating"
    BY <1>8 DEF EngineCompletes, Busy, Working, WriterHoldsClaim
  <2>2. \A t \in Slots : pc[t] = "title" => status'[job[t]] = status[job[t]]
    BY <1>8, <2>1, TitledRowsKept DEF EngineCompletes
  <2>3. CASE Releases(s)
    BY <2>1, <2>2, <2>3, ReleasingKeepsSlots
  <2>4. CASE ~Releases(s)
    <3>1. /\ "title" \in Features /\ pc' = [pc EXCEPT ![s] = "title"]
          /\ UNCHANGED <<job, split, splitRunning, active>>
          /\ status' = [status EXCEPT ![job[s]] = "done"]
      BY <1>8, <2>4 DEF EngineCompletes, stateVars
    <3>2. Busy' = Busy /\ \A t \in Slots : Working(t)' => Working(t) /\ t # s
      BY <2>1, <3>1 DEF Busy, Working, SlotsOK
    <3>3. TitledJobsRest'
      BY <2>1, <2>2, <3>1 DEF SlotInv, TitledJobsRest, SlotsOK, RowsOK
    <3>4. SplitSlotAlone'
      BY <3>1, <3>2 DEF SlotInv, SplitSlotAlone, SlotsOK
    <3> QED
      BY <3>1, <3>2, <3>3, <3>4 DEF SlotInv, BusyJobsActive, BusyJobsDiffer
  <2> QED
    BY <2>3, <2>4
<1>9. CASE TitleSettles(s)
  BY <1>9, ReleasingKeepsSlots DEF TitleSettles, Busy, rows
<1>10. CASE ConnectionLost(s)
  BY <1>10, SlotsUnchanged
  DEF ConnectionLost, slotVars, rows, SlotInv, TitledJobsRest
<1> QED
  BY <1>1, <1>2, <1>3, <1>4, <1>5, <1>6, <1>7, <1>8, <1>9, <1>10 DEF SlotStep

\* Starting, holding or widening a run: the slots are as they were, or all at
\* the top of their loops.
LEMMA StartKeepsSlots ==
  ASSUME QueueInv, SlotInv, NEW ids, UNCHANGED status,
         \/ ProcessQueue(ids)
         \/ phase # "pump" /\ \E st, hd : BeginOrHold(ids, st, hd)
  PROVE  SlotInv'
<1>1. CASE UNCHANGED <<slotVars, active>>
  BY <1>1, SlotsUnchanged DEF slotVars, SlotInv, TitledJobsRest
<1>2. CASE pc' = [t \in Slots |-> "loop"]
  BY <1>2, NobodyBusy
<1> QED
  BY <1>1, <1>2 DEF ProcessQueue, WidenRun, BeginOrHold, stateVars, slotVars

LEMMA RunStepKeepsSlots ==
  ASSUME QueueInv, SlotInv, RunStep
  PROVE  SlotInv'
<1>1. CASE RoundEnds \/ RepairEnds
  <2>1. \A t \in Slots : pc[t] = "exited"
    BY <1>1, QuietOutsidePump DEF RoundEnds, AllExited, RepairEnds
  <2>2. pc' = pc \/ pc' = [t \in Slots |-> "loop"]
    BY <1>1 DEF RoundEnds, RepairEnds, Finish, slotVars
  <2> QED
    BY <2>1, <2>2, NobodyBusy
<1>2. CASE StartTimerFires
  BY <1>2, StartKeepsSlots DEF StartTimerFires, rows
<1>3. CASE StartHeldQueue
  BY <1>3, StartKeepsSlots DEF StartHeldQueue, rows
<1> QED
  BY <1>1, <1>2, <1>3 DEF RunStep

\* The routes of one job: this is where a rerun during a title call would hurt.
LEMMA JobRouteKeepsSlots ==
  ASSUME NoRerunDuringTitle, QueueInv, SlotInv, NEW j \in Jobs, JobRoute(j)
  PROVE  SlotInv'
<1> USE DEF QueueInv, TypeOK, RowsOK
<1>1. UNCHANGED <<pc, job, split, splitRunning, active>>
  BY DEF JobRoute, Enqueue, Retry, Retarget, ForceJob, Delete, Cancel, OnlyRows,
         slotVars, stateVars
<1>2. CASE Retry(j) \/ Retarget(j) \/ ForceJob(j)
  <2>1. "title" \notin Features
    BY <1>2 DEF Retry, Retarget, ForceJob, NoRerunDuringTitle
  <2>2. TitledJobsRest'
    BY <1>1, <2>1 DEF SlotInv, TitledJobsRest
  <2> QED
    BY <1>1, <2>2, SlotsUnchanged
<1>3. CASE Enqueue(j) \/ Delete(j) \/ Cancel(j)
  <2>1. \A i \in Jobs : status[i] \in {"done", "deleted"} =>
          status'[i] \in {"done", "deleted"}
    BY <1>3 DEF Enqueue, Delete, Cancel, rows
  <2>2. TitledJobsRest'
    BY <1>1, <2>1 DEF SlotInv, TitledJobsRest, SlotsBelongToRun
  <2> QED
    BY <1>1, <2>2, SlotsUnchanged
<1> QED
  BY <1>2, <1>3 DEF JobRoute

LEMMA WorldStepKeepsSlots ==
  ASSUME QueueInv, SlotInv, WorldStep
  PROVE  SlotInv'
<1>1. CASE Crash
  BY <1>1, NobodyBusy DEF Crash
<1>2. CASE Boot
  <2>1. \A t \in Slots : pc[t] = "exited"
    BY <1>2, QuietOutsidePump DEF Boot
  <2>2. pc' = pc \/ pc' = [t \in Slots |-> "loop"]
    BY <1>2 DEF Boot, BeginOrHold, slotVars
  <2> QED
    BY <2>1, <2>2, NobodyBusy
<1>3. CASE ~Crash /\ ~Boot
  <2>1. UNCHANGED <<status, pc, job, split, splitRunning, active>>
    BY <1>3 DEF WorldStep, GateChanges, ModeChanges, ReviewChanges,
                OutputDeleted, rows, stateVars, slotVars
  <2> QED
    BY <2>1, SlotsUnchanged DEF SlotInv, TitledJobsRest
<1> QED
  BY <1>1, <1>2, <1>3

LEMMA SlotInvariant ==
  ASSUME NoRerunDuringTitle
  PROVE  Spec => []SlotInv
<1>1. Init => SlotInv
  BY DEF Init, Idle, SlotInv, TitledJobsRest, BusyJobsActive, BusyJobsDiffer,
         SplitSlotAlone, Busy, Working
<1>2. QueueInv /\ SlotInv /\ [Next]_vars => SlotInv'
  <2> SUFFICES ASSUME QueueInv, SlotInv, [Next]_vars PROVE SlotInv'
    OBVIOUS
  <2>1. ASSUME NEW ids \in Requests, RequestRun(ids) PROVE SlotInv'
    BY <2>1, StartKeepsSlots DEF RequestRun, rows
  <2>2. CASE RequestStop
    BY <2>2, SlotsUnchanged
    DEF RequestStop, stateVars, slotVars, rows, SlotInv, TitledJobsRest
  <2>3. CASE UNCHANGED vars
    BY <2>3, SlotsUnchanged
    DEF vars, stateVars, slotVars, rows, SlotInv, TitledJobsRest
  <2> QED
    BY <2>1, <2>2, <2>3, SlotStepKeepsSlots, RunStepKeepsSlots,
       JobRouteKeepsSlots, WorldStepKeepsSlots DEF Next, UserStep, JobRoute
<1> QED
  BY <1>1, <1>2, QueueInvariant, PTL DEF Spec

\* Every job a slot works on is in activeJobIds: a split job that must wait for
\* the others, and a slot that asks whether it may exit, see it.
THEOREM ActiveCovers ==
  ASSUME NoRerunDuringTitle
  PROVE  Spec => []ActiveCoversWork
<1>1. SlotInv => ActiveCoversWork
  BY WorkingIsBusy DEF SlotInv, BusyJobsActive, ActiveCoversWork
<1> QED
  BY <1>1, SlotInvariant, PTL

\* A job that is split over all connections is the only one translated,
\* whichever way the setting changes while it runs.
THEOREM SplitJobsRunAlone ==
  ASSUME NoRerunDuringTitle
  PROVE  Spec => []SplitRunsAlone
<1>1. SlotInv => SplitRunsAlone
  BY DEF SlotInv, SplitSlotAlone, SplitRunsAlone, Working, Busy
<1> QED
  BY <1>1, SlotInvariant, PTL

-----------------------------------------------------------------------------
(* Cancels.                                                                *)

\* An accepted cancel of a translating job is not dropped while the job goes
\* on, and the job does not end as done.
CancelKept(j) ==
  /\ status'[j] # "done"
  /\ j \notin cancelled' => status'[j] # "translating"

LEMMA SlotStepKeepsCancel ==
  ASSUME QueueInv, SlotInv, NEW s \in Slots, SlotStep(s),
         NEW j \in cancelled, status[j] = "translating"
  PROVE  CancelKept(j)
<1> USE DEF QueueInv, TypeOK, RowsOK, CancelKept
<1>0. j \in Jobs
  BY DEF StateOK
<1>1. ASSUME NEW i \in Jobs,
             ClaimConflicts(s, i) \/ ClaimSkips(s, i) \/ ClaimStarts(s, i)
      PROVE  CancelKept(j)
  <2>1. status[i] = "pending" /\ UNCHANGED cancelled
    BY <1>1, ClaimableJobs DEF ClaimConflicts, ClaimSkips, ClaimStarts, Takes
  <2>2. \E r : status' = [status EXCEPT ![i] = r]
    BY <1>1 DEF ClaimConflicts, ClaimSkips, ClaimStarts
  <2>3. status'[j] = status[j]
    BY <1>0, <2>1, <2>2
  <2> QED
    BY <2>1, <2>3
<1>2. CASE LockArrives(s) \/ SlotExits(s) \/ ConnectionLost(s)
  BY <1>2 DEF LockArrives, SlotExits, ConnectionLost, rows, stateVars
<1>3. CASE PutBack(s)
  BY <1>0, <1>3 DEF PutBack, RowReturns, stateVars
<1>4. CASE SlotRejects(s)
  BY <1>0, <1>4 DEF SlotRejects, stateVars
<1>5. CASE EngineFails(s)
  BY <1>0, <1>5 DEF EngineFails, Releases, FailedStatus
<1>6. CASE EngineCompletes(s)
  <2>1. job[s] \in Jobs
    BY <1>6 DEF EngineCompletes, WriterHoldsClaim, Working
  <2>2. CASE job[s] = j
    BY <1>6, <2>1, <2>2
    DEF EngineCompletes, CancelSeen, Releases, FailedStatus
  <2>3. CASE job[s] # j
    BY <1>0, <1>6, <2>3 DEF EngineCompletes, Releases, stateVars
  <2> QED
    BY <2>2, <2>3
<1>7. CASE TitleSettles(s)
  <2>1. job[s] # j
    BY <1>7 DEF TitleSettles, SlotInv, TitledJobsRest
  <2> QED
    BY <1>7, <2>1 DEF TitleSettles, Releases, rows
<1> QED
  BY <1>1, <1>2, <1>3, <1>4, <1>5, <1>6, <1>7 DEF SlotStep

LEMMA NextKeepsCancel ==
  ASSUME QueueInv, SlotInv, Next, phase' # "down",
         NEW j \in cancelled, status[j] = "translating"
  PROVE  CancelKept(j)
<1> USE DEF QueueInv, TypeOK, RowsOK, CancelKept
<1>0. j \in Jobs
  BY DEF StateOK
<1>1. phase # "idle"
  BY <1>0, QuietOutsidePump
<1>2. ASSUME UNCHANGED <<status, cancelled>> PROVE CancelKept(j)
  BY <1>2
<1>3. ASSUME NEW ids, ProcessQueue(ids), UNCHANGED rows PROVE CancelKept(j)
  BY <1>1, <1>3 DEF ProcessQueue, WidenRun, stateVars, rows
<1>4. CASE RunStep
  <2>1. CASE RoundEnds \/ RepairEnds
    <3>1. AllExited /\ Running
      BY <2>1, QuietOutsidePump DEF RoundEnds, RepairEnds, AllExited, Running
    <3>2. j \in claimed
      BY <1>0, <3>1 DEF NoStrandedJob, AllExited, Working, Running
    <3>3. CASE Finish
      BY <1>0, <3>2, <3>3 DEF Finish, HandedBack
    <3>4. CASE ~Finish
      BY <2>1, <3>4, <1>2 DEF RoundEnds, RepairEnds, rows, stateVars
    <3> QED
      BY <3>3, <3>4
  <2> QED
    BY <1>1, <1>3, <1>4, <2>1 DEF RunStep, StartTimerFires, StartHeldQueue
<1>5. ASSUME NEW ids \in Requests, RequestRun(ids) PROVE CancelKept(j)
  BY <1>3, <1>5 DEF RequestRun
<1>6. CASE RequestStop
  BY <1>2, <1>6 DEF RequestStop, rows, stateVars
<1>7. ASSUME NEW i \in Jobs, JobRoute(i) PROVE CancelKept(j)
  BY <1>0, <1>7 DEF JobRoute, Enqueue, Retry, Retarget, ForceJob, Delete,
                    Cancel, Editable, OutputGone, MayTranslateFile, OnlyRows,
                    stateVars, rows
<1>8. CASE WorldStep
  <2>1. CASE Boot
    BY <1>0, <2>1 DEF Boot, ResetInterrupted
  <2>2. CASE ~Boot
    BY <1>2, <1>8, <2>2
    DEF WorldStep, Crash, GateChanges, ModeChanges, ReviewChanges,
        OutputDeleted, rows, stateVars
  <2> QED
    BY <2>1, <2>2
<1> QED
  BY <1>4, <1>5, <1>6, <1>7, <1>8, SlotStepKeepsCancel
  DEF Next, UserStep, JobRoute

\* A cancel that the route accepted is kept until the job stops translating,
\* and the job never ends as done (cancelJob, settleJob, releaseJob).
THEOREM CancelsHold ==
  ASSUME NoRerunDuringTitle
  PROVE  Spec => CancelHolds
<1> DEFINE Held ==
      \A j \in cancelled : status[j] = "translating" /\ phase' # "down" =>
        /\ status'[j] # "done"
        /\ j \notin cancelled' => status'[j] # "translating"
<1>1. QueueInv /\ SlotInv /\ [Next]_vars => [Held]_vars
  <2> SUFFICES ASSUME QueueInv, SlotInv, Next PROVE Held
    OBVIOUS
  <2> QED
    BY NextKeepsCancel DEF CancelKept
<1> QED
  BY <1>1, QueueInvariant, SlotInvariant, PTL DEF Spec, CancelHolds
=============================================================================
