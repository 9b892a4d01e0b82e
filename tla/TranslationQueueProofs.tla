----------------------- MODULE TranslationQueueProofs -----------------------
(***************************************************************************)
(* Proofs about TranslationQueue, for any number of jobs, slots and        *)
(* outputs.  QueueInv is inductive; the theorems are its consequences.     *)
(***************************************************************************)
EXTENDS TranslationQueue, TLAPS

\* Claimable jobs are pending jobs in the table.
LEMMA ClaimableJobs ==
  ASSUME NEW st, NEW sc, NEW j \in Claimable(st, sc)
  PROVE  j \in Jobs /\ st[j] = "pending" /\ j \notin restricted
BY DEF Claimable

\* Widening a scope, or no scope yet, by a requested one yields a scope.
LEMMA MergeIsScope ==
  ASSUME NEW a, NEW b, IsScope(a), b \in Scopes
  PROVE  Merge(a, b) \in Scopes
<1>1. CASE a = NoRun
  BY <1>1 DEF Merge
<1>2. CASE a # NoRun /\ AllJobs \in {a, b}
  BY <1>2 DEF Merge, Scopes
<1>3. CASE a # NoRun /\ AllJobs \notin {a, b}
  <2>1. Merge(a, b) = a \cup b
    BY <1>3 DEF Merge
  <2>2. a \in (SUBSET Jobs) \ {{}} /\ b \in (SUBSET Jobs) \ {{}}
    BY <1>3 DEF IsScope, Scopes
  <2> QED
    BY <2>1, <2>2 DEF Scopes
<1> QED
  BY <1>1, <1>2, <1>3

\* What a stop leaves in the marker is a scope: ids in the queue, or nothing.
LEMMA RestoredIsScope ==
  ASSUME NEW before \in SUBSET Jobs, NEW sc, NEW st
  PROVE  IsScope(Restored(before, sc, st))
<1> DEFINE left == {j \in before : ~InScope(j, sc) /\ st[j] = "pending"}
<1>1. left \in SUBSET Jobs
  OBVIOUS
<1>2. Restored(before, sc, st) = IF left = {} THEN NoRun ELSE left
  BY DEF Restored
<1> HIDE DEF left
<1> QED
  BY <1>1, <1>2 DEF IsScope, Scopes

-----------------------------------------------------------------------------
(* Type correctness, one part of TypeOK at a time.                         *)

\* Starting or holding a run keeps the run's variables, the registry and the
\* slots well typed.
LEMMA BeginOrHoldType ==
  ASSUME TypeOK, NEW ids \in Scopes, NEW st, NEW hd, IsScope(hd),
         BeginOrHold(ids, st, hd), UNCHANGED env, startTimer' \in BOOLEAN
  PROVE  RunOK' /\ StateOK' /\ SlotsOK'
<1>1. Merge(hd, ids) \in Scopes /\ Merge(marker, ids) \in Scopes
  BY MergeIsScope DEF TypeOK, RunOK
<1>2. PendingOf(marker, st) \subseteq Jobs
  BY DEF PendingOf
<1>3. (IF heldPrior # NoRun THEN heldPrior ELSE PendingOf(marker, st))
        \subseteq Jobs
  BY <1>2 DEF TypeOK, RunOK
<1>4. RunOK'
  BY <1>1, <1>3 DEF BeginOrHold, TypeOK, RunOK, IsScope, env, stateVars,
                    Marked, TakeHeld
<1>5. StateOK'
  BY DEF BeginOrHold, TypeOK, StateOK, stateVars, Marked, TakeHeld
<1>6. SlotsOK'
  BY DEF BeginOrHold, TypeOK, SlotsOK, Marked, TakeHeld
<1> QED
  BY <1>4, <1>5, <1>6

\* The initial states are well typed.
LEMMA InitType == Init => TypeOK
<1> SUFFICES ASSUME Init PROVE TypeOK
  OBVIOUS
<1> USE DEF Init, Idle
<1>1. RowsOK
  BY QueueAssumption DEF RowsOK, Status
<1>2. RunOK
  BY QueueAssumption DEF RunOK, IsScope
<1>3. StateOK
  BY DEF StateOK
<1>4. SlotsOK
  BY DEF SlotsOK
<1> QED
  BY <1>1, <1>2, <1>3, <1>4 DEF TypeOK

\* What every claim of a slot leaves well typed.
LEMMA TakesType ==
  ASSUME TypeOK, NEW s \in Slots, NEW j \in Jobs, Takes(s, j)
  PROVE  /\ RunOK' /\ force' \in [Jobs -> BOOLEAN] /\ files' \subseteq Outputs
         /\ restricted' \subseteq Jobs /\ claimed' \subseteq Jobs
         /\ cancelled' \subseteq Jobs /\ offline' \subseteq Conns
BY DEF Takes, TypeOK, RowsOK, RunOK, StateOK, IsScope, runVars, holdVars, env

\* resolvedOutputPath yields an output path.
LEMMA ResolvedIsOutput ==
  ASSUME TypeOK, NEW j \in Jobs
  PROVE  Resolved(j) \subseteq Outputs
BY QueueAssumption DEF TypeOK, RowsOK, Resolved, Written, Found

\* A slot that gives its job up, and a job that begins or is released, keep
\* the slots and the registry well typed.
LEMMA LeavesType ==
  ASSUME TypeOK, NEW s \in Slots, NEW to \in {"loop", "exited"}, Leaves(s, to),
         splitRunning' \in BOOLEAN
  PROVE  SlotsOK'
BY DEF Leaves, TypeOK, SlotsOK

LEMMA BeginsType ==
  ASSUME TypeOK, NEW s \in Slots, NEW j \in Jobs, NEW whole \in BOOLEAN,
         Begins(s, j, whole)
  PROVE  /\ pc' \in [Slots -> {"loop", "waiting", "engine", "title", "exited"}]
         /\ owner' \in [Jobs -> Slots \cup {NoSlot}]
         /\ splitRunning' \in BOOLEAN
BY DEF Begins, TypeOK, SlotsOK, StateOK

LEMMA ReleasesType ==
  ASSUME TypeOK, NEW s \in Slots, Releases(s), UNCHANGED claimed
  PROVE  StateOK' /\ SlotsOK'
<1>1. SlotsOK'
  BY LeavesType DEF Releases, DropsOwn
<1>2. StateOK'
  BY DEF Releases, TypeOK, StateOK, DropsOwn
<1> QED
  BY <1>1, <1>2

\* Every step of a slot keeps the types; that an engine writes an output path
\* needs the slot to have a job (WriterHoldsClaim).
LEMMA SlotStepType ==
  ASSUME TypeOK, WriterHoldsClaim, NEW s \in Slots, SlotStep(s)
  PROVE  TypeOK'
<1> USE DEF TypeOK
<1>1. ASSUME NEW j \in Jobs, ClaimConflicts(s, j) PROVE TypeOK'
  BY <1>1, TakesType DEF ClaimConflicts, RowsOK, StateOK, SlotsOK, Status
<1>2. ASSUME NEW j \in Jobs, ClaimSkips(s, j) PROVE TypeOK'
  <2>1. Takes(s, j)
    BY <1>2 DEF ClaimSkips
  <2>2. RowsOK'
    BY <1>2, <2>1, TakesType, ResolvedIsOutput DEF ClaimSkips, RowsOK, Status
  <2>3. StateOK' /\ SlotsOK'
    BY <1>2, <2>1, TakesType DEF ClaimSkips, StateOK, SlotsOK
  <2> QED
    BY <2>1, <2>2, <2>3, TakesType
<1>3. ASSUME NEW j \in Jobs, ClaimStarts(s, j) PROVE TypeOK'
  <2>1. Takes(s, j)
    BY <1>3 DEF ClaimStarts, RegisterActive
  <2>2. RowsOK'
    BY <1>3, <2>1, TakesType, ResolvedIsOutput
    DEF ClaimStarts, RowsOK, Status, RegisterActive
  <2>3. Split \in BOOLEAN
    BY DEF Split, Parallel
  <2>4. StateOK' /\ SlotsOK'
    BY <1>3, <2>1, <2>3, TakesType, BeginsType
    DEF ClaimStarts, StateOK, SlotsOK, RegisterActive
  <2> QED
    BY <2>1, <2>2, <2>4, TakesType
<1>4. CASE LockArrives(s)
  <2>1. RowsOK' /\ RunOK'
    BY <1>4 DEF LockArrives, RowsOK, RunOK, IsScope, rows, runVars, holdVars,
                env, MayBegin
  <2>2. StateOK' /\ SlotsOK'
    BY <1>4 DEF LockArrives, Begins, StateOK, SlotsOK, MayBegin
  <2> QED
    BY <2>1, <2>2
<1>5. CASE PutBack(s)
  <2>1. RowsOK' /\ RunOK'
    BY <1>5 DEF PutBack, RowsOK, RunOK, IsScope, Status, runVars, holdVars,
                env, RowReturns
  <2>2. StateOK' /\ SlotsOK'
    BY <1>5, LeavesType DEF PutBack, StateOK, stateVars, RowReturns
  <2> QED
    BY <2>1, <2>2
<1>6. CASE SlotExits(s)
  <2>1. RowsOK' /\ RunOK'
    BY <1>6 DEF SlotExits, RowsOK, RunOK, IsScope, rows, runVars, holdVars, env
  <2>2. StateOK' /\ SlotsOK'
    BY <1>6, LeavesType DEF SlotExits, StateOK, stateVars
  <2> QED
    BY <2>1, <2>2
<1>7. CASE SlotRejects(s)
  <2>1. RowsOK'
    BY <1>7, ClaimableJobs DEF SlotRejects, RowsOK, Status, env
  <2>2. RunOK'
    BY <1>7 DEF SlotRejects, RunOK, IsScope, holdVars, env
  <2>3. StateOK'
    BY <1>7, ClaimableJobs DEF SlotRejects, StateOK, stateVars
  <2>4. SlotsOK'
    BY <1>7, LeavesType DEF SlotRejects, SlotsOK
  <2> QED
    BY <2>1, <2>2, <2>3, <2>4
<1>8. CASE EngineFails(s)
  <2>1. RowsOK'
    BY <1>8 DEF EngineFails, FailedStatus, RowsOK, Status, env
  <2>2. RunOK'
    BY <1>8 DEF EngineFails, RunOK, IsScope, runVars, holdVars, env
  <2> QED
    BY <1>8, <2>1, <2>2, ReleasesType DEF EngineFails
<1>9. CASE EngineCompletes(s)
  <2>1. RunOK'
    BY <1>9 DEF EngineCompletes, RunOK, IsScope, runVars, holdVars, env,
                CancelSeen
  <2>2. RowsOK'
    <3>1. job[s] \in Jobs
      BY <1>9 DEF EngineCompletes, WriterHoldsClaim, Working, CancelSeen
    <3>2. files' \subseteq Outputs
      BY <1>9, <3>1 DEF EngineCompletes, RowsOK, CancelSeen
    <3> QED
      BY <1>9, <3>2 DEF EngineCompletes, FailedStatus, RowsOK, Status, env,
                        CancelSeen
  <2>3. StateOK' /\ SlotsOK'
    BY <1>9, ReleasesType DEF EngineCompletes, StateOK, SlotsOK, stateVars,
                              CancelSeen
  <2> QED
    BY <2>1, <2>2, <2>3
<1>10. CASE TitleSettles(s)
  <2>1. RowsOK' /\ RunOK'
    BY <1>10 DEF TitleSettles, RowsOK, RunOK, IsScope, rows, runVars, holdVars,
                 env
  <2> QED
    BY <1>10, <2>1, ReleasesType DEF TitleSettles
<1>11. CASE ConnectionLost(s)
  <2>1. RowsOK' /\ RunOK'
    BY <1>11 DEF ConnectionLost, RowsOK, RunOK, IsScope, rows, runVars,
                 holdVars, env
  <2>2. StateOK' /\ SlotsOK'
    BY <1>11 DEF ConnectionLost, StateOK, SlotsOK, slotVars
  <2> QED
    BY <2>1, <2>2
<1> QED
  BY <1>1, <1>2, <1>3, <1>4, <1>5, <1>6, <1>7, <1>8, <1>9, <1>10, <1>11
  DEF SlotStep

\* A request for a run, live or not, keeps the types.
LEMMA ProcessQueueType ==
  ASSUME TypeOK, NEW ids \in Scopes, ProcessQueue(ids), UNCHANGED env,
         startTimer' \in BOOLEAN
  PROVE  RunOK' /\ StateOK' /\ SlotsOK'
<1>1. CASE Running /\ WidenRun(ids)
  <2>1. /\ Merge(marker, ids) \in Scopes
        /\ Merge(scope, ids) \in Scopes
        /\ Merge(requested, ids) \in Scopes
    BY MergeIsScope DEF TypeOK, RunOK
  <2>2. RunOK'
    BY <1>1, <2>1 DEF WidenRun, TypeOK, RunOK, IsScope, env, Marked
  <2>3. StateOK' /\ SlotsOK'
    BY <1>1 DEF WidenRun, TypeOK, StateOK, SlotsOK, stateVars, slotVars, Marked
  <2> QED
    BY <2>2, <2>3
<1>2. CASE phase = "idle" /\ BeginOrHold(ids, status, held)
  BY <1>2, BeginOrHoldType DEF TypeOK, RunOK
<1> QED
  BY <1>1, <1>2 DEF ProcessQueue

\* The end of a run keeps the types.
LEMMA FinishType ==
  ASSUME TypeOK, Finish
  PROVE  TypeOK'
<1>1. RowsOK'
  BY DEF Finish, TypeOK, RowsOK, Status, env, HandedBack
<1>2. RunOK'
  BY RestoredIsScope DEF Finish, TypeOK, RunOK, IsScope, holdVars, env,
                         HandedBack
<1>3. StateOK' /\ SlotsOK'
  BY DEF Finish, TypeOK, StateOK, SlotsOK, HandedBack
<1> QED
  BY <1>1, <1>2, <1>3 DEF TypeOK

\* A route that only edits rows keeps the rest.
LEMMA OnlyRowsType ==
  ASSUME TypeOK, OnlyRows, startTimer' \in BOOLEAN
  PROVE  /\ RunOK' /\ StateOK' /\ SlotsOK'
         /\ files' \subseteq Outputs /\ restricted' \subseteq Jobs
BY DEF OnlyRows, TypeOK, RowsOK, RunOK, StateOK, SlotsOK, IsScope, runVars,
       stateVars, slotVars, env

\* So does every step of the run itself.
LEMMA RunStepType ==
  ASSUME TypeOK, RunStep
  PROVE  TypeOK'
<1> USE DEF TypeOK
<1>1. CASE RoundEnds
  <2>1. CASE stop /\ Finish
    BY <2>1, FinishType
  <2>2. CASE ~stop /\ phase' = "repair"
    BY <1>1, <2>2 DEF RoundEnds, RowsOK, RunOK, StateOK, SlotsOK, IsScope,
                      Finish, rows, holdVars, stateVars, slotVars, env,
                      HandedBack
  <2> QED
    BY <1>1, <2>1, <2>2 DEF RoundEnds
<1>2. CASE RepairEnds
  <2>1. CASE Finish
    BY <2>1, FinishType
  <2>2. CASE ~Finish
    <3>1. RowsOK' /\ RunOK'
      BY <1>2, <2>2 DEF RepairEnds, RowsOK, RunOK, IsScope, rows, holdVars,
                        env, TakesUp, AnotherRound
    <3>2. StateOK' /\ SlotsOK'
      BY <1>2, <2>2 DEF RepairEnds, StateOK, SlotsOK, stateVars, TakesUp,
                        AnotherRound
    <3> QED
      BY <3>1, <3>2
  <2> QED
    BY <2>1, <2>2
<1>3. CASE StartTimerFires
  <2>1. RunOK' /\ StateOK' /\ SlotsOK'
    BY <1>3, ProcessQueueType DEF StartTimerFires, Scopes
  <2>2. RowsOK'
    BY <1>3 DEF StartTimerFires, RowsOK, rows, env
  <2> QED
    BY <2>1, <2>2
<1>4. CASE StartHeldQueue
  <2>1. held \in Scopes /\ IsScope(NoRun)
    BY <1>4 DEF StartHeldQueue, RunOK, IsScope
  <2>2. RunOK' /\ StateOK' /\ SlotsOK'
    BY <1>4, <2>1, BeginOrHoldType DEF StartHeldQueue, RunOK
  <2>3. RowsOK'
    BY <1>4 DEF StartHeldQueue, RowsOK, rows, env
  <2> QED
    BY <2>2, <2>3
<1> QED
  BY <1>1, <1>2, <1>3, <1>4 DEF RunStep

\* And every request of a user, another component or the environment.
LEMMA UserStepType ==
  ASSUME TypeOK, UserStep
  PROVE  TypeOK'
<1> USE DEF TypeOK
<1>1. ASSUME NEW ids \in Requests, RequestRun(ids) PROVE TypeOK'
  <2>1. RunOK' /\ StateOK' /\ SlotsOK'
    BY <1>1, ProcessQueueType, QueueAssumption DEF RequestRun, RunOK
  <2>2. RowsOK'
    BY <1>1 DEF RequestRun, RowsOK, rows, env
  <2> QED
    BY <2>1, <2>2
<1>2. CASE RequestStop
  <2>1. RowsOK' /\ StateOK' /\ SlotsOK'
    BY <1>2 DEF RequestStop, RowsOK, StateOK, SlotsOK, rows, stateVars,
                slotVars, env
  <2> DEFINE before == IF heldPrior = NoRun THEN {} ELSE heldPrior
  <2>2. IsScope(Restored(before, held, status))
    BY RestoredIsScope DEF RunOK
  <2>3. RunOK'
    BY <1>2, <2>2 DEF RequestStop, RunOK, IsScope, env
  <2> QED
    BY <2>1, <2>3
<1>3. ASSUME NEW j \in Jobs, Enqueue(j) PROVE TypeOK'
  BY <1>3, OnlyRowsType DEF Enqueue, RowsOK, RunOK, Status
<1>4. ASSUME NEW j \in Jobs, Retry(j) PROVE TypeOK'
  BY <1>4, OnlyRowsType
  DEF Retry, RowsOK, RunOK, Status, Editable
<1>5. ASSUME NEW j \in Jobs, Retarget(j) PROVE TypeOK'
  BY <1>5, OnlyRowsType, QueueAssumption
  DEF Retarget, RowsOK, RunOK, Status
<1>6. ASSUME NEW j \in Jobs, ForceJob(j) PROVE TypeOK'
  BY <1>6, OnlyRowsType
  DEF ForceJob, RowsOK, RunOK, Status, Editable
<1>7. ASSUME NEW j \in Jobs, Delete(j) PROVE TypeOK'
  BY <1>7, OnlyRowsType
  DEF Delete, RowsOK, RunOK, Status, Editable
<1>8. ASSUME NEW j \in Jobs, Cancel(j) PROVE TypeOK'
  BY <1>8 DEF Cancel, RowsOK, RunOK, StateOK, SlotsOK, IsScope, rows, runVars,
              holdVars, slotVars, env
<1> QED
  BY <1>1, <1>2, <1>3, <1>4, <1>5, <1>6, <1>7, <1>8 DEF UserStep

LEMMA WorldStepType ==
  ASSUME TypeOK, WorldStep
  PROVE  TypeOK'
<1> USE DEF TypeOK
<1>1. CASE Crash
  <2>1. RowsOK' /\ RunOK'
    BY <1>1 DEF Crash, RowsOK, RunOK, IsScope, rows, env
  <2>2. StateOK' /\ SlotsOK'
    BY <1>1 DEF Crash, StateOK, SlotsOK
  <2> QED
    BY <2>1, <2>2
<1>2. CASE Boot
  <2> DEFINE st == [j \in Jobs |-> IF status[j] = "translating" THEN "pending"
                                   ELSE status[j]]
  <2>1. RowsOK'
    BY <1>2 DEF Boot, RowsOK, Status, env, ResetInterrupted
  <2>2. PICK auto \in AutoTranslate :
          LET ids == IF auto THEN AllJobs ELSE marker
          IN  \/ Claimable(st, ids) # {} /\ BeginOrHold(ids, st, NoRun)
              \/ /\ marker' = NoRun /\ phase' = "idle"
                 /\ UNCHANGED <<stop, failed, filter, scope, requested, prior,
                                held, heldPrior, stateVars, slotVars>>
    BY <1>2 DEF Boot, ResetInterrupted
  <2> DEFINE ids == IF auto THEN AllJobs ELSE marker
  <2>3. UNCHANGED env /\ startTimer' \in BOOLEAN
    BY <1>2 DEF Boot, RunOK, ResetInterrupted
  <2>4. CASE Claimable(st, ids) # {} /\ BeginOrHold(ids, st, NoRun)
    <3>1. ids # NoRun
      BY <2>4, QueueAssumption DEF Claimable, InScope
    <3>2. ids \in Scopes /\ IsScope(NoRun)
      BY <3>1 DEF RunOK, IsScope, Scopes
    <3> HIDE DEF st, ids
    <3>3. RunOK' /\ StateOK' /\ SlotsOK'
      BY <2>3, <2>4, <3>2, BeginOrHoldType
    <3> QED
      BY <2>1, <3>3
  <2>5. CASE /\ marker' = NoRun /\ phase' = "idle"
             /\ UNCHANGED <<stop, failed, filter, scope, requested, prior,
                            held, heldPrior, stateVars, slotVars>>
    BY <2>1, <2>3, <2>5 DEF RunOK, StateOK, SlotsOK, IsScope, stateVars,
                            slotVars, env
  <2> QED
    BY <2>2, <2>4, <2>5
<1>3. CASE GateChanges
  BY <1>3 DEF GateChanges, RowsOK, RunOK, StateOK, SlotsOK, IsScope, rows,
              runVars, holdVars, stateVars, slotVars
<1>4. CASE ModeChanges
  BY <1>4, QueueAssumption
  DEF ModeChanges, RowsOK, RunOK, StateOK, SlotsOK, IsScope, rows, runVars,
      holdVars, stateVars, slotVars
<1>5. ASSUME NEW j \in Jobs, ReviewChanges(j) PROVE TypeOK'
  BY <1>5 DEF ReviewChanges, RowsOK, RunOK, StateOK, SlotsOK, IsScope, rows,
              runVars, holdVars, stateVars, slotVars
<1>6. ASSUME NEW o \in Outputs, OutputDeleted(o) PROVE TypeOK'
  BY <1>6 DEF OutputDeleted, RowsOK, RunOK, StateOK, SlotsOK, IsScope, runVars,
              holdVars, stateVars, slotVars, env
<1> QED
  BY <1>1, <1>2, <1>3, <1>4, <1>5, <1>6 DEF WorldStep

-----------------------------------------------------------------------------
(* The other conjuncts of QueueInv.                                        *)

Safe == /\ WriterHoldsClaim /\ NoStrandedJob /\ SlotsBelongToRun
        /\ OneWorkerPerJob /\ ClaimsAreUnique

LEMMA InitSafe == Init => Safe
<1> SUFFICES ASSUME Init PROVE Safe
  OBVIOUS
<1> USE DEF Init, Idle
<1>1. \A s \in Slots : pc[s] = "exited"
  OBVIOUS
<1>2. \A j \in Jobs : status[j] # "translating"
  OBVIOUS
<1> QED
  BY <1>1, <1>2 DEF Safe, WriterHoldsClaim, NoStrandedJob, SlotsBelongToRun,
                    OneWorkerPerJob, ClaimsAreUnique, Working

\* A claim takes a job nobody works on.
LEMMA TakenIsFree ==
  ASSUME QueueInv, NEW s \in Slots, NEW j \in Jobs, Takes(s, j)
  PROVE  /\ status[j] = "pending" /\ pc[s] = "loop" /\ phase = "pump" /\ ~stop
         /\ claimed' = claimed \cup {j} /\ phase' = phase /\ stop' = stop
         /\ \A t \in Slots : Working(t) => job[t] # j
<1>1. status[j] = "pending" /\ pc[s] = "loop" /\ ~stop
  BY ClaimableJobs DEF Takes
<1> QED
  BY <1>1 DEF Takes, QueueInv, SlotsBelongToRun, WriterHoldsClaim, runVars

\* A slot that gives its job up no longer works; the others go on.
LEMMA LeavesWork ==
  ASSUME TypeOK, NEW s \in Slots, NEW to \in {"loop", "exited"}, Leaves(s, to)
  PROVE  /\ \A t \in Slots : Working(t)' <=> (Working(t) /\ t # s)
         /\ \A t \in Slots \ {s} : pc'[t] = pc[t] /\ job'[t] = job[t]
         /\ pc'[s] = to
BY DEF Leaves, TypeOK, SlotsOK, Working

\* A working slot leaves while its job settles as r: the others keep theirs.
LEMMA SettlesSafe ==
  ASSUME QueueInv, NEW s \in Slots, Working(s), Leaves(s, "loop"),
         NEW r \in Status \ {"translating"},
         status' = [status EXCEPT ![job[s]] = r],
         UNCHANGED <<out, claim, phase, stop>>,
         claimed' = claimed \/ claimed' = claimed \ {job[s]}
  PROVE  Safe'
<1> USE DEF QueueInv, TypeOK
<1>1. job[s] \in Jobs /\ phase = "pump"
  BY DEF WriterHoldsClaim, SlotsBelongToRun, Working
<1>2. WriterHoldsClaim' /\ OneWorkerPerJob'
  BY <1>1, LeavesWork DEF WriterHoldsClaim, OneWorkerPerJob, RowsOK
<1>3. NoStrandedJob'
  <2> SUFFICES ASSUME NEW j \in Jobs, status'[j] = "translating"
               PROVE  \/ \E t \in Slots : Working(t)' /\ job'[t] = j
                      \/ stop' /\ Running' /\ j \in claimed'
    BY DEF NoStrandedJob
  <2>1. j # job[s] /\ status[j] = "translating"
    BY <1>1 DEF RowsOK
  <2>2. CASE \E t \in Slots : Working(t) /\ job[t] = j
    BY <2>1, <2>2, LeavesWork
  <2>3. CASE stop /\ Running /\ j \in claimed
    BY <2>1, <2>3 DEF Running
  <2> QED
    BY <1>1, <2>1, <2>2, <2>3 DEF NoStrandedJob
<1>4. SlotsBelongToRun'
  BY <1>1, LeavesWork DEF SlotsBelongToRun, OneWorkerPerJob
<1>5. ClaimsAreUnique'
  BY DEF ClaimsAreUnique
<1> QED
  BY <1>2, <1>3, <1>4, <1>5 DEF Safe

\* Every step of a slot preserves the invariant.
LEMMA SlotStepSafe ==
  ASSUME QueueInv, NEW s \in Slots, SlotStep(s)
  PROVE  Safe'
<1> USE DEF QueueInv, TypeOK
<1>1. ASSUME NEW j \in Jobs, ClaimConflicts(s, j) PROVE Safe'
  <2>1. Takes(s, j)
    BY <1>1 DEF ClaimConflicts
  <2>2. /\ UNCHANGED <<out, claim, pc, job>>
        /\ status' = [status EXCEPT ![j] = "error"]
    BY <1>1 DEF ClaimConflicts
  <2> QED
    BY <2>1, <2>2, TakenIsFree
    DEF Safe, WriterHoldsClaim, NoStrandedJob, SlotsBelongToRun,
        OneWorkerPerJob, ClaimsAreUnique, Working, RowsOK, Running
<1>2. ASSUME NEW j \in Jobs, ClaimSkips(s, j) PROVE Safe'
  <2>1. Takes(s, j)
    BY <1>2 DEF ClaimSkips
  <2>2. /\ UNCHANGED <<pc, job>>
        /\ status' = [status EXCEPT ![j] = "skipped"]
    BY <1>2 DEF ClaimSkips
  <2>3. PICK o \in Outputs :
          /\ OwnerOf(o) \subseteq {j}
          /\ out' = [out EXCEPT ![j] = o]
          /\ claim' = claim \/ claim' = [claim EXCEPT ![j] = o]
    BY <1>2, ResolvedIsOutput DEF ClaimSkips
  <2>4. WriterHoldsClaim' /\ OneWorkerPerJob'
    BY <2>1, <2>2, <2>3, TakenIsFree
    DEF WriterHoldsClaim, OneWorkerPerJob, Working, RowsOK
  <2>5. NoStrandedJob' /\ SlotsBelongToRun'
    BY <2>1, <2>2, TakenIsFree
    DEF NoStrandedJob, SlotsBelongToRun, Working, RowsOK, Running
  <2>6. ClaimsAreUnique'
    BY <2>3 DEF ClaimsAreUnique, OwnerOf, RowsOK
  <2> QED
    BY <2>4, <2>5, <2>6 DEF Safe
<1>3. ASSUME NEW j \in Jobs, ClaimStarts(s, j) PROVE Safe'
  <2>1. Takes(s, j)
    BY <1>3 DEF ClaimStarts, RegisterActive
  <2>2. /\ status' = [status EXCEPT ![j] = "translating"]
        /\ job' = [job EXCEPT ![s] = j]
        /\ \/ pc' = [pc EXCEPT ![s] = "engine"]
           \/ pc' = [pc EXCEPT ![s] = "waiting"]
    BY <1>3 DEF ClaimStarts, Begins, RegisterActive
  <2>3. PICK o \in Outputs :
          /\ OwnerOf(o) \subseteq {j}
          /\ out' = [out EXCEPT ![j] = o] /\ claim' = [claim EXCEPT ![j] = o]
    BY <1>3, ResolvedIsOutput DEF ClaimStarts, RegisterActive
  <2>4. WriterHoldsClaim' /\ OneWorkerPerJob'
    BY <2>1, <2>2, <2>3, TakenIsFree
    DEF WriterHoldsClaim, OneWorkerPerJob, Working, RowsOK, SlotsOK
  <2>5. NoStrandedJob'
    BY <2>1, <2>2, TakenIsFree
    DEF NoStrandedJob, Working, RowsOK, SlotsOK, Running
  <2>6. SlotsBelongToRun'
    BY <2>1, <2>2, TakenIsFree DEF SlotsBelongToRun, Working, SlotsOK
  <2>7. ClaimsAreUnique'
    BY <2>3 DEF ClaimsAreUnique, OwnerOf, RowsOK
  <2> QED
    BY <2>4, <2>5, <2>6, <2>7 DEF Safe
<1>4. CASE LockArrives(s)
  <2>1. /\ UNCHANGED <<rows, job, claimed, phase, stop>>
        /\ pc[s] = "waiting" /\ pc' = [pc EXCEPT ![s] = "engine"]
    BY <1>4 DEF LockArrives, Begins, runVars, MayBegin
  <2>2. \A t \in Slots : /\ Working(t)' <=> Working(t)
                         /\ pc'[t] = "title" => pc[t] = "title"
                         /\ pc[t] = "exited" => pc'[t] = "exited"
    BY <2>1 DEF Working, SlotsOK
  <2> QED
    BY <2>1, <2>2 DEF Safe, WriterHoldsClaim, NoStrandedJob, SlotsBelongToRun,
                      OneWorkerPerJob, ClaimsAreUnique, Running, rows
<1>5. CASE PutBack(s)
  BY <1>5, SettlesSafe DEF PutBack, Working, Status, runVars, RowReturns
<1>6. CASE SlotExits(s)
  <2>1. /\ Leaves(s, "exited") /\ UNCHANGED <<rows, claimed, phase, stop>>
        /\ pc[s] \in {"loop", "waiting"} /\ (Working(s) => stop)
    BY <1>6 DEF SlotExits, runVars, Working
  <2>2. phase = "pump"
    BY <2>1 DEF SlotsBelongToRun
  <2>3. NoStrandedJob'
    BY <2>1, <2>2, LeavesWork
    DEF NoStrandedJob, SlotsBelongToRun, Running, rows
  <2> QED
    BY <2>1, <2>2, <2>3, LeavesWork
    DEF Safe, WriterHoldsClaim, SlotsBelongToRun, OneWorkerPerJob,
        ClaimsAreUnique, rows
<1>7. CASE SlotRejects(s)
  <2>1. /\ Leaves(s, "exited") /\ UNCHANGED <<out, claim, phase>>
        /\ pc[s] \in {"loop", "waiting"} /\ stop'
    BY <1>7 DEF SlotRejects
  <2>2. phase = "pump"
    BY <2>1 DEF SlotsBelongToRun
  <2>3. CASE UNCHANGED <<status, claimed>>
    <3>1. NoStrandedJob'
      BY <2>1, <2>2, <2>3, LeavesWork
      DEF NoStrandedJob, SlotsBelongToRun, Running
    <3> QED
      BY <2>1, <2>2, <2>3, <3>1, LeavesWork
      DEF Safe, WriterHoldsClaim, SlotsBelongToRun, OneWorkerPerJob,
          ClaimsAreUnique
  <2>4. CASE ~UNCHANGED <<status, claimed>>
    <3>1. PICK j \in Jobs : /\ status[j] = "pending"
                           /\ status' = [status EXCEPT ![j] = "translating"]
                           /\ claimed' = claimed \cup {j}
      BY <1>7, <2>4, ClaimableJobs DEF SlotRejects
    <3>2. \A t \in Slots : Working(t) => job[t] # j
      BY <3>1 DEF WriterHoldsClaim
    <3>3. NoStrandedJob'
      BY <2>1, <2>2, <3>1, LeavesWork
      DEF NoStrandedJob, SlotsBelongToRun, Running, RowsOK
    <3> QED
      BY <2>1, <2>2, <3>1, <3>2, <3>3, LeavesWork
      DEF Safe, WriterHoldsClaim, SlotsBelongToRun, OneWorkerPerJob,
          ClaimsAreUnique, RowsOK
  <2> QED
    BY <2>3, <2>4
<1>8. CASE EngineFails(s)
  <2>1. FailedStatus \in Status \ {"translating"}
    BY DEF FailedStatus, Status
  <2>2. /\ Working(s) /\ Leaves(s, "loop")
        /\ status' = [status EXCEPT ![job[s]] = FailedStatus]
        /\ UNCHANGED <<out, claim, claimed, phase, stop>>
    BY <1>8 DEF EngineFails, Releases, Working, runVars, DropsOwn
  <2> QED
    BY <2>1, <2>2, SettlesSafe
<1>9. CASE EngineCompletes(s)
  <2>1. /\ Working(s) /\ UNCHANGED <<out, claim, claimed, phase, stop>>
        /\ \E r \in Status \ {"translating"} :
             status' = [status EXCEPT ![job[s]] = r]
        /\ Leaves(s, "loop") \/ (pc' = [pc EXCEPT ![s] = "title"]
                                   /\ UNCHANGED job)
    BY <1>9 DEF EngineCompletes, Releases, FailedStatus, Working, Status,
                runVars, CancelSeen, DropsOwn
  <2>2. CASE Leaves(s, "loop")
    BY <2>1, <2>2, SettlesSafe
  <2>3. CASE pc' = [pc EXCEPT ![s] = "title"] /\ UNCHANGED job
    <3>1. job[s] \in Jobs /\ phase = "pump"
      BY <2>1 DEF WriterHoldsClaim, SlotsBelongToRun, Working
    <3>2. \A t \in Slots : Working(t)' <=> (Working(t) /\ t # s)
      BY <2>3 DEF Working, SlotsOK
    <3>3. WriterHoldsClaim' /\ OneWorkerPerJob' /\ ClaimsAreUnique'
      BY <2>1, <2>3, <3>1, <3>2
      DEF WriterHoldsClaim, OneWorkerPerJob, ClaimsAreUnique, RowsOK
    <3>4. NoStrandedJob'
      BY <2>1, <2>3, <3>1, <3>2 DEF NoStrandedJob, Running, RowsOK
    <3>5. SlotsBelongToRun'
      BY <2>1, <2>3, <3>1, <3>2 DEF SlotsBelongToRun, SlotsOK
    <3> QED
      BY <3>3, <3>4, <3>5 DEF Safe
  <2> QED
    BY <2>1, <2>2, <2>3
<1>10. CASE TitleSettles(s)
  <2>1. /\ Leaves(s, "loop") /\ ~Working(s) /\ pc[s] = "title"
        /\ UNCHANGED <<rows, claimed, phase, stop>>
    BY <1>10 DEF TitleSettles, Releases, Working, runVars, DropsOwn
  <2>2. phase = "pump"
    BY <2>1 DEF SlotsBelongToRun
  <2>3. NoStrandedJob'
    BY <2>1, LeavesWork DEF NoStrandedJob, Running, rows
  <2> QED
    BY <2>1, <2>2, <2>3, LeavesWork
    DEF Safe, WriterHoldsClaim, SlotsBelongToRun, OneWorkerPerJob,
        ClaimsAreUnique, rows
<1>11. CASE ConnectionLost(s)
  BY <1>11
  DEF ConnectionLost, Safe, WriterHoldsClaim, NoStrandedJob, SlotsBelongToRun,
      OneWorkerPerJob, ClaimsAreUnique, Working, Running, rows, runVars,
      slotVars
<1> QED
  BY <1>1, <1>2, <1>3, <1>4, <1>5, <1>6, <1>7, <1>8, <1>9, <1>10, <1>11
  DEF SlotStep

\* While no run is live no slot is in its loop, and so no job is translating
\* (unless the process is down).
LEMMA QuietOutsidePump ==
  ASSUME QueueInv, phase # "pump"
  PROVE  /\ \A s \in Slots : ~Working(s) /\ pc[s] = "exited"
         /\ phase = "idle" => \A j \in Jobs : status[j] # "translating"
<1>1. \A s \in Slots : ~Working(s) /\ pc[s] = "exited"
  BY DEF QueueInv, SlotsBelongToRun, Working
<1> QED
  BY <1>1 DEF QueueInv, NoStrandedJob, Running

\* With every slot out of its loop, and at most the jobs a stopped or booting
\* run must hand back translating, the invariant asks only for unique claims.
LEMMA QuietSafe ==
  ASSUME \A s \in Slots : pc'[s] \in {"loop", "exited"},
         phase' # "pump" => \A s \in Slots : pc'[s] = "exited",
         phase' # "down" => \A j \in Jobs : status'[j] # "translating",
         ClaimsAreUnique, UNCHANGED claim
  PROVE  Safe'
BY DEF Safe, WriterHoldsClaim, NoStrandedJob, SlotsBelongToRun,
       OneWorkerPerJob, ClaimsAreUnique, Working

\* A step that leaves slots and claims alone and touches only rows no slot
\* works on preserves the invariant.
LEMMA RowsSafe ==
  ASSUME QueueInv, UNCHANGED <<pc, job, phase, claimed>>, stop => stop',
         \A j \in Jobs : \/ /\ status'[j] = status[j] /\ out'[j] = out[j]
                           /\ claim'[j] = claim[j]
                        \/ /\ status[j] # "translating"
                           /\ status'[j] # "translating",
         ClaimsAreUnique'
  PROVE  Safe'
<1> USE DEF QueueInv
<1>1. \A s \in Slots : Working(s) => job[s] \in Jobs
  BY DEF WriterHoldsClaim
<1>2. WriterHoldsClaim'
  BY <1>1 DEF WriterHoldsClaim, Working
<1>3. NoStrandedJob'
  BY DEF NoStrandedJob, Working, Running
<1>4. SlotsBelongToRun' /\ OneWorkerPerJob'
  BY DEF SlotsBelongToRun, OneWorkerPerJob, Working
<1> QED
  BY <1>2, <1>3, <1>4 DEF Safe

\* A run begins, or its start is held, with no job translating.
LEMMA BeginOrHoldSafe ==
  ASSUME QueueInv, NEW ids, NEW st, NEW hd, BeginOrHold(ids, st, hd),
         phase # "pump", \A j \in Jobs : status'[j] # "translating",
         UNCHANGED claim
  PROVE  Safe'
<1>1. \A s \in Slots : pc[s] = "exited"
  BY QuietOutsidePump
<1>2. /\ \A s \in Slots : pc'[s] \in {"loop", "exited"}
      /\ phase' # "pump" => \A s \in Slots : pc'[s] = "exited"
  BY <1>1 DEF BeginOrHold, Marked, TakeHeld
<1> QED
  BY <1>2, QuietSafe DEF QueueInv

LEMMA ProcessQueueSafe ==
  ASSUME QueueInv, NEW ids, ProcessQueue(ids), UNCHANGED rows
  PROVE  Safe'
<1>1. CASE Running /\ WidenRun(ids)
  <2>1. UNCHANGED <<pc, job, phase, claimed, stop>>
    BY <1>1 DEF WidenRun, slotVars, Marked
  <2> QED
    BY <2>1, RowsSafe DEF rows, QueueInv, ClaimsAreUnique
<1>2. CASE phase = "idle" /\ BeginOrHold(ids, status, held)
  BY <1>2, BeginOrHoldSafe, QuietOutsidePump DEF rows
<1> QED
  BY <1>1, <1>2 DEF ProcessQueue

\* Once every slot has left, the jobs still translating are the claimed ones of
\* a stopped run, and the run hands them back.
LEMMA FinishSafe ==
  ASSUME QueueInv, AllExited, Running, Finish
  PROVE  Safe'
<1>1. \A j \in Jobs : status[j] = "translating" => j \in claimed
  BY DEF QueueInv, NoStrandedJob, AllExited, Working, Running
<1>2. \A j \in Jobs : status'[j] # "translating"
  BY <1>1 DEF Finish, QueueInv, TypeOK, RowsOK, HandedBack
<1> QED
  BY <1>2, QuietSafe DEF Finish, AllExited, QueueInv, HandedBack

LEMMA RunStepSafe ==
  ASSUME QueueInv, RunStep
  PROVE  Safe'
<1>1. CASE RoundEnds
  <2>1. CASE stop /\ Finish
    BY <1>1, <2>1, FinishSafe DEF RoundEnds, Running
  <2>2. CASE ~stop /\ phase' = "repair"
    <3>1. /\ \A j \in Jobs : status[j] # "translating"
          /\ UNCHANGED <<rows, slotVars>>
      BY <1>1, <2>2
      DEF RoundEnds, Finish, AllExited, QueueInv, NoStrandedJob, Working,
          HandedBack
    <3> QED
      BY <1>1, <2>2, <3>1, QuietSafe
      DEF RoundEnds, AllExited, rows, slotVars, QueueInv
  <2> QED
    BY <1>1, <2>1, <2>2 DEF RoundEnds
<1>2. CASE RepairEnds
  <2>1. AllExited /\ Running /\ phase # "pump"
    BY <1>2, QuietOutsidePump DEF RepairEnds, AllExited, Running, TakesUp,
                                  AnotherRound
  <2>2. CASE Finish
    BY <2>1, <2>2, FinishSafe
  <2>3. CASE ~Finish
    <3>1. /\ ~stop /\ phase' = "pump" /\ pc' = [s \in Slots |-> "loop"]
          /\ UNCHANGED rows
      BY <1>2, <2>3 DEF RepairEnds, TakesUp, AnotherRound
    <3>2. \A j \in Jobs : status[j] # "translating"
      BY <1>2, <2>1, <3>1
      DEF RepairEnds, AllExited, QueueInv, NoStrandedJob, Working, TakesUp,
          AnotherRound
    <3> QED
      BY <3>1, <3>2, QuietSafe DEF rows, QueueInv
  <2> QED
    BY <2>2, <2>3
<1>3. CASE StartTimerFires
  BY <1>3, ProcessQueueSafe DEF StartTimerFires
<1>4. CASE StartHeldQueue
  BY <1>4, BeginOrHoldSafe, QuietOutsidePump DEF StartHeldQueue, rows
<1> QED
  BY <1>1, <1>2, <1>3, <1>4 DEF RunStep

LEMMA UserStepSafe ==
  ASSUME QueueInv, UserStep
  PROVE  Safe'
<1> USE DEF QueueInv, TypeOK
<1>1. ASSUME NEW ids \in Requests, RequestRun(ids) PROVE Safe'
  BY <1>1, ProcessQueueSafe DEF RequestRun
<1>2. CASE RequestStop
  BY <1>2, RowsSafe DEF RequestStop, rows, slotVars, ClaimsAreUnique
<1>3. ASSUME NEW j \in Jobs, Enqueue(j) PROVE Safe'
  BY <1>3, RowsSafe DEF Enqueue, OnlyRows, RowsOK, runVars, slotVars,
                        ClaimsAreUnique
<1>4. ASSUME NEW j \in Jobs, Retry(j) PROVE Safe'
  BY <1>4, RowsSafe DEF Retry, OnlyRows, RowsOK, runVars, slotVars,
                        ClaimsAreUnique, Editable
<1>5. ASSUME NEW j \in Jobs, Retarget(j) PROVE Safe'
  <2>1. ClaimsAreUnique'
    BY <1>5 DEF Retarget, RowsOK, ClaimsAreUnique
  <2> QED
    BY <1>5, <2>1, RowsSafe
    DEF Retarget, OutputGone, MayTranslateFile, OnlyRows, RowsOK, runVars,
        slotVars
<1>6. ASSUME NEW j \in Jobs, ForceJob(j) PROVE Safe'
  BY <1>6, RowsSafe DEF ForceJob, OnlyRows, RowsOK, runVars, slotVars,
                        ClaimsAreUnique, Editable
<1>7. ASSUME NEW j \in Jobs, Delete(j) PROVE Safe'
  <2>1. ClaimsAreUnique'
    BY <1>7 DEF Delete, RowsOK, ClaimsAreUnique, Editable
  <2> QED
    BY <1>7, <2>1, RowsSafe DEF Delete, OnlyRows, RowsOK, runVars, slotVars,
                                Editable
<1>8. ASSUME NEW j \in Jobs, Cancel(j) PROVE Safe'
  BY <1>8, RowsSafe DEF Cancel, rows, runVars, slotVars, ClaimsAreUnique
<1> QED
  BY <1>1, <1>2, <1>3, <1>4, <1>5, <1>6, <1>7, <1>8 DEF UserStep

LEMMA WorldStepSafe ==
  ASSUME QueueInv, WorldStep
  PROVE  Safe'
<1> USE DEF QueueInv, TypeOK
<1>1. CASE Crash
  BY <1>1, QuietSafe DEF Crash, rows
<1>2. CASE Boot
  <2>1. /\ phase = "down" /\ UNCHANGED claim
        /\ \A j \in Jobs : status'[j] # "translating"
        /\ \/ \E ids, st : BeginOrHold(ids, st, NoRun)
           \/ phase' = "idle" /\ UNCHANGED slotVars
    BY <1>2 DEF Boot, ResetInterrupted
  <2>2. CASE \E ids, st : BeginOrHold(ids, st, NoRun)
    BY <2>1, <2>2, BeginOrHoldSafe
  <2>3. CASE phase' = "idle" /\ UNCHANGED slotVars
    BY <2>1, <2>3, QuietSafe, QuietOutsidePump DEF slotVars
  <2> QED
    BY <2>1, <2>2, <2>3
<1>3. CASE GateChanges
  BY <1>3, RowsSafe DEF GateChanges, rows, runVars, slotVars, ClaimsAreUnique
<1>4. CASE ModeChanges
  BY <1>4, RowsSafe DEF ModeChanges, rows, runVars, slotVars, ClaimsAreUnique
<1>5. ASSUME NEW j \in Jobs, ReviewChanges(j) PROVE Safe'
  BY <1>5, RowsSafe DEF ReviewChanges, rows, runVars, slotVars, ClaimsAreUnique
<1>6. ASSUME NEW o \in Outputs, OutputDeleted(o) PROVE Safe'
  BY <1>6, RowsSafe DEF OutputDeleted, runVars, slotVars, ClaimsAreUnique
<1> QED
  BY <1>1, <1>2, <1>3, <1>4, <1>5, <1>6 DEF WorldStep

\* A row's claim moves with its path: only the claims of a slot, a new target
\* and a deletion touch either.
LEMMA ClaimFollowsPath ==
  ASSUME QueueInv, Next
  PROVE  ClaimMatchesPath'
<1> USE DEF QueueInv, ClaimMatchesPath, TypeOK, RowsOK
<1>1. ASSUME NEW s \in Slots, NEW j \in Jobs, ClaimSkips(s, j)
      PROVE  ClaimMatchesPath'
  <2>1. PICK o \in Outputs :
          /\ Exists(j, o)
          /\ out' = [out EXCEPT ![j] = o]
          /\ claim' = IF NeedsClaim(j, o) THEN [claim EXCEPT ![j] = o]
                                          ELSE claim
    BY <1>1, ResolvedIsOutput DEF ClaimSkips
  <2> QED
    BY <2>1 DEF NeedsClaim
<1>2. ASSUME NEW s \in Slots, NEW j \in Jobs, ClaimStarts(s, j)
      PROVE  ClaimMatchesPath'
  <2>1. PICK o \in Outputs : /\ out' = [out EXCEPT ![j] = o]
                             /\ claim' = [claim EXCEPT ![j] = o]
    BY <1>2, ResolvedIsOutput DEF ClaimStarts
  <2> QED
    BY <2>1
<1>3. ASSUME NEW j \in Jobs, Retarget(j) PROVE ClaimMatchesPath'
  BY <1>3, QueueAssumption DEF Retarget
<1>4. ASSUME NEW j \in Jobs, Delete(j) PROVE ClaimMatchesPath'
  BY <1>4 DEF Delete
<1>5. CASE UNCHANGED <<out, claim>>
  BY <1>5
<1>6. ASSUME NEW s \in Slots, SlotStep(s)
      PROVE  \/ \E j \in Jobs : ClaimSkips(s, j) \/ ClaimStarts(s, j)
             \/ UNCHANGED <<out, claim>>
  BY <1>6 DEF SlotStep, ClaimConflicts, LockArrives, PutBack, SlotExits,
              SlotRejects, EngineFails, EngineCompletes, TitleSettles,
              ConnectionLost, rows
<1>7. CASE RunStep
  BY <1>5, <1>7 DEF RunStep, RoundEnds, RepairEnds, Finish, StartTimerFires,
                    StartHeldQueue, rows
<1>8. CASE UserStep
  <2>1. \/ \E j \in Jobs : Retarget(j) \/ Delete(j)
        \/ UNCHANGED <<out, claim>>
    BY <1>8 DEF UserStep, RequestRun, RequestStop, Enqueue, Retry, ForceJob,
                Cancel, rows
  <2> QED
    BY <1>3, <1>4, <1>5, <2>1
<1>9. CASE WorldStep
  <2>1. UNCHANGED <<out, claim>>
    BY <1>9 DEF WorldStep, Crash, Boot, GateChanges, ModeChanges,
                ReviewChanges, OutputDeleted, rows
  <2> QED
    BY <1>5, <2>1
<1> QED
  BY <1>1, <1>2, <1>5, <1>6, <1>7, <1>8, <1>9 DEF Next

\* Two working slots have different jobs, whose claims are their outputs, and
\* claims are unique: so they write different outputs.
LEMMA OneWriterFromClaims == QueueInv => OneWriterPerOutput
<1> SUFFICES ASSUME QueueInv, NEW s \in Slots, NEW t \in Slots,
                    Working(s), Working(t), s # t
             PROVE  out[job[s]] # out[job[t]]
  BY DEF OneWriterPerOutput
<1>1. /\ job[s] \in Jobs /\ claim[job[s]] = out[job[s]]
      /\ job[t] \in Jobs /\ claim[job[t]] = out[job[t]]
      /\ job[s] # job[t]
  BY DEF QueueInv, WriterHoldsClaim, OneWorkerPerJob
<1>2. out[job[s]] # NoOutput
  BY <1>1, QueueAssumption DEF QueueInv, TypeOK, RowsOK
<1> QED
  BY <1>1, <1>2 DEF QueueInv, ClaimsAreUnique

-----------------------------------------------------------------------------
(* The theorems.                                                           *)

\* QueueInv is inductive: no sequence of requests, slot steps, stops, crashes
\* and restarts leaves it.
THEOREM QueueInvariant == Spec => []QueueInv
<1>1. Init => QueueInv
  <2>1. Init => ClaimMatchesPath
    BY DEF Init, ClaimMatchesPath
  <2> QED
    BY <2>1, InitType, InitSafe DEF QueueInv, Safe
<1>2. QueueInv /\ [Next]_vars => QueueInv'
  <2> SUFFICES ASSUME QueueInv, [Next]_vars PROVE QueueInv'
    OBVIOUS
  <2>1. CASE Next
    <3>1. TypeOK'
      BY <2>1, SlotStepType, RunStepType, UserStepType, WorldStepType
      DEF Next, QueueInv
    <3>2. Safe'
      BY <2>1, SlotStepSafe, RunStepSafe, UserStepSafe, WorldStepSafe DEF Next
    <3>3. ClaimMatchesPath'
      BY <2>1, ClaimFollowsPath
    <3> QED
      BY <3>1, <3>2, <3>3 DEF QueueInv, Safe
  <2>2. CASE UNCHANGED vars
    BY <2>2
    DEF vars, rows, runVars, holdVars, stateVars, slotVars, env, QueueInv,
        TypeOK, RowsOK, RunOK, StateOK, SlotsOK, IsScope, WriterHoldsClaim,
        NoStrandedJob, SlotsBelongToRun, OneWorkerPerJob, ClaimsAreUnique,
        ClaimMatchesPath, Working, Running
  <2> QED
    BY <2>1, <2>2
<1> QED
  BY <1>1, <1>2, PTL DEF Spec

\* Every variable keeps its shape, whatever the numbers of jobs and slots.
THEOREM TypeCorrect == Spec => []TypeOK
<1>1. QueueInv => TypeOK
  BY DEF QueueInv
<1> QED
  BY <1>1, QueueInvariant, PTL

\* A slot's job is translating and holds the claim on the path the slot writes.
THEOREM WritersHoldClaims == Spec => []WriterHoldsClaim
<1>1. QueueInv => WriterHoldsClaim
  BY DEF QueueInv
<1> QED
  BY <1>1, QueueInvariant, PTL

\* A row's claim is for the path the row names.
THEOREM ClaimsMatchPaths == Spec => []ClaimMatchesPath
<1>1. QueueInv => ClaimMatchesPath
  BY DEF QueueInv
<1> QED
  BY <1>1, QueueInvariant, PTL

\* No two slots ever write the same output file: two working slots have
\* different jobs, whose claims are their outputs, and claims are unique.
THEOREM OneWriter == Spec => []OneWriterPerOutput
BY OneWriterFromClaims, QueueInvariant, PTL

\* No job is left translating without a slot that works on it or a stopping
\* run that will hand it back.
THEOREM NoJobStranded == Spec => []NoStrandedJob
<1>1. QueueInv => NoStrandedJob
  BY DEF QueueInv
<1> QED
  BY <1>1, QueueInvariant, PTL
=============================================================================
