-------------------------- MODULE QueueLedgerProofs --------------------------
(***************************************************************************)
(* The translation queue implements JobLedger: under the refinement        *)
(* mapping of TranslationQueue (LedgerState, LedgerWriter) every step of   *)
(* the queue is a step of the ledger, or leaves the ledger alone.          *)
(***************************************************************************)
EXTENDS TranslationQueueProofs

\* The jobs the ledger sees as translating.
AtWork(j) == \E s \in Slots : Working(s) /\ job[s] = j

-----------------------------------------------------------------------------
(* The refinement mapping, in terms of the working slots.                  *)

LEMMA StateOfJob ==
  /\ LedgerState = [j \in Jobs |-> IF status[j] = "translating" /\ ~AtWork(j)
                                     THEN "pending" ELSE status[j]]
  /\ QueueInv => \A j \in Jobs : AtWork(j) => status[j] = "translating"
BY DEF LedgerState, AtWork, QueueInv, WriterHoldsClaim

\* The ledger's writer of an output is the job of the slot that writes it.
WriterIsWorker ==
  \A o \in Outputs :
    /\ \A s \in Slots : Working(s) /\ out[job[s]] = o =>
         LedgerWriter[o] = job[s]
    /\ (\A s \in Slots : ~(Working(s) /\ out[job[s]] = o)) =>
         LedgerWriter[o] = NoJob

\* Two slots never write one output, so the CHOOSE of the mapping has only one
\* value to choose.
LEMMA WriterOfOutput == QueueInv => WriterIsWorker
<1> SUFFICES ASSUME QueueInv, NEW o \in Outputs
             PROVE  /\ \A s \in Slots : Working(s) /\ out[job[s]] = o =>
                         LedgerWriter[o] = job[s]
                    /\ (\A s \in Slots : ~(Working(s) /\ out[job[s]] = o)) =>
                         LedgerWriter[o] = NoJob
  BY DEF WriterIsWorker
<1> DEFINE writes(s) == Working(s) /\ out[job[s]] = o
<1>1. \A s, t \in Slots : writes(s) /\ writes(t) => s = t
  BY OneWriterFromClaims DEF OneWriterPerOutput
<1>2. LedgerWriter[o] = IF \E s \in Slots : writes(s)
                          THEN job[CHOOSE s \in Slots : writes(s)] ELSE NoJob
  BY DEF LedgerWriter
<1> HIDE DEF writes
<1>3. ASSUME NEW s \in Slots, writes(s) PROVE LedgerWriter[o] = job[s]
  <2>1. (CHOOSE t \in Slots : writes(t)) = s
    BY <1>1, <1>3
  <2> QED
    BY <1>2, <1>3, <2>1
<1>4. (\A s \in Slots : ~writes(s)) => LedgerWriter[o] = NoJob
  BY <1>2
<1> QED
  BY <1>3, <1>4 DEF writes

-----------------------------------------------------------------------------
(* What a step does to the working slots decides what it does to the       *)
(* ledger.                                                                 *)

SameWorkers ==
  \A t \in Slots : /\ Working(t)' <=> Working(t)
                   /\ Working(t) => /\ job'[t] = job[t]
                                    /\ out'[job[t]] = out[job[t]]

LEMMA SameWorkersSameWriters ==
  ASSUME QueueInv, QueueInv', SameWorkers
  PROVE  LedgerWriter' = LedgerWriter /\ \A j \in Jobs : AtWork(j)' <=> AtWork(j)
<1>1. WriterIsWorker /\ WriterIsWorker'
  BY WriterOfOutput, PTL
<1>2. \A o \in Outputs : LedgerWriter'[o] = LedgerWriter[o]
  <2> SUFFICES ASSUME NEW o \in Outputs PROVE LedgerWriter'[o] = LedgerWriter[o]
    OBVIOUS
  <2>1. CASE \E s \in Slots : Working(s) /\ out[job[s]] = o
    BY <1>1, <2>1 DEF SameWorkers, WriterIsWorker
  <2>2. CASE ~\E s \in Slots : Working(s) /\ out[job[s]] = o
    BY <1>1, <2>2 DEF SameWorkers, WriterIsWorker
  <2> QED
    BY <2>1, <2>2
<1>3. LedgerWriter' = LedgerWriter
  BY <1>2 DEF LedgerWriter
<1> QED
  BY <1>3 DEF SameWorkers, AtWork

\* A step that leaves the working slots alone and changes no row, but for jobs
\* that nobody works on going between pending and translating.
LEMMA LedgerStutters ==
  ASSUME QueueInv, QueueInv', SameWorkers,
         \A j \in Jobs :
           \/ status'[j] = status[j]
           \/ {status[j], status'[j]} \subseteq {"pending", "translating"}
  PROVE  UNCHANGED Ledger!ledger
<1>1. LedgerWriter' = LedgerWriter /\ \A j \in Jobs : AtWork(j)' <=> AtWork(j)
  BY SameWorkersSameWriters
<1>2. LedgerState' = [j \in Jobs |-> IF status'[j] = "translating" /\ ~AtWork(j)'
                                       THEN "pending" ELSE status'[j]]
  BY DEF LedgerState, AtWork
<1>3. \A j \in Jobs : AtWork(j) => status[j] = "translating"
  BY StateOfJob
<1>4. \A j \in Jobs : AtWork(j)' => status'[j] = "translating"
  BY DEF AtWork, QueueInv, WriterHoldsClaim
<1>5. \A j \in Jobs : LedgerState'[j] = LedgerState[j]
  BY <1>1, <1>2, <1>3, <1>4, StateOfJob
<1>6. LedgerState' = LedgerState
  BY <1>2, <1>5, StateOfJob
<1> QED
  BY <1>1, <1>6 DEF Ledger!ledger

\* A step that leaves the working slots alone and moves one job nobody works on.
LEMMA LedgerMovesJob ==
  ASSUME QueueInv, QueueInv', SameWorkers, NEW j \in Jobs, ~AtWork(j),
         NEW r \in Status \ {"translating"}, status[j] # "translating",
         status' = [status EXCEPT ![j] = r]
  PROVE  /\ LedgerState[j] = status[j] /\ UNCHANGED LedgerWriter
         /\ LedgerState' = [LedgerState EXCEPT ![j] = r]
<1>1. LedgerWriter' = LedgerWriter /\ \A i \in Jobs : AtWork(i)' <=> AtWork(i)
  BY SameWorkersSameWriters
<1>2. LedgerState' = [i \in Jobs |-> IF status'[i] = "translating" /\ ~AtWork(i)'
                                       THEN "pending" ELSE status'[i]]
  BY DEF LedgerState, AtWork
<1> QED
  BY <1>1, <1>2, StateOfJob DEF QueueInv, TypeOK, RowsOK

\* A slot that settles its job, or whose row is left to the end of the run.
LEMMA LedgerEndsJob ==
  ASSUME QueueInv, QueueInv', NEW s \in Slots, Working(s), UNCHANGED out,
         \A t \in Slots : Working(t)' <=> (Working(t) /\ t # s),
         \A t \in Slots \ {s} : job'[t] = job[t],
         NEW r \in {"done", "error", "pending"},
         \/ status' = [status EXCEPT ![job[s]] = r]
         \/ r = "pending" /\ UNCHANGED status
  PROVE  Ledger!End(job[s])
<1> DEFINE j == job[s]
<1>1. j \in Jobs /\ j # NoJob /\ status[j] = "translating" /\ AtWork(j)
  BY QueueAssumption DEF QueueInv, WriterHoldsClaim, AtWork
<1>2. \A i \in Jobs : AtWork(i)' <=> AtWork(i) /\ i # j
  BY DEF AtWork, QueueInv, OneWorkerPerJob
<1>3. LedgerState' = [i \in Jobs |-> IF status'[i] = "translating" /\ ~AtWork(i)'
                                       THEN "pending" ELSE status'[i]]
  BY DEF LedgerState, AtWork
<1>4. LedgerState[j] = "translating"
  BY <1>1, StateOfJob
<1>5. LedgerState' = [LedgerState EXCEPT ![j] = r]
  BY <1>1, <1>2, <1>3, StateOfJob DEF QueueInv, TypeOK, RowsOK
<1>6. WriterIsWorker /\ WriterIsWorker'
  BY WriterOfOutput, PTL
<1>7. \A o \in Outputs :
        LedgerWriter'[o] = IF LedgerWriter[o] = j THEN NoJob ELSE LedgerWriter[o]
  <2> SUFFICES ASSUME NEW o \in Outputs
               PROVE  LedgerWriter'[o] = IF LedgerWriter[o] = j THEN NoJob
                                         ELSE LedgerWriter[o]
    OBVIOUS
  <2>1. CASE \E t \in Slots \ {s} : Working(t) /\ out[job[t]] = o
    <3>1. PICK t \in Slots \ {s} : Working(t) /\ out[job[t]] = o
      BY <2>1
    <3>2. LedgerWriter[o] = job[t] /\ LedgerWriter'[o] = job[t]
      BY <1>6, <3>1 DEF WriterIsWorker
    <3>3. job[t] # j
      BY <3>1 DEF QueueInv, OneWorkerPerJob
    <3> QED
      BY <3>2, <3>3
  <2>2. CASE ~\E t \in Slots \ {s} : Working(t) /\ out[job[t]] = o
    <3>1. LedgerWriter'[o] = NoJob
      BY <1>6, <2>2 DEF WriterIsWorker
    <3>2. LedgerWriter[o] \in {j, NoJob}
      BY <1>6, <2>2 DEF WriterIsWorker
    <3> QED
      BY <3>1, <3>2
  <2> QED
    BY <2>1, <2>2
<1>8. LedgerWriter' = [o \in Outputs |-> IF LedgerWriter[o] = j THEN NoJob
                                         ELSE LedgerWriter[o]]
  BY <1>7 DEF LedgerWriter
<1> HIDE DEF j
<1> QED
  BY <1>4, <1>5, <1>8 DEF Ledger!End, j

\* A slot that begins to work on a pending job, towards an output nobody writes.
LEMMA LedgerStartsJob ==
  ASSUME QueueInv, QueueInv', NEW s \in Slots, ~Working(s), NEW j \in Jobs,
         NEW o \in Outputs, ~AtWork(j), status[j] = "pending",
         \A t \in Slots : Working(t) => out[job[t]] # o,
         status' = [status EXCEPT ![j] = "translating"],
         out' = [out EXCEPT ![j] = o], job' = [job EXCEPT ![s] = j],
         \A t \in Slots : Working(t)' <=> (Working(t) \/ t = s)
  PROVE  Ledger!Start(j, o)
<1>1. \A i \in Jobs : AtWork(i)' <=> AtWork(i) \/ i = j
  BY DEF AtWork, QueueInv, TypeOK, SlotsOK
<1>2. LedgerState' = [i \in Jobs |-> IF status'[i] = "translating" /\ ~AtWork(i)'
                                       THEN "pending" ELSE status'[i]]
  BY DEF LedgerState, AtWork
<1>3. LedgerState[j] = "pending"
  BY StateOfJob
<1>4. LedgerState' = [LedgerState EXCEPT ![j] = "translating"]
  BY <1>1, <1>2, StateOfJob DEF QueueInv, TypeOK, RowsOK
<1>5. WriterIsWorker /\ WriterIsWorker'
  BY WriterOfOutput, PTL
<1>6. LedgerWriter[o] = NoJob
  BY <1>5 DEF WriterIsWorker
<1>7. job'[s] = j /\ out'[j] = o
      /\ \A t \in Slots : Working(t) => /\ job'[t] = job[t] /\ job[t] \in Jobs
                                        /\ out'[job[t]] = out[job[t]]
  BY DEF QueueInv, TypeOK, SlotsOK, RowsOK, AtWork, WriterHoldsClaim
<1>8. LedgerWriter'[o] = j
  BY <1>5, <1>7 DEF WriterIsWorker
<1>9. \A p \in Outputs \ {o} : LedgerWriter'[p] = LedgerWriter[p]
  <2> SUFFICES ASSUME NEW p \in Outputs \ {o}
               PROVE  LedgerWriter'[p] = LedgerWriter[p]
    OBVIOUS
  <2>1. CASE \E t \in Slots : Working(t) /\ out[job[t]] = p
    BY <1>5, <1>7, <2>1 DEF WriterIsWorker
  <2>2. CASE ~\E t \in Slots : Working(t) /\ out[job[t]] = p
    BY <1>5, <1>7, <2>2 DEF WriterIsWorker
  <2> QED
    BY <2>1, <2>2
<1>10. /\ LedgerWriter = [p \in Outputs |-> LedgerWriter[p]]
       /\ LedgerWriter' = [p \in Outputs |-> LedgerWriter'[p]]
  BY DEF LedgerWriter
<1>11. LedgerWriter' = [LedgerWriter EXCEPT ![o] = j]
  BY <1>8, <1>9, <1>10
<1> QED
  BY <1>3, <1>4, <1>6, <1>11 DEF Ledger!Start

-----------------------------------------------------------------------------
(* Each step of the queue, as a step of the ledger.                        *)

LEMMA LeavingWorker ==
  ASSUME TypeOK, NEW s \in Slots, NEW to \in {"loop", "exited"}, Leaves(s, to)
  PROVE  /\ \A t \in Slots : Working(t)' <=> (Working(t) /\ t # s)
         /\ \A t \in Slots \ {s} : job'[t] = job[t]
BY LeavesWork

\* A claim that does not start: the job is dismissed.
LEMMA ClaimIsDismissal ==
  ASSUME QueueInv, QueueInv', NEW s \in Slots, NEW j \in Jobs,
         ClaimConflicts(s, j) \/ ClaimSkips(s, j)
  PROVE  Ledger!Dismiss(j)
<1>1. Takes(s, j)
  BY DEF ClaimConflicts, ClaimSkips
<1>2. status[j] = "pending" /\ \A t \in Slots : Working(t) => job[t] # j
  BY <1>1, TakenIsFree
<1>3. PICK r \in {"error", "skipped"} : status' = [status EXCEPT ![j] = r]
  BY DEF ClaimConflicts, ClaimSkips
<1>4. UNCHANGED <<pc, job>> /\ \A i \in Jobs \ {j} : out'[i] = out[i]
  BY DEF ClaimConflicts, ClaimSkips, QueueInv, TypeOK, RowsOK
<1>5. SameWorkers
  BY <1>2, <1>4 DEF SameWorkers, Working, QueueInv, WriterHoldsClaim
<1>6. ~AtWork(j)
  BY <1>2 DEF AtWork
<1>7. r \in Status \ {"translating"}
  BY DEF Status
<1> QED
  BY <1>2, <1>3, <1>5, <1>6, <1>7, LedgerMovesJob DEF Ledger!Dismiss

\* A claim that starts: the conflict check and the unique claims make sure that
\* nobody writes the output.
LEMMA ClaimIsStart ==
  ASSUME QueueInv, QueueInv', NEW s \in Slots, NEW j \in Jobs,
         ClaimStarts(s, j)
  PROVE  \E o \in Outputs : Ledger!Start(j, o)
<1>1. Takes(s, j)
  BY DEF ClaimStarts
<1>2. /\ status[j] = "pending" /\ pc[s] = "loop"
      /\ \A t \in Slots : Working(t) => job[t] # j
  BY <1>1, TakenIsFree
<1>3. PICK o \in Outputs : /\ OwnerOf(o) \subseteq {j}
                           /\ out' = [out EXCEPT ![j] = o]
  BY ResolvedIsOutput DEF ClaimStarts, QueueInv
<1>4. \A t \in Slots : Working(t) => out[job[t]] # o
  BY <1>2, <1>3 DEF OwnerOf, QueueInv, WriterHoldsClaim
<1>5. /\ status' = [status EXCEPT ![j] = "translating"]
      /\ job' = [job EXCEPT ![s] = j]
      /\ \/ pc' = [pc EXCEPT ![s] = "engine"]
         \/ pc' = [pc EXCEPT ![s] = "waiting"]
  BY DEF ClaimStarts, Begins
<1>6. ~Working(s) /\ \A t \in Slots : Working(t)' <=> (Working(t) \/ t = s)
  BY <1>2, <1>5 DEF Working, QueueInv, TypeOK, SlotsOK
<1>7. ~AtWork(j)
  BY <1>2 DEF AtWork
<1> QED
  BY <1>2, <1>3, <1>4, <1>5, <1>6, <1>7, LedgerStartsJob

\* What the ledger allows, one step at a time.
LedgerStep == Ledger!LedgerNext \/ UNCHANGED Ledger!ledger

LEMMA EndIsStep ==
  ASSUME NEW j \in Jobs, Ledger!End(j) \/ Ledger!Dismiss(j)
  PROVE  LedgerStep
BY DEF LedgerStep, Ledger!LedgerNext

LEMMA SlotStepInLedger ==
  ASSUME QueueInv, QueueInv', NEW s \in Slots, SlotStep(s)
  PROVE  LedgerStep
<1>0. Working(s) => job[s] \in Jobs /\ status[job[s]] = "translating"
  BY DEF QueueInv, WriterHoldsClaim
<1>1. ASSUME NEW j \in Jobs, ClaimConflicts(s, j) \/ ClaimSkips(s, j)
      PROVE  LedgerStep
  BY <1>1, ClaimIsDismissal, EndIsStep
<1>2. ASSUME NEW j \in Jobs, ClaimStarts(s, j) PROVE LedgerStep
  BY <1>2, ClaimIsStart DEF LedgerStep, Ledger!LedgerNext
<1>3. CASE LockArrives(s) \/ ConnectionLost(s)
  <2>1. UNCHANGED <<status, out, job>>
        /\ \A t \in Slots : Working(t)' <=> Working(t)
    BY <1>3 DEF LockArrives, ConnectionLost, Begins, rows, slotVars, Working,
                QueueInv, TypeOK, SlotsOK
  <2> QED
    BY <2>1, LedgerStutters DEF SameWorkers, LedgerStep
<1>4. ASSUME Leaves(s, "loop") \/ Leaves(s, "exited"), UNCHANGED out,
             Working(s), NEW r \in {"done", "error", "pending"},
             \/ status' = [status EXCEPT ![job[s]] = r]
             \/ r = "pending" /\ UNCHANGED status
      PROVE  LedgerStep
  <2>1. Ledger!End(job[s])
    BY <1>4, LeavingWorker, LedgerEndsJob DEF QueueInv
  <2> QED
    BY <1>0, <1>4, <2>1, EndIsStep
<1>5. ASSUME Leaves(s, "loop") \/ Leaves(s, "exited"), UNCHANGED out,
             ~Working(s),
             \A j \in Jobs :
               \/ status'[j] = status[j]
               \/ {status[j], status'[j]} \subseteq {"pending", "translating"}
      PROVE  LedgerStep
  <2>1. \A t \in Slots : /\ Working(t)' <=> Working(t)
                         /\ Working(t) => job'[t] = job[t]
    BY <1>5, LeavingWorker DEF QueueInv
  <2> QED
    BY <1>5, <2>1, LedgerStutters DEF SameWorkers, LedgerStep
<1>6. CASE PutBack(s)
  BY <1>4, <1>6 DEF PutBack, Working, RowReturns
<1>7. CASE SlotExits(s)
  BY <1>4, <1>5, <1>7 DEF SlotExits, rows
<1>8. CASE SlotRejects(s)
  <2>1. CASE pc[s] = "waiting"
    BY <1>4, <1>8, <2>1 DEF SlotRejects, Working
  <2>2. CASE pc[s] = "loop"
    <3>1. \/ UNCHANGED status
          \/ \E j \in Jobs : /\ status[j] = "pending"
                             /\ status' = [status EXCEPT ![j] = "translating"]
      BY <1>8, <2>2, ClaimableJobs DEF SlotRejects
    <3>2. \A j \in Jobs :
            \/ status'[j] = status[j]
            \/ {status[j], status'[j]} \subseteq {"pending", "translating"}
      BY <3>1 DEF QueueInv, TypeOK, RowsOK
    <3> QED
      BY <1>5, <1>8, <2>2, <3>2 DEF SlotRejects, Working
  <2> QED
    BY <1>8, <2>1, <2>2 DEF SlotRejects
<1>9. CASE EngineFails(s)
  <2>1. FailedStatus \in {"done", "error", "pending"}
    BY DEF FailedStatus
  <2> QED
    BY <1>4, <1>9, <2>1 DEF EngineFails, Releases, Working
<1>10. CASE EngineCompletes(s)
  <2>1. PICK r \in {"done", "error", "pending"} :
          status' = [status EXCEPT ![job[s]] = r]
    BY <1>10 DEF EngineCompletes, FailedStatus
  <2>2. UNCHANGED out /\ Working(s)
    BY <1>10 DEF EngineCompletes, Working
  <2>3. CASE Releases(s)
    BY <1>4, <2>1, <2>2, <2>3 DEF Releases
  <2>4. CASE ~Releases(s)
    <3>1. pc' = [pc EXCEPT ![s] = "title"] /\ UNCHANGED job
      BY <1>10, <2>4 DEF EngineCompletes
    <3>2. \A t \in Slots : Working(t)' <=> (Working(t) /\ t # s)
      BY <3>1 DEF Working, QueueInv, TypeOK, SlotsOK
    <3>3. Ledger!End(job[s])
      BY <2>1, <2>2, <3>1, <3>2, LedgerEndsJob
    <3> QED
      BY <1>0, <2>2, <3>3, EndIsStep
  <2> QED
    BY <2>3, <2>4
<1>11. CASE TitleSettles(s)
  BY <1>5, <1>11 DEF TitleSettles, Releases, Working, rows
<1> QED
  BY <1>1, <1>2, <1>3, <1>6, <1>7, <1>8, <1>9, <1>10, <1>11 DEF SlotStep

\* Before and after the step no slot works, and at most the rows of jobs
\* nobody worked on go back to pending.
LEMMA IdleStepInLedger ==
  ASSUME QueueInv, QueueInv', \A s \in Slots : ~Working(s) /\ ~Working(s)',
         \A j \in Jobs :
           \/ status'[j] = status[j]
           \/ {status[j], status'[j]} \subseteq {"pending", "translating"}
  PROVE  LedgerStep
BY LedgerStutters DEF SameWorkers, LedgerStep

LEMMA StartInLedger ==
  ASSUME QueueInv, QueueInv', NEW ids, UNCHANGED <<status, out>>,
         \/ ProcessQueue(ids)
         \/ phase # "pump" /\ \E st, hd : BeginOrHold(ids, st, hd)
  PROVE  LedgerStep
<1>1. CASE UNCHANGED <<pc, job>>
  BY <1>1, LedgerStutters DEF SameWorkers, Working, LedgerStep
<1>2. CASE phase # "pump" /\ pc' = [s \in Slots |-> "loop"]
  <2>1. \A s \in Slots : ~Working(s) /\ ~Working(s)'
    BY <1>2, QuietOutsidePump DEF Working
  <2> QED
    BY <2>1, IdleStepInLedger
<1> QED
  BY <1>1, <1>2 DEF ProcessQueue, WidenRun, BeginOrHold, slotVars

LEMMA RunStepInLedger ==
  ASSUME QueueInv, QueueInv', RunStep
  PROVE  LedgerStep
<1>1. CASE RoundEnds \/ RepairEnds
  <2>1. \A s \in Slots : pc[s] = "exited"
    BY <1>1, QuietOutsidePump DEF RoundEnds, AllExited, RepairEnds
  <2>2. pc' = pc \/ pc' = [s \in Slots |-> "loop"]
    BY <1>1 DEF RoundEnds, RepairEnds, Finish, slotVars
  <2>3. \A s \in Slots : ~Working(s) /\ ~Working(s)'
    BY <2>1, <2>2 DEF Working
  <2>4. \A j \in Jobs :
          \/ status'[j] = status[j]
          \/ {status[j], status'[j]} \subseteq {"pending", "translating"}
    BY <1>1 DEF RoundEnds, RepairEnds, Finish, HandedBack, rows
  <2> QED
    BY <2>3, <2>4, IdleStepInLedger
<1>2. CASE StartTimerFires
  BY <1>2, StartInLedger DEF StartTimerFires, rows
<1>3. CASE StartHeldQueue
  BY <1>3, StartInLedger DEF StartHeldQueue, rows
<1> QED
  BY <1>1, <1>2, <1>3 DEF RunStep

\* The job routes add, requeue and drop rows; a row that is already pending is
\* left as it is.
LEMMA RouteInLedger ==
  ASSUME QueueInv, QueueInv', NEW j \in Jobs,
         \/ Enqueue(j) \/ Retry(j) \/ Retarget(j) \/ ForceJob(j) \/ Delete(j)
         \/ Cancel(j)
  PROVE  LedgerStep
<1>1. CASE Cancel(j)
  BY <1>1, LedgerStutters DEF Cancel, rows, slotVars, SameWorkers, Working,
                              LedgerStep
<1>2. CASE Enqueue(j) \/ Retry(j) \/ Retarget(j) \/ ForceJob(j) \/ Delete(j)
  <2>1. PICK r \in {"pending", "deleted"} :
          /\ status' = [status EXCEPT ![j] = r]
          /\ r = "deleted" => Delete(j)
    BY <1>2 DEF Enqueue, Retry, Retarget, ForceJob, Delete
  <2>2. /\ status[j] \in {"absent", "pending", "done", "skipped", "error"}
        /\ status[j] = "absent" => r = "pending"
        /\ UNCHANGED <<pc, job>>
        /\ out' \in {out, [out EXCEPT ![j] = Standard[j]]}
    BY <1>2, <2>1 DEF Enqueue, Retry, Retarget, ForceJob, Delete, Editable,
                      InTable, OutputGone, MayTranslateFile, OnlyRows, slotVars,
                      QueueInv, TypeOK, RowsOK, Status
  <2>3. ~AtWork(j)
    BY <2>2, StateOfJob
  <2>4. SameWorkers
    BY <2>2, <2>3 DEF SameWorkers, Working, AtWork, QueueInv, WriterHoldsClaim,
                      TypeOK, RowsOK
  <2>5. r \in Status \ {"translating"} /\ status[j] # "translating"
    BY <2>2 DEF Status
  <2>6. /\ LedgerState[j] = status[j] /\ UNCHANGED LedgerWriter
        /\ LedgerState' = [LedgerState EXCEPT ![j] = r]
    BY <2>1, <2>3, <2>4, <2>5, LedgerMovesJob
  <2>7. CASE status[j] = "absent"
    <3>1. Ledger!Add(j)
      BY <2>2, <2>6, <2>7 DEF Ledger!Add
    <3> QED
      BY <3>1 DEF LedgerStep, Ledger!LedgerNext
  <2>8. CASE status[j] # "absent" /\ r = "deleted"
    <3>1. Ledger!Drop(j)
      BY <2>2, <2>6, <2>8 DEF Ledger!Drop, Ledger!Settled
    <3> QED
      BY <3>1 DEF LedgerStep, Ledger!LedgerNext
  <2>9. CASE status[j] \in Ledger!Settled /\ r = "pending"
    <3>1. Ledger!Requeue(j)
      BY <2>6, <2>9 DEF Ledger!Requeue
    <3> QED
      BY <3>1 DEF LedgerStep, Ledger!LedgerNext
  <2>10. CASE status[j] = "pending" /\ r = "pending"
    <3>1. \A i \in Jobs : status'[i] = status[i]
      BY <2>1, <2>10 DEF QueueInv, TypeOK, RowsOK
    <3> QED
      BY <2>4, <3>1, LedgerStutters DEF LedgerStep
  <2> QED
    BY <2>2, <2>7, <2>8, <2>9, <2>10 DEF Ledger!Settled
<1> QED
  BY <1>1, <1>2

LEMMA UserStepInLedger ==
  ASSUME QueueInv, QueueInv', UserStep
  PROVE  LedgerStep
<1>1. ASSUME NEW ids, RequestRun(ids) PROVE LedgerStep
  BY <1>1, StartInLedger DEF RequestRun, rows
<1>2. CASE RequestStop
  BY <1>2, LedgerStutters DEF RequestStop, rows, slotVars, SameWorkers, Working,
                              LedgerStep
<1> QED
  BY <1>1, <1>2, RouteInLedger DEF UserStep

\* The process dies: nobody works, and what was being worked on is pending.
LEMMA CrashInLedger ==
  ASSUME QueueInv, QueueInv', Crash
  PROVE  LedgerStep
<1>1. \A s \in Slots : ~Working(s)'
  BY DEF Crash, Working
<1>2. status' = status
  BY DEF Crash, rows
<1>3. LedgerState' = [j \in Jobs |-> IF status'[j] = "translating" /\ ~AtWork(j)'
                                       THEN "pending" ELSE status'[j]]
  BY DEF LedgerState, AtWork
<1>4. LedgerState' = [j \in Jobs |-> IF LedgerState[j] = "translating"
                                       THEN "pending" ELSE LedgerState[j]]
  BY <1>1, <1>2, <1>3, StateOfJob DEF AtWork
<1>5. WriterIsWorker'
  BY WriterOfOutput, PTL
<1>6. LedgerWriter' = [o \in Outputs |-> LedgerWriter'[o]]
  BY DEF LedgerWriter
<1>7. LedgerWriter' = [o \in Outputs |-> NoJob]
  BY <1>1, <1>5, <1>6 DEF WriterIsWorker
<1> QED
  BY <1>4, <1>7 DEF LedgerStep, Ledger!LedgerNext, Ledger!Restart

LEMMA WorldStepInLedger ==
  ASSUME QueueInv, QueueInv', WorldStep
  PROVE  LedgerStep
<1>1. CASE Boot
  <2>1. \A s \in Slots : ~Working(s)
    BY <1>1, QuietOutsidePump DEF Boot, Working
  <2>2. pc' = pc \/ pc' = [s \in Slots |-> "loop"]
    BY <1>1 DEF Boot, BeginOrHold, slotVars
  <2>3. \A s \in Slots : ~Working(s)'
    BY <2>1, <2>2 DEF Working
  <2>4. \A j \in Jobs :
          \/ status'[j] = status[j]
          \/ {status[j], status'[j]} \subseteq {"pending", "translating"}
    BY <1>1 DEF Boot, ResetInterrupted
  <2> QED
    BY <2>1, <2>3, <2>4, IdleStepInLedger
<1>2. CASE \/ GateChanges \/ ModeChanges
           \/ \E j \in Jobs : ReviewChanges(j)
           \/ \E o \in Outputs : OutputDeleted(o)
  <2>1. UNCHANGED <<status, out, pc, job>>
    BY <1>2 DEF GateChanges, ModeChanges, ReviewChanges, OutputDeleted, rows,
                slotVars
  <2> QED
    BY <2>1, LedgerStutters DEF SameWorkers, Working, LedgerStep
<1> QED
  BY <1>1, <1>2, CrashInLedger DEF WorldStep

-----------------------------------------------------------------------------
LEMMA InitInLedger ==
  ASSUME QueueInv, Init
  PROVE  Ledger!LedgerInit
<1>1. \A s \in Slots : ~Working(s)
  BY DEF Init, Idle, Working
<1>2. LedgerState \in [Jobs -> {"absent", "pending"}]
  BY StateOfJob DEF Init
<1>3. LedgerWriter = [o \in Outputs |-> NoJob]
  BY <1>1 DEF LedgerWriter
<1> QED
  BY <1>2, <1>3 DEF Ledger!LedgerInit

LEMMA StepInLedger ==
  ASSUME QueueInv, QueueInv', [Next]_vars
  PROVE  [Ledger!LedgerNext]_Ledger!ledger
<1>1. CASE UNCHANGED vars
  BY <1>1, LedgerStutters DEF vars, rows, slotVars, SameWorkers, Working
<1>2. CASE Next
  BY <1>2, SlotStepInLedger, RunStepInLedger, UserStepInLedger,
     WorldStepInLedger DEF Next, LedgerStep
<1> QED
  BY <1>1, <1>2

\* The queue implements JobLedger: seen through its rows and its working slots,
\* a job is worked on by one worker at a time and only while it is translating,
\* work towards one output file excludes other work towards it, a job ends by
\* its worker's hand, and a process that dies gives back what it was
\* translating.
THEOREM KeepsPromise == Spec => KeepsLedgerPromise
<1>1. QueueInv /\ Init => Ledger!LedgerInit
  BY InitInLedger
<1>2. QueueInv /\ QueueInv' /\ [Next]_vars
        => [Ledger!LedgerNext]_Ledger!ledger
  BY StepInLedger
<1> QED
  BY <1>1, <1>2, QueueInvariant, PTL DEF Spec, KeepsLedgerPromise,
                                         Ledger!Promise
=============================================================================
