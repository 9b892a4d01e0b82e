------------------------ MODULE WhisperModelsProofs ------------------------
(***************************************************************************)
(* For any models, transcriptions and bounds: a model's files have one     *)
(* owner, a download that succeeded is complete, no model leaves memory    *)
(* under a decode, memory holds no second copy of anything, and a          *)
(* checkpoint is of the files it is filed under.                           *)
(* The downloads come first: their invariant needs nothing of the loader,  *)
(* whose own proof then uses only that the revision of files never falls.  *)
(***************************************************************************)
EXTENDS WhisperModels, FiniteSetTheorems, TLAPS

-----------------------------------------------------------------------------
(* Downloads.                                                              *)

\* Who may be at work when: a process lives only in the stages that watch or
\* reap it, a supervisor works only on a download that is on the record, and
\* what is removed is not downloaded.
OwnersInStage ==
  /\ \A m \in Models : /\ worker[m].state = "alive"
                            => operation[m].stage \in {"watch", "exit", "reap"}
                       /\ operation[m].stage # "idle" => Active(m)
  /\ removal.phase # "idle" => removal.m \in Models
  /\ removal.phase = "removing" => ~Active(removal.m)
  /\ stopping = "stopped" => \A m \in Models : ~Active(m)

\* The files of a model that is downloaded only get better: there is a name
\* left for them, and an attempt that was judged complete left them complete.
FilesInStage ==
  \A m \in Models :
    /\ Active(m) => Cached(m) \/ files[m].rev < MaxRevisions
    /\ operation[m].stage = "finish" /\ operation[m].result = "complete"
         => Cached(m)

DownloadInv == DownloadTypes /\ OwnersInStage /\ FilesInStage

LEMMA DownloadInit == Init => DownloadInv
<1> SUFFICES ASSUME Init PROVE DownloadInv
  OBVIOUS
<1> USE WhisperAssumption DEF Init
<1>1. DownloadTypes
  BY DEF DownloadTypes, Revisions, States, Stages, Results, Downloads,
         Processes, NoDownload, NoWorker, NoRemoval
<1>2. OwnersInStage /\ FilesInStage
  BY DEF OwnersInStage, FilesInStage, Active, Cached, NoDownload, NoWorker,
         NoRemoval
<1> QED
  BY <1>1, <1>2 DEF DownloadInv

\* A step that changes only how far download m and its process are: to op, w.
Moves(m, op, w) ==
  /\ op \in Downloads /\ w \in Processes
  /\ operation' = [operation EXCEPT ![m] = op]
  /\ worker' = [worker EXCEPT ![m] = w]
  /\ UNCHANGED <<files, removal, stopping>>
  /\ w.state = "alive" => op.stage \in {"watch", "exit", "reap"}
  /\ op.stage # "idle" => op.status \in {"running", "cancelling"}
  /\ op.status \in {"running", "cancelling"} =>
       Active(m) \/ (/\ removal.phase # "removing" /\ stopping = "no"
                     /\ Cached(m) \/ files[m].rev < MaxRevisions)
  /\ op.stage = "finish" /\ op.result = "complete" => Cached(m)

LEMMA OneDownloadMoves ==
  ASSUME DownloadInv, NEW m \in Models, NEW op, NEW w, Moves(m, op, w)
  PROVE  DownloadInv'
<1>1. DownloadTypes'
  BY DEF DownloadInv, DownloadTypes, Moves
<1>2. \A n \in Models : operation'[n] = (IF n = m THEN op ELSE operation[n])
                        /\ worker'[n] = (IF n = m THEN w ELSE worker[n])
  BY DEF DownloadInv, DownloadTypes, Moves
<1>3. OwnersInStage'
  BY <1>2 DEF DownloadInv, OwnersInStage, Active, Moves
<1>4. FilesInStage'
  BY <1>2 DEF DownloadInv, FilesInStage, Active, Cached, Moves
<1> QED
  BY <1>1, <1>3, <1>4 DEF DownloadInv

\* The steps of a download and its supervisor are of that kind.
LEMMA SupervisorMoves ==
  ASSUME DownloadInv, NEW m \in Models,
         StartDownload(m) \/ Cancel(m) \/ Supervisor(m)
  PROVE  \E op \in Downloads, w \in Processes : Moves(m, op, w)
<1> DEFINE old == operation[m]
           To(s, res) == [old EXCEPT !.stage = s, !.result = res]
           Same == UNCHANGED <<files, removal, stopping>>
<1> USE WhisperAssumption
<1>0. /\ old \in Downloads /\ worker[m] \in Processes
      /\ worker = [worker EXCEPT ![m] = worker[m]]
  BY DEF DownloadInv, DownloadTypes, Downloads
<1>t. \A s \in Stages, res \in Results : ToStage(m, s, res) =>
        operation' = [operation EXCEPT ![m] = To(s, res)]
  BY DEF ToStage, DownloadInv, DownloadTypes, Downloads
<1>d. \A s \in Stages, res \in Results :
        /\ To(s, res) \in Downloads /\ To(s, res).status = old.status
        /\ To(s, res).stage = s /\ To(s, res).result = res
  BY <1>0 DEF Downloads
<1>a. old.stage # "idle" => Active(m)
  BY DEF DownloadInv, OwnersInStage
<1>w. worker[m].state = "alive" => old.stage \in {"watch", "exit", "reap"}
  BY DEF DownloadInv, OwnersInStage
<1>1. CASE StartDownload(m)
  <2> DEFINE ok == [NoDownload EXCEPT !.status = "succeeded"]
             run == [NoDownload EXCEPT !.status = "running", !.stage = "start"]
             no == [NoDownload EXCEPT !.status = "failed"]
  <2>0. NoDownload \in Downloads /\ NoDownload.stage = "idle"
    BY DEF NoDownload, Downloads, States, Stages, Results
  <2>1. {ok, run, no} \subseteq Downloads
    BY <2>0 DEF Downloads, States, Stages
  <2>2. PICK op \in {ok, run, no} :
          operation' = [operation EXCEPT ![m] = op]
    BY <1>1 DEF StartDownload
  <2>3. worker[m].state # "alive"
    BY <1>1, <1>a, <1>w DEF StartDownload
  <2>4. \/ op.stage = "idle" /\ op.status \in {"succeeded", "failed"}
        \/ op.stage = "start" /\ op.status = "running"
    BY <2>0 DEF Downloads
  <2>5. /\ Same /\ worker' = worker /\ stopping = "no"
        /\ removal.phase # "removing"
        /\ Cached(m) \/ files[m].rev < MaxRevisions
    BY <1>1 DEF StartDownload, Supervises, DownloadsFree
  <2>6. Moves(m, op, worker[m])
    BY <1>0, <2>1, <2>2, <2>3, <2>4, <2>5 DEF Moves
  <2> QED
    BY <1>0, <2>1, <2>6
<1>2. CASE Cancel(m)
  <2> DEFINE op == [old EXCEPT !.status = "cancelling"]
  <2>1. op \in Downloads /\ operation' = [operation EXCEPT ![m] = op]
    BY <1>0, <1>2 DEF Cancel, DownloadInv, DownloadTypes, Downloads, States
  <2>5. /\ op.status = "cancelling" /\ op.stage = old.stage
        /\ op.result = old.result
    BY <1>0 DEF Downloads
  <2>2. Same /\ worker' = worker /\ Active(m)
    BY <1>2 DEF Cancel, Supervises, Active
  <2>3. old.stage = "finish" /\ old.result = "complete" => Cached(m)
    BY DEF DownloadInv, FilesInStage
  <2> HIDE DEF op
  <2>4. Moves(m, op, worker[m])
    BY <1>0, <1>w, <2>1, <2>2, <2>3, <2>5 DEF Moves
  <2> QED
    BY <1>0, <2>1, <2>4
<1>3. CASE \E s \in Stages \ {"idle"}, res \in Results :
             /\ ToStage(m, s, res) /\ UNCHANGED worker /\ Same
             /\ old.stage # "idle"
             /\ s = "finish" => res # "complete"
             /\ worker[m].state = "alive" => s \in {"watch", "exit", "reap"}
  <2>1. PICK s \in Stages \ {"idle"}, res \in Results :
             /\ ToStage(m, s, res) /\ UNCHANGED worker /\ Same
             /\ s = "finish" => res # "complete"
             /\ worker[m].state = "alive" => s \in {"watch", "exit", "reap"}
    BY <1>3
  <2> DEFINE op == To(s, res)
  <2>2. op \in Downloads /\ operation' = [operation EXCEPT ![m] = op]
    BY <1>t, <1>d, <2>1
  <2>3. op.stage = s /\ op.result = res /\ op.status = old.status
    BY <1>d
  <2>4. Active(m)
    BY <1>3, <1>a
  <2> HIDE DEF op
  <2>5. Moves(m, op, worker[m])
    BY <1>0, <2>1, <2>2, <2>3, <2>4 DEF Moves, Active
  <2> QED
    BY <1>0, <2>2, <2>5
<1>4. CASE StartAttempt(m)
  <2> DEFINE alive == [state |-> "alive", said |-> "nothing"]
  <2>1. Same /\ old.stage = "start" /\ worker[m].state # "alive"
    BY <1>4, <1>w DEF StartAttempt, Supervises
  <2>2. CASE ToStage(m, "watch", "none") /\ worker' = [worker EXCEPT ![m] = alive]
    <3>1. /\ To("watch", "none") \in Downloads /\ alive \in Processes
          /\ operation' = [operation EXCEPT ![m] = To("watch", "none")]
      BY <1>t, <1>d, <2>2 DEF Stages, Results, Processes
    <3>2. /\ To("watch", "none").stage = "watch"
          /\ To("watch", "none").status = old.status
      BY <1>d DEF Stages, Results
    <3>3. Moves(m, To("watch", "none"), alive)
      BY <1>a, <2>1, <2>2, <3>1, <3>2 DEF Moves, Active
    <3> QED
      BY <3>1, <3>3
  <2>3. CASE ToStage(m, "finish", "error") /\ UNCHANGED worker
    BY <1>3, <2>1, <2>3 DEF Stages, Results
  <2> QED
    BY <1>4, <2>2, <2>3 DEF StartAttempt
<1>5. CASE ReadsReport(m)
  <2>1. worker[m].said \in Results
    BY <1>0, <1>5 DEF ReadsReport, Processes, Results
  <2> QED
    BY <1>3, <1>5, <2>1 DEF ReadsReport, Supervises, Stages
<1>6. CASE WatchEnds(m) \/ ExitSeen(m)
  <2>1. PICK res \in Results : ToStage(m, "reap", res)
    BY <1>0, <1>6 DEF WatchEnds, ExitSeen, Downloads, Results
  <2>2. UNCHANGED worker /\ Same /\ old.stage # "idle"
    BY <1>6 DEF WatchEnds, ExitSeen, Supervises
  <2> QED
    BY <1>3, <2>1, <2>2 DEF Stages
<1>7. CASE Reaps(m)
  <2> DEFINE op == [old EXCEPT !.stage = "judge"]
  <2>1. op \in Downloads /\ op.stage = "judge" /\ op.status = old.status
    BY <1>0 DEF Downloads, Stages
  <2>2. /\ operation' = [operation EXCEPT ![m] = op]
        /\ worker' = [worker EXCEPT ![m] = NoWorker]
    BY <1>0, <1>7 DEF Reaps, Gone, DownloadInv, DownloadTypes, Downloads
  <2>3. NoWorker \in Processes /\ NoWorker.state = "none"
    BY DEF NoWorker, Processes
  <2>4. Active(m) /\ Same
    BY <1>7, <1>a DEF Reaps, Supervises
  <2>5. Moves(m, op, NoWorker)
    BY <2>1, <2>2, <2>3, <2>4 DEF Moves, Active
  <2> QED
    BY <2>1, <2>3, <2>5
<1>8. CASE Judges(m)
  <2> DEFINE op == operation'[m]
  <2>1. /\ operation' = [operation EXCEPT ![m] = op]
        /\ op.status = old.status /\ op.stage \in {"finish", "wait"}
        /\ op.stage = "finish" /\ op.result = "complete" => Cached(m)
        /\ op \in Downloads
    <3>1. operation' = [operation EXCEPT ![m] = op]
      BY <1>8 DEF Judges, DownloadInv, DownloadTypes
    <3>2. op = IF old.result = "complete" /\ Verified(m)
               THEN [old EXCEPT !.stage = "finish"]
               ELSE IF old.result = "retry" /\ RetryLeft(old)
               THEN [old EXCEPT !.stage = "wait", !.tries = @ + 1]
               ELSE [old EXCEPT !.stage = "finish", !.result = "error"]
      BY <1>8 DEF Judges, DownloadInv, DownloadTypes
    <3> HIDE DEF op
    <3>3. old.tries < Delays => old.tries + 1 \in 0 .. Delays
      BY <1>0 DEF Downloads
    <3> QED
      BY <1>0, <3>1, <3>2, <3>3
         DEF Verified, RetryLeft, Downloads, Stages, Results
  <2>2. worker[m].state # "alive" /\ Same /\ UNCHANGED worker /\ Active(m)
    BY <1>8, <1>a, <1>w DEF Judges, Supervises
  <2> HIDE DEF op
  <2>3. Moves(m, op, worker[m])
    BY <1>0, <2>1, <2>2 DEF Moves, Active
  <2> QED
    BY <1>0, <2>1, <2>3
<1>9. CASE WaitEnds(m)
  <2>1. worker[m].state # "alive" /\ Same /\ UNCHANGED worker
    BY <1>9, <1>w DEF WaitEnds, Supervises
  <2>2. ToStage(m, "finish", "error") \/ ToStage(m, "start", "none")
    BY <1>9 DEF WaitEnds
  <2>3. old.stage # "idle"
    BY <1>9 DEF WaitEnds
  <2> QED
    BY <1>3, <2>1, <2>2, <2>3 DEF Stages, Results
<1>10. CASE Finish(m)
  <2> DEFINE op == [NoDownload EXCEPT !.status = EndOf(old)]
  <2>1. op \in Downloads /\ operation' = [operation EXCEPT ![m] = op]
    BY <1>10 DEF Finish, EndOf, NoDownload, Downloads, States, Stages, Results
  <2>2. op.stage = "idle" /\ op.status \notin {"running", "cancelling"}
    BY DEF EndOf, NoDownload
  <2>3. worker[m].state # "alive" /\ Same /\ UNCHANGED worker
    BY <1>10, <1>w DEF Finish, Supervises
  <2> HIDE DEF op
  <2>4. Moves(m, op, worker[m])
    BY <1>0, <2>1, <2>2, <2>3 DEF Moves
  <2> QED
    BY <1>0, <2>1, <2>4
<1> QED
  BY <1>1, <1>2, <1>4, <1>5, <1>6, <1>7, <1>8, <1>9, <1>10 DEF Supervisor

\* A worker process writes only while its download is on the record.
LEMMA WorkerSteps ==
  ASSUME DownloadInv, NEW m \in Models,
         \/ WorkerWrites(m) \/ WorkerReports(m) \/ WorkerExits(m)
         \/ WorkerDies(m)
  PROVE  DownloadInv'
<1>1. PICK w \in Processes : WorkerStep(m, w)
  BY DEF WorkerWrites, WorkerReports, WorkerExits, WorkerDies, DownloadInv,
         DownloadTypes, Processes
<1>2. /\ worker' = [worker EXCEPT ![m] = w] /\ worker[m].state = "alive"
      /\ UNCHANGED <<operation, removal, stopping>>
  BY <1>1 DEF WorkerStep
<1>3. \A n \in Models : worker'[n].state = "alive" => worker[n].state = "alive"
  BY <1>2 DEF DownloadInv, DownloadTypes
<1>4. OwnersInStage'
  BY <1>2, <1>3 DEF DownloadInv, OwnersInStage, Active
<1>5. Active(m)
  BY <1>2 DEF DownloadInv, OwnersInStage
<1>6. CASE UNCHANGED files
  <2>1. DownloadTypes'
    BY <1>2, <1>6 DEF DownloadInv, DownloadTypes
  <2>2. FilesInStage'
    BY <1>2, <1>6 DEF DownloadInv, FilesInStage, Active, Cached
  <2> QED
    BY <1>4, <2>1, <2>2 DEF DownloadInv
<1>7. CASE WorkerWrites(m)
  <2>1. ~Cached(m) /\ files[m].rev < MaxRevisions
    BY <1>5, <1>7 DEF WorkerWrites, DownloadInv, FilesInStage
  <2>2. \/ files' = [files EXCEPT ![m].state = "partial"]
        \/ files' = [files EXCEPT ![m] =
                        [state |-> "ready", rev |-> files[m].rev + 1]]
    BY <1>7 DEF WorkerWrites
  <2>3. files[m].rev + 1 \in Revisions
    BY <2>1, WhisperAssumption DEF DownloadInv, DownloadTypes, Revisions
  <2>4. DownloadTypes'
    BY <1>2, <2>2, <2>3 DEF DownloadInv, DownloadTypes
  <2>5. \A n \in Models : n # m => files'[n] = files[n]
    BY <2>2 DEF DownloadInv, DownloadTypes
  <2>6. \/ files'[m].state = "ready"
        \/ ~Cached(m) /\ files'[m].rev = files[m].rev
    BY <2>1, <2>2 DEF DownloadInv, DownloadTypes
  <2>7. FilesInStage'
    BY <1>2, <2>1, <2>5, <2>6 DEF DownloadInv, FilesInStage, Active, Cached
  <2> QED
    BY <1>4, <2>4, <2>7 DEF DownloadInv
<1> QED
  BY <1>6, <1>7 DEF WorkerReports, WorkerExits, WorkerDies

\* A deletion goes on to remove only what is not downloaded, and no download
\* begins while it removes.
LEMMA DeletionSteps ==
  ASSUME DownloadInv,
         \/ \E m \in Managed : DeleteAsked(m)
         \/ DeleteChecked \/ DeleteRemoves
  PROVE  DownloadInv'
<1>1. CASE /\ UNCHANGED <<downloadVars, stopping>>
           /\ removal' \in [phase : {"idle", "asked", "removing"},
                             m : Models \cup {None}]
           /\ removal'.phase # "idle" => removal'.m \in Models
           /\ removal'.phase = "removing" => ~Active(removal'.m)
  <2>1. DownloadTypes' /\ FilesInStage'
    BY <1>1 DEF DownloadInv, DownloadTypes, FilesInStage, Active, Cached,
                downloadVars
  <2>2. OwnersInStage'
    BY <1>1 DEF DownloadInv, OwnersInStage, Active, downloadVars
  <2> QED
    BY <2>1, <2>2 DEF DownloadInv
<1>2. CASE \E m \in Managed : DeleteAsked(m)
  <2>1. PICK m \in Models : DeleteAsked(m)
    BY <1>2, WhisperAssumption
  <2> QED
    BY <1>1, <2>1 DEF DeleteAsked
<1>3. CASE DeleteChecked
  <2>1. \/ removal' = NoRemoval
        \/ /\ removal' = [removal EXCEPT !.phase = "removing"]
           /\ ~Active(removal.m)
    BY <1>3 DEF DeleteChecked, InDownload
  <2>2. removal.m \in Models
    BY <1>3 DEF DeleteChecked, DownloadInv, OwnersInStage
  <2>3. UNCHANGED <<downloadVars, stopping>>
    BY <1>3 DEF DeleteChecked
  <2> QED
    BY <1>1, <2>1, <2>2, <2>3 DEF NoRemoval, DownloadInv, DownloadTypes
<1>4. CASE DeleteRemoves
  <2> DEFINE m == removal.m
  <2>1. m \in Models /\ ~Active(m) /\ removal.phase = "removing"
    BY <1>4 DEF DeleteRemoves, DownloadInv, OwnersInStage
  <2>2. /\ \/ files' = [files EXCEPT ![m].state = "partial"]
           \/ files' = [files EXCEPT ![m].state = "none"]
           \/ files' = files
        /\ UNCHANGED <<operation, worker, stopping>>
        /\ removal' \in {removal, NoRemoval}
    BY <1>4 DEF DeleteRemoves
  <2>3. DownloadTypes'
    BY <2>1, <2>2 DEF DownloadInv, DownloadTypes, NoRemoval
  <2>4. OwnersInStage'
    BY <2>2 DEF DownloadInv, OwnersInStage, Active, NoRemoval
  <2>5. \A n \in Models : Active(n) => files'[n] = files[n]
    BY <2>1, <2>2 DEF DownloadInv, DownloadTypes
  <2>6. operation' = operation
    BY <2>2
  <2>7. FilesInStage'
    BY <2>5, <2>6 DEF DownloadInv, OwnersInStage, FilesInStage, Active, Cached
  <2> QED
    BY <2>3, <2>4, <2>7 DEF DownloadInv
<1> QED
  BY <1>2, <1>3, <1>4

\* A shutdown cancels what runs; a restart begins anew.
LEMMA ServiceSteps ==
  ASSUME DownloadInv, Shutdown \/ ShutdownEnds \/ Restart
  PROVE  DownloadInv'
<1>1. CASE Shutdown
  <2> DEFINE Op(m) == [operation[m] EXCEPT !.status = "cancelling"]
  <2>0. \A m \in Models :
          /\ Op(m) \in Downloads /\ Op(m).stage = operation[m].stage
          /\ Op(m).result = operation[m].result
          /\ Op(m).status = "cancelling"
    BY DEF DownloadInv, DownloadTypes, Downloads, States
  <2> HIDE DEF Op
  <2>1. operation' = [m \in Models |-> IF operation[m].status = "running"
                                       THEN Op(m) ELSE operation[m]]
    BY <1>1 DEF Shutdown, Op
  <2>2. UNCHANGED <<files, worker, removal>> /\ stopping' = "waiting"
    BY <1>1 DEF Shutdown
  <2>3. DownloadTypes'
    BY <2>0, <2>1, <2>2 DEF DownloadInv, DownloadTypes
  <2>4. \A m \in Models :
          /\ Active(m)' <=> Active(m)
          /\ operation'[m].stage = operation[m].stage
          /\ operation'[m].result = operation[m].result
    BY <2>0, <2>1 DEF Active
  <2>5. OwnersInStage'
    BY <2>2, <2>4 DEF DownloadInv, OwnersInStage
  <2>6. FilesInStage'
    BY <2>2, <2>4 DEF DownloadInv, FilesInStage, Cached
  <2> QED
    BY <2>3, <2>5, <2>6 DEF DownloadInv
<1>2. CASE ShutdownEnds
  <2>1. DownloadTypes' /\ FilesInStage'
    BY <1>2 DEF ShutdownEnds, DownloadInv, DownloadTypes, FilesInStage, Active,
                Cached, downloadVars
  <2>2. OwnersInStage'
    BY <1>2 DEF ShutdownEnds, DownloadInv, OwnersInStage, Active, downloadVars
  <2> QED
    BY <2>1, <2>2 DEF DownloadInv
<1>3. CASE Restart
  <2>1. NoDownload \in Downloads /\ NoWorker \in Processes
    BY WhisperAssumption DEF NoDownload, NoWorker, Downloads, Processes, States, Stages, Results
  <2>2. /\ operation' = [m \in Models |-> NoDownload]
        /\ worker' = [m \in Models |-> NoWorker] /\ removal' = NoRemoval
        /\ UNCHANGED files /\ stopping' = "no"
    BY <1>3 DEF Restart
  <2>3. DownloadTypes'
    BY <2>1, <2>2 DEF DownloadInv, DownloadTypes, NoRemoval
  <2>4. OwnersInStage' /\ FilesInStage'
    BY <2>2 DEF OwnersInStage, FilesInStage, Active, NoDownload, NoWorker,
                NoRemoval
  <2> QED
    BY <2>3, <2>4 DEF DownloadInv
<1> QED
  BY <1>1, <1>2, <1>3

LEMMA DownloadsKeep == DownloadInv /\ [Next]_vars => DownloadInv'
<1> SUFFICES ASSUME DownloadInv, [Next]_vars PROVE DownloadInv'
  OBVIOUS
<1>1. CASE \E m \in Managed : StartDownload(m) \/ Cancel(m) \/ Supervisor(m)
  BY <1>1, WhisperAssumption, SupervisorMoves, OneDownloadMoves
<1>2. CASE \E m \in Managed :
             \/ WorkerWrites(m) \/ WorkerReports(m) \/ WorkerExits(m)
             \/ WorkerDies(m)
  BY <1>2, WhisperAssumption, WorkerSteps
<1>3. CASE UNCHANGED <<downloadVars, removal, stopping>>
  <2>1. DownloadTypes' /\ OwnersInStage' /\ FilesInStage'
    BY <1>3 DEF DownloadInv, DownloadTypes, OwnersInStage, FilesInStage,
                Active, Cached, downloadVars
  <2> QED
    BY <2>1 DEF DownloadInv
<1>4. CASE \E r \in Requests : \/ \E w \in Wants : Begins(r, w)
                              \/ Lease(r) \/ Loads(r) \/ Release(r)
  BY <1>3, <1>4 DEF Begins, Lease, Loads, Release
<1> QED
  BY <1>1, <1>2, <1>3, <1>4, DeletionSteps, ServiceSteps
     DEF Next, vars

\* While a worker process lives, its download is on the record and nobody
\* removes its files (_run_download_attempt, delete_model).
THEOREM OneOwner == Spec => []FilesHaveOneOwner
<1>1. DownloadInv => FilesHaveOneOwner
  BY DEF DownloadInv, OwnersInStage, FilesHaveOneOwner
<1> QED
  BY <1>1, DownloadInit, DownloadsKeep, PTL DEF Spec

\* A download succeeds only with the whole model in place, and never once its
\* cancel was accepted (_supervise_download, _finish).
THEOREM Successes == Spec => SuccessIsReal
<1> DEFINE Real == \A m \in Models :
             operation'[m].status = "succeeded"
             /\ operation[m].status # "succeeded"
               => files'[m].state = "ready"
                  /\ operation[m].status # "cancelling"
<1>1. ASSUME DownloadInv, [Next]_vars PROVE Real
  <2>1. CASE UNCHANGED operation
    BY <2>1
  <2>2. ASSUME NEW m \in Models, NEW op, operation' = [operation EXCEPT ![m] = op],
               op.status = "succeeded" =>
                 files'[m].state = "ready" /\ operation[m].status # "cancelling"
        PROVE  Real
    BY <2>2, <1>1 DEF DownloadInv, DownloadTypes
  <2>3. CASE \E m \in Managed : StartDownload(m) \/ Cancel(m) \/ Supervisor(m)
    <3>1. PICK m \in Models : StartDownload(m) \/ Cancel(m) \/ Supervisor(m)
      BY <2>3, WhisperAssumption
    <3>2. CASE operation'[m].status = operation[m].status
      <4>1. PICK op : operation' = [operation EXCEPT ![m] = op]
        BY <1>1, <3>1, SupervisorMoves DEF Moves
      <4> QED
        BY <1>1, <3>2, <4>1 DEF DownloadInv, DownloadTypes
    <3>3. CASE StartDownload(m)
      <4>1. CASE Cached(m)
        BY <1>1, <2>2, <3>3, <4>1 DEF StartDownload, Supervises, Cached, Active,
           DownloadInv, DownloadTypes
      <4>2. CASE ~Cached(m)
        <5>1. PICK op \in {[NoDownload EXCEPT !.status = "running",
                                              !.stage = "start"],
                           [NoDownload EXCEPT !.status = "failed"]} :
                operation' = [operation EXCEPT ![m] = op]
          BY <3>3, <4>2 DEF StartDownload
        <5>2. op.status # "succeeded"
          BY <5>1 DEF NoDownload
        <5> QED
          BY <2>2, <5>1, <5>2
      <4> QED
        BY <4>1, <4>2
    <3>4. CASE Cancel(m)
      <4>1. operation'[m].status = "cancelling"
        BY <1>1, <3>4 DEF Cancel, DownloadInv, DownloadTypes, Downloads
      <4>2. PICK op : operation' = [operation EXCEPT ![m] = op]
        BY <1>1, <3>1, SupervisorMoves DEF Moves
      <4> QED
        BY <1>1, <2>2, <4>1, <4>2 DEF DownloadInv, DownloadTypes
    <3>5. CASE Finish(m)
      <4> DEFINE op == [NoDownload EXCEPT !.status = EndOf(operation[m])]
      <4>1. operation' = [operation EXCEPT ![m] = op] /\ UNCHANGED files
        BY <3>5 DEF Finish, Supervises
      <4>2. op.status = EndOf(operation[m])
        BY DEF NoDownload
      <4>3. EndOf(operation[m]) = "succeeded" =>
              /\ operation[m].result = "complete"
              /\ operation[m].status # "cancelling"
        BY DEF EndOf
      <4>4. operation[m].stage = "finish"
        BY <3>5 DEF Finish
      <4>5. op.status = "succeeded" =>
              files'[m].state = "ready" /\ operation[m].status # "cancelling"
        BY <1>1, <4>1, <4>2, <4>3, <4>4 DEF DownloadInv, FilesInStage, Cached
      <4> HIDE DEF op
      <4> QED
        BY <1>1, <4>1, <4>5 DEF DownloadInv, DownloadTypes
    <3>6. CASE StartAttempt(m) \/ ReadsReport(m) \/ WatchEnds(m) \/ ExitSeen(m)
               \/ Reaps(m) \/ Judges(m) \/ WaitEnds(m)
      <4> SUFFICES operation'[m].status = operation[m].status
        BY <3>2
      <4>1. ASSUME NEW st, NEW res, ToStage(m, st, res)
            PROVE  operation'[m].status = operation[m].status
        BY <1>1, <4>1 DEF ToStage, DownloadInv, DownloadTypes, Downloads
      <4>2. CASE Reaps(m)
        BY <1>1, <3>1, <4>2 DEF Reaps, DownloadInv, DownloadTypes, Downloads
      <4>3. CASE Judges(m)
        <5> DEFINE old == operation[m]
        <5>1. operation'[m] =
                IF old.result = "complete" /\ Verified(m)
                THEN [old EXCEPT !.stage = "finish"]
                ELSE IF old.result = "retry" /\ RetryLeft(old)
                THEN [old EXCEPT !.stage = "wait", !.tries = @ + 1]
                ELSE [old EXCEPT !.stage = "finish", !.result = "error"]
          BY <1>1, <3>1, <4>3 DEF Judges, DownloadInv, DownloadTypes
        <5>2. old \in Downloads
          BY <1>1, <3>1 DEF DownloadInv, DownloadTypes
        <5> QED
          BY <5>1, <5>2 DEF Downloads
      <4>4. CASE StartAttempt(m)
        BY <4>1, <4>4 DEF StartAttempt
      <4>5. CASE ReadsReport(m)
        BY <4>1, <4>5 DEF ReadsReport
      <4>6. CASE WatchEnds(m)
        BY <4>1, <4>6 DEF WatchEnds
      <4>7. CASE ExitSeen(m)
        BY <4>1, <4>7 DEF ExitSeen
      <4>8. CASE WaitEnds(m)
        BY <4>1, <4>8 DEF WaitEnds
      <4> QED
        BY <3>6, <4>2, <4>3, <4>4, <4>5, <4>6, <4>7, <4>8
    <3> QED
      BY <3>1, <3>3, <3>4, <3>5, <3>6 DEF Supervisor
  <2>4. CASE Shutdown
    <3>1. \A m \in Models : operation'[m].status \in {operation[m].status, "cancelling"}
      BY <1>1, <2>4 DEF Shutdown, DownloadInv, DownloadTypes, Downloads
    <3> QED
      BY <3>1
  <2>5. CASE Restart
    BY <2>5 DEF Restart, NoDownload
  <2> QED
    BY <1>1, <2>1, <2>3, <2>4, <2>5
       DEF Next, vars, downloadVars, WorkerWrites, WorkerReports, WorkerExits,
           WorkerDies, WorkerStep, DeleteAsked, DeleteChecked, DeleteRemoves,
           ShutdownEnds, Begins, Lease, Loads, Release
<1> QED
  BY <1>1, DownloadInit, DownloadsKeep, PTL DEF Spec, SuccessIsReal

-----------------------------------------------------------------------------
(* Loaded models.                                                          *)

Holders(k) == {r \in Requests : request[r].phase = "decoding" /\ KeyOf(r) = k}

\* The leases of a key are the decodes that run on it.
LeasesAreDecodes ==
  \A k \in Keys : IsFiniteSet(Holders(k)) /\ leases[k] = Cardinality(Holders(k))

\* The request that loads is the one _CACHE_LOCK was given to, and while it
\* does nothing is resident, nor a copy of what it loads anywhere.
LoaderLoads ==
  /\ \A r \in Requests : /\ request[r].phase # "idle" => request[r].want \in Wants
                         /\ request[r].phase = "loading" <=> loader = r
  /\ loader # None => /\ \A k \in Keys : cache[k] = None
                      /\ retired[KeyOf(loader)] = None

CopiesAreThere ==
  \A r \in Requests : request[r].phase = "decoding" => request[r].copy # None

\* What a key holds is the files it names, or files that are gone for good.
KeysAreTrue ==
  \A k \in Keys : \A c \in {cache[k], retired[k]} :
    c # None => k[2] = 0 \/ c.rev = k[2] \/ k[2] < files[ModelOf[k[1]]].rev

\* A transcription saw no later files than there are, and if they are still
\* those it began with, it holds the key of them.
RequestsAreOfFiles ==
  \A r \in Requests : request[r].phase # "idle" =>
    LET m == ModelOf[request[r].want]
    IN  /\ request[r].identity <= files[m].rev
        /\ request[r].phase \in {"loading", "decoding"} =>
             /\ request[r].rev <= files[m].rev
             /\ SameFiles(r) => request[r].rev = request[r].identity

MemoryInv == /\ LeasesAreDecodes /\ LoaderLoads /\ CopiesAreThere
             /\ LeasedStaysLoaded /\ NothingElseInMemory
FilesInv == KeysAreTrue /\ RequestsAreOfFiles /\ CheckpointIsTrue
LoaderInv == LoaderTypes /\ MemoryInv /\ FilesInv

LEMMA NoRequestIsOne == NoRequest \in Transcriptions /\ NoRequest.phase = "idle"
BY WhisperAssumption DEF NoRequest, Transcriptions, Phases, Revisions

LEMMA LoaderInit == Init => LoaderInv
<1> SUFFICES ASSUME Init PROVE LoaderInv
  OBVIOUS
<1> USE WhisperAssumption DEF Init
<1>1. LoaderTypes
  BY NoRequestIsOne DEF LoaderTypes
<1>2. \A r \in Requests : request[r].phase = "idle"
  BY NoRequestIsOne
<1>3. LeasesAreDecodes
  <2>1. \A k : Holders(k) = {}
    BY <1>2 DEF Holders
  <2> QED
    BY <2>1, FS_EmptySet DEF LeasesAreDecodes
<1>4. LoaderLoads /\ CopiesAreThere /\ LeasedStaysLoaded /\ NothingElseInMemory
  BY <1>2 DEF LoaderLoads, CopiesAreThere, LeasedStaysLoaded,
              NothingElseInMemory
<1>5. FilesInv
  BY <1>2 DEF FilesInv, KeysAreTrue, RequestsAreOfFiles, CheckpointIsTrue
<1> QED
  BY <1>1, <1>3, <1>4, <1>5 DEF LoaderInv, MemoryInv

\* The revision of a model's files never falls, and files that are complete
\* anew have a new one.
FilesGrow ==
  \A m \in Models :
    /\ files'[m].rev >= files[m].rev
    /\ files'[m].state = "ready" /\ files'[m].rev = files[m].rev
         => files[m].state = "ready"

LEMMA FilesOnlyGrow ==
  ASSUME DownloadInv, DownloadInv', Next
  PROVE  FilesGrow
<1>1. \A m \in Models : files[m].rev \in Nat
  BY WhisperAssumption DEF DownloadInv, DownloadTypes, Revisions
<1>2. CASE UNCHANGED files
  BY <1>1, <1>2 DEF FilesGrow
<1>3. CASE \E m \in Managed : WorkerWrites(m)
  <2>1. PICK m \in Models : WorkerWrites(m)
    BY <1>3, WhisperAssumption
  <2>2. \/ files' = [files EXCEPT ![m].state = "partial"]
        \/ files' = [files EXCEPT ![m] =
                        [state |-> "ready", rev |-> files[m].rev + 1]]
    BY <2>1 DEF WorkerWrites
  <2> QED
    BY <1>1, <2>1, <2>2 DEF DownloadInv, DownloadTypes, FilesGrow
<1>4. CASE DeleteRemoves
  <2>1. removal.m \in Models
    BY <1>4 DEF DeleteRemoves, DownloadInv, OwnersInStage
  <2>2. \/ files' = [files EXCEPT ![removal.m].state = "partial"]
        \/ files' = [files EXCEPT ![removal.m].state = "none"]
        \/ files' = files
    BY <1>4 DEF DeleteRemoves
  <2> QED
    BY <1>1, <2>1, <2>2 DEF DownloadInv, DownloadTypes, FilesGrow
<1> QED
  BY <1>2, <1>3, <1>4
     DEF Next, downloadVars, StartDownload, Cancel, Supervisor, StartAttempt,
         ReadsReport, WatchEnds, ExitSeen, Reaps, Judges, WaitEnds, Finish,
         Supervises, WorkerReports, WorkerExits, WorkerDies, DeleteAsked,
         DeleteChecked, Shutdown, ShutdownEnds, Restart, Begins, Lease, Loads,
         Release

\* Steps of the downloads and of a deletion leave what is loaded alone.
LEMMA OthersKeepLoader ==
  ASSUME LoaderInv, DownloadInv, DownloadInv', FilesGrow,
         UNCHANGED <<loaderVars, request, checkpoints>>
  PROVE  LoaderInv'
<1> USE WhisperAssumption
<1>1. LoaderTypes'
  BY DEF LoaderInv, LoaderTypes, loaderVars
<1>2. MemoryInv'
  <2>1. \A k : Holders(k)' = Holders(k)
    BY DEF Holders, KeyOf
  <2>2. LeasesAreDecodes'
    BY <2>1 DEF LoaderInv, MemoryInv, LeasesAreDecodes, loaderVars
  <2> QED
    BY <2>2 DEF LoaderInv, MemoryInv, LoaderLoads, CopiesAreThere,
                LeasedStaysLoaded, NothingElseInMemory, KeyOf, loaderVars
<1>3. \A m \in Models : files[m].rev \in Nat /\ files'[m].rev \in Nat
  BY DEF DownloadInv, DownloadTypes, Revisions
<1>4. KeysAreTrue'
  BY <1>3 DEF LoaderInv, LoaderTypes, FilesInv, KeysAreTrue, FilesGrow,
              loaderVars, Keys, Revisions
<1>5. ASSUME NEW r \in Requests, request[r].phase # "idle"
      PROVE  LET m == ModelOf[request[r].want]
             IN  /\ request[r].identity <= files'[m].rev
                 /\ request[r].phase \in {"loading", "decoding"} =>
                      /\ request[r].rev <= files'[m].rev
                      /\ SameFiles(r)' => request[r].rev = request[r].identity
  <2> DEFINE m == ModelOf[request[r].want]
  <2>1. m \in Models
    BY <1>5 DEF LoaderInv, MemoryInv, LoaderLoads
  <2>2. request[r].identity \in Nat /\ request[r].rev \in Nat
    BY DEF LoaderInv, LoaderTypes, Transcriptions, Revisions
  <2>3. /\ request[r].identity <= files[m].rev
        /\ request[r].phase \in {"loading", "decoding"} =>
             /\ request[r].rev <= files[m].rev
             /\ SameFiles(r) => request[r].rev = request[r].identity
    BY <1>5 DEF LoaderInv, FilesInv, RequestsAreOfFiles
  <2>4. SameFiles(r)' => SameFiles(r)
    BY <1>3, <2>1, <2>2, <2>3 DEF SameFiles, Revision, Cached, FilesGrow
  <2> QED
    BY <1>3, <2>1, <2>2, <2>3, <2>4 DEF FilesGrow
<1>6. RequestsAreOfFiles'
  BY <1>5 DEF RequestsAreOfFiles
<1> QED
  BY <1>1, <1>2, <1>4, <1>6 DEF LoaderInv, FilesInv, CheckpointIsTrue

\* A decode's key is leased; if its copy is resident, no other is retired.
LEMMA DecodeIsLeased ==
  ASSUME LoaderTypes, MemoryInv, NEW r \in Requests,
         request[r].phase = "decoding"
  PROVE  /\ KeyOf(r) \in Keys /\ leases[KeyOf(r)] \in Nat \ {0}
         /\ \/ cache[KeyOf(r)] = request[r].copy /\ retired[KeyOf(r)] = None
            \/ retired[KeyOf(r)] = request[r].copy /\ cache[KeyOf(r)] = None
<1> DEFINE k == KeyOf(r)
<1>1. k \in Keys
  BY DEF LoaderTypes, Transcriptions, MemoryInv, LoaderLoads, KeyOf, Keys
<1>2. r \in Holders(k) /\ IsFiniteSet(Holders(k))
  BY <1>1 DEF Holders, MemoryInv, LeasesAreDecodes
<1>3. Cardinality(Holders(k)) \in Nat /\ Cardinality(Holders(k)) # 0
  BY <1>2, FS_CardinalityType, FS_EmptySet
<1>4. leases[k] \in Nat \ {0}
  BY <1>1, <1>3 DEF MemoryInv, LeasesAreDecodes
<1> QED
  BY <1>1, <1>4 DEF MemoryInv, LeasedStaysLoaded, NothingElseInMemory,
                    CopiesAreThere

\* Only one request changes, and neither before nor after is it a decode.
LEMMA NoDecodeChanges ==
  ASSUME LoaderTypes, MemoryInv, UNCHANGED leases,
         NEW r \in Requests, NEW new,
         request' = [request EXCEPT ![r] = new],
         request[r].phase # "decoding", new.phase # "decoding"
  PROVE  LeasesAreDecodes'
<1>1. \A q \in Requests : request'[q] = IF q = r THEN new ELSE request[q]
  BY DEF LoaderTypes
<1>2. \A k : Holders(k)' = Holders(k)
  BY <1>1 DEF Holders, KeyOf
<1> QED
  BY <1>2 DEF MemoryInv, LeasesAreDecodes

LEMMA BeginsKeeps ==
  ASSUME DownloadInv, LoaderInv, NEW r \in Requests, NEW w \in Wants,
         Begins(r, w)
  PROVE  LoaderInv'
<1> USE WhisperAssumption
<1> DEFINE new == [NoRequest EXCEPT !.phase = "waiting", !.want = w,
                     !.identity = Revision(ModelOf[w])]
<1>1. /\ request' = [request EXCEPT ![r] = new] /\ request[r].phase = "idle"
      /\ UNCHANGED <<files, cache, retired, leases, loader, checkpoints>>
  BY DEF Begins, downloadVars, loaderVars
<1>2. ModelOf[w] \in Models /\ files[ModelOf[w]].rev \in Revisions
  BY DEF DownloadInv, DownloadTypes
<1>3. Revision(ModelOf[w]) \in Revisions
      /\ Revision(ModelOf[w]) <= files[ModelOf[w]].rev
  BY <1>2 DEF Revision, Revisions
<1>4. /\ new \in Transcriptions /\ new.phase = "waiting" /\ new.want = w
      /\ new.identity = Revision(ModelOf[w])
  BY <1>3, NoRequestIsOne DEF Transcriptions, Phases
<1> HIDE DEF new
<1>5. LoaderTypes'
  BY <1>1, <1>4 DEF LoaderInv, LoaderTypes
<1>6. \A q \in Requests : request'[q] = IF q = r THEN new ELSE request[q]
  BY <1>1 DEF LoaderInv, LoaderTypes
<1>7. \A q \in Requests : q # r => KeyOf(q)' = KeyOf(q)
  BY <1>6 DEF KeyOf
<1>8. LeasesAreDecodes'
  BY <1>1, <1>4, NoDecodeChanges DEF LoaderInv
<1>9. LoaderLoads'
  <2>1. loader # None => loader # r /\ loader \in Requests
    BY <1>1 DEF LoaderInv, LoaderTypes, MemoryInv, LoaderLoads
  <2> QED
    BY <1>1, <1>4, <1>6, <1>7, <2>1 DEF LoaderInv, MemoryInv, LoaderLoads
<1>10. CopiesAreThere' /\ LeasedStaysLoaded' /\ NothingElseInMemory'
  BY <1>1, <1>4, <1>6, <1>7
     DEF LoaderInv, MemoryInv, CopiesAreThere, LeasedStaysLoaded,
         NothingElseInMemory
<1>11. KeysAreTrue' /\ CheckpointIsTrue'
  BY <1>1 DEF LoaderInv, FilesInv, KeysAreTrue, CheckpointIsTrue
<1>12. \A q \in Requests : q # r => SameFiles(q)' = SameFiles(q)
  BY <1>1, <1>6 DEF SameFiles, Revision, Cached
<1>13. RequestsAreOfFiles'
  BY <1>1, <1>3, <1>4, <1>6, <1>12 DEF LoaderInv, FilesInv, RequestsAreOfFiles
<1> QED
  BY <1>5, <1>8, <1>9, <1>10, <1>11, <1>13 DEF LoaderInv, MemoryInv, FilesInv

\* One more decode is one more lease of its key.
LEMMA DecodeCounts ==
  ASSUME LoaderTypes, MemoryInv, NEW r \in Requests,
         request[r].phase # "decoding", NEW k \in Keys, NEW new,
         request' = [request EXCEPT ![r] = new],
         new.phase = "decoding", <<new.want, new.rev>> = k,
         leases' = [leases EXCEPT ![k] = leases[k] + 1]
  PROVE  LeasesAreDecodes'
<1>1. \A q \in Requests : request'[q] = IF q = r THEN new ELSE request[q]
  BY DEF LoaderTypes
<1>2. r \notin Holders(k)
  BY DEF Holders
<1>3. Holders(k)' = Holders(k) \cup {r}
  BY <1>1 DEF Holders, KeyOf
<1>4. \A j : j # k => Holders(j)' = Holders(j)
  BY <1>1 DEF Holders, KeyOf
<1>5. /\ IsFiniteSet(Holders(k)')
      /\ Cardinality(Holders(k)') = Cardinality(Holders(k)) + 1
  BY <1>2, <1>3, FS_AddElement DEF MemoryInv, LeasesAreDecodes
<1> QED
  BY <1>4, <1>5 DEF MemoryInv, LeasesAreDecodes, LoaderTypes

\* What a request that begins to hold or to load a copy leaves of the others:
\* they are as they were, and their copies too, resident or retired.
OthersStay(r) ==
  /\ \A q \in Requests : q # r /\ request[q].phase = "decoding" =>
       request[q].copy \in {cache'[KeyOf(q)], retired'[KeyOf(q)]}
  /\ \A k \in Keys : /\ cache'[k] \in {cache[k], retired[k], None}
                     /\ retired'[k] \in {cache[k], retired[k], None}

LEMMA LeaseKeeps ==
  ASSUME DownloadInv, LoaderInv, NEW r \in Requests, Lease(r)
  PROVE  LoaderInv'
<1> USE WhisperAssumption
<1> DEFINE w == request[r].want
           n == Revision(ModelOf[w])
           k == <<w, n>>
           others == Keys \ {k}
<1>1. /\ request[r].phase = "waiting" /\ loader = None /\ w \in Wants
      /\ UNCHANGED <<files, checkpoints>>
  BY DEF Lease, CacheFree, downloadVars, LoaderInv, MemoryInv, LoaderLoads
<1>2. /\ ModelOf[w] \in Models /\ files[ModelOf[w]].rev \in Revisions
      /\ n \in Revisions /\ n <= files[ModelOf[w]].rev
      /\ n # 0 => n = files[ModelOf[w]].rev
  BY <1>1 DEF DownloadInv, DownloadTypes, Revision, Revisions
<1>3. k \in Keys /\ k[1] = w /\ k[2] = n
  BY <1>1, <1>2 DEF Keys
<1> HIDE DEF k
<1>old. request[r] \in Transcriptions
  BY DEF LoaderInv, LoaderTypes
<1>leased. \A q \in Requests : request[q].phase = "decoding" =>
      /\ KeyOf(q) \in Keys /\ leases[KeyOf(q)] \in Nat \ {0}
      /\ \/ /\ cache[KeyOf(q)] = request[q].copy
            /\ retired[KeyOf(q)] = None
         \/ /\ retired[KeyOf(q)] = request[q].copy
            /\ cache[KeyOf(q)] = None
  BY DecodeIsLeased DEF LoaderInv
<1>types. /\ cache \in [Keys -> Copies \cup {None}]
          /\ retired \in [Keys -> Copies \cup {None}]
          /\ leases \in [Keys -> Nat]
  BY DEF LoaderInv, LoaderTypes
<1>4. ASSUME NEW c \in Copies, NEW new,
             new = [request[r] EXCEPT !.phase = "decoding", !.rev = n, !.copy = c],
             request' = [request EXCEPT ![r] = new],
             leases' = [leases EXCEPT ![k] = leases[k] + 1],
             UNCHANGED loader, OthersStay(r),
             cache' \in [Keys -> Copies \cup {None}],
             retired' \in [Keys -> Copies \cup {None}],
             cache'[k] = c, NothingElseInMemory'
      PROVE  LoaderInv'
  <2>1. /\ new \in Transcriptions /\ new.phase = "decoding" /\ new.want = w
        /\ new.rev = n /\ new.copy = c /\ new.identity = request[r].identity
    BY <1>old, <1>2, <1>4 DEF Transcriptions, Phases
  <2>2. \A q \in Requests : request'[q] = IF q = r THEN new ELSE request[q]
    BY <1>4 DEF LoaderInv, LoaderTypes
  <2>3. KeyOf(r)' = k /\ \A q \in Requests : q # r => KeyOf(q)' = KeyOf(q)
    BY <2>1, <2>2 DEF KeyOf, k
  <2>4. LoaderTypes'
    BY <1>1, <1>3, <1>4, <1>types, <2>1 DEF LoaderInv, LoaderTypes
  <2>5. LeasesAreDecodes'
    BY <1>1, <1>3, <1>4, <2>1, DecodeCounts DEF LoaderInv, k
  <2>6. LoaderLoads'
    BY <1>1, <1>4, <2>1, <2>2 DEF LoaderInv, LoaderTypes, MemoryInv, LoaderLoads
  <2>7. CopiesAreThere'
    BY <1>4, <2>1, <2>2, NoCopyAssumption
       DEF LoaderInv, MemoryInv, CopiesAreThere
  <2>8. LeasedStaysLoaded'
    <3> SUFFICES ASSUME NEW q \in Requests, request'[q].phase = "decoding"
                 PROVE  request'[q].copy \in {cache'[KeyOf(q)'], retired'[KeyOf(q)']}
      BY DEF LeasedStaysLoaded
    <3>1. CASE q = r
      <4>1. request'[q].copy = c /\ KeyOf(q)' = k
        BY <2>1, <2>2, <2>3, <3>1
      <4> QED
        BY <1>4, <4>1
    <3>2. CASE q # r
      <4>1. request'[q] = request[q] /\ KeyOf(q)' = KeyOf(q)
        BY <2>2, <2>3, <3>2
      <4>2. request[q].copy \in {cache'[KeyOf(q)], retired'[KeyOf(q)]}
        BY <1>4, <3>2, <4>1 DEF OthersStay
      <4> QED
        BY <4>1, <4>2
    <3> QED
      BY <3>1, <3>2
  <2>9. KeysAreTrue' /\ CheckpointIsTrue'
    BY <1>1, <1>4 DEF LoaderInv, FilesInv, KeysAreTrue, CheckpointIsTrue, OthersStay
  <2>10. \A q \in Requests : SameFiles(q)' = SameFiles(q)
    BY <1>1, <2>1, <2>2 DEF SameFiles, Revision, Cached
  <2>11. RequestsAreOfFiles'
    <3>1. SameFiles(r) => n = request[r].identity
      BY DEF SameFiles
    <3> QED
      BY <1>1, <1>2, <2>1, <2>2, <2>10, <3>1
         DEF LoaderInv, FilesInv, RequestsAreOfFiles
  <2> QED
    BY <1>4, <2>4, <2>5, <2>6, <2>7, <2>8, <2>9, <2>11
       DEF LoaderInv, MemoryInv, FilesInv
<1>5. CASE cache[k] # None
  <2> DEFINE new == [request[r] EXCEPT !.phase = "decoding", !.rev = n,
                                       !.copy = cache[k]]
  <2>1. /\ UNCHANGED <<cache, retired, loader>>
        /\ leases' = [leases EXCEPT ![k] = leases[k] + 1]
        /\ request' = [request EXCEPT ![r] = new]
    BY <1>3, <1>5 DEF Lease, k, LoaderInv, LoaderTypes, Transcriptions
  <2>2. OthersStay(r)
    BY <1>leased, <2>1 DEF OthersStay
  <2>3. NothingElseInMemory'
    BY <1>3, <1>types, <2>1 DEF LoaderInv, MemoryInv, NothingElseInMemory
  <2> QED
    BY <1>3, <1>4, <1>5, <1>types, <2>1, <2>2, <2>3
<1>6. CASE cache[k] = None /\ retired[k] # None
  <2> DEFINE new == [request[r] EXCEPT !.phase = "decoding", !.rev = n,
                                       !.copy = retired[k]]
  <2>1. /\ cache' = [Evicted(others) EXCEPT ![k] = retired[k]]
        /\ retired' = [RetiredBy(others) EXCEPT ![k] = None]
        /\ UNCHANGED loader
        /\ leases' = [leases EXCEPT ![k] = leases[k] + 1]
        /\ request' = [request EXCEPT ![r] = new]
    BY <1>3, <1>6 DEF Lease, Reinstated, k, LoaderInv, LoaderTypes, Transcriptions
  <2>2. \A j \in Keys :
          /\ cache'[j] = IF j = k THEN retired[k] ELSE None
          /\ retired'[j] = IF j = k THEN None
                           ELSE IF cache[j] # None /\ leases[j] > 0
                           THEN cache[j] ELSE retired[j]
    BY <1>3, <2>1 DEF Evicted, RetiredBy, Retired
  <2>3. /\ cache' \in [Keys -> Copies \cup {None}]
        /\ retired' \in [Keys -> Copies \cup {None}]
    BY <1>3, <1>types, <2>1 DEF Evicted, RetiredBy, Retired
  <2>4. OthersStay(r)
    <3>1. ASSUME NEW q \in Requests, request[q].phase = "decoding"
          PROVE  request[q].copy \in {cache'[KeyOf(q)], retired'[KeyOf(q)]}
      <4>1. CASE KeyOf(q) = k
        BY <1>6, <1>leased, <2>2, <3>1, <4>1
      <4>2. CASE KeyOf(q) # k
        BY <1>leased, <2>2, <3>1, <4>2
      <4> QED
        BY <4>1, <4>2
    <3>2. \A j \in Keys : /\ cache'[j] \in {cache[j], retired[j], None}
                         /\ retired'[j] \in {cache[j], retired[j], None}
      BY <2>2
    <3> QED
      BY <3>1, <3>2 DEF OthersStay
  <2>5. NothingElseInMemory'
    <3> HIDE DEF others
    <3>1. \A j \in Keys : cache'[j] # None => j = k
      BY <2>2
    <3>2. ASSUME NEW j \in Keys, retired'[j] # None
          PROVE  cache'[j] = None /\ leases'[j] > 0
      <4>1. j # k
        BY <2>2, <3>2
      <4>2. leases'[j] = leases[j]
        BY <1>types, <2>1, <4>1
      <4>3. leases[j] > 0
        BY <2>2, <3>2, <4>1 DEF LoaderInv, MemoryInv, NothingElseInMemory
      <4> QED
        BY <2>2, <4>1, <4>2, <4>3
    <3> QED
      BY <3>1, <3>2 DEF NothingElseInMemory
  <2> HIDE DEF others
  <2>6. cache'[k] = retired[k] /\ retired[k] \in Copies
    BY <1>3, <1>6, <1>types, <2>2
  <2> QED
    BY <1>4, <2>1, <2>3, <2>4, <2>5, <2>6
<1>7. CASE cache[k] = None /\ retired[k] = None
  <2> DEFINE new == [request[r] EXCEPT !.phase = "loading", !.rev = n]
  <2>1. /\ cache' = Evicted(Keys) /\ retired' = RetiredBy(Keys)
        /\ loader' = r /\ UNCHANGED leases
        /\ request' = [request EXCEPT ![r] = new]
    BY <1>3, <1>7 DEF Lease, Reinstated, k, LoaderInv, LoaderTypes, Transcriptions
  <2>2. \A j \in Keys :
          /\ cache'[j] = None
          /\ retired'[j] = IF cache[j] # None /\ leases[j] > 0
                           THEN cache[j] ELSE retired[j]
    BY <2>1 DEF Evicted, RetiredBy, Retired
  <2>3. /\ new \in Transcriptions /\ new.phase = "loading" /\ new.want = w
        /\ new.rev = n /\ new.copy = request[r].copy
        /\ new.identity = request[r].identity
    BY <1>old, <1>2 DEF Transcriptions, Phases
  <2> HIDE DEF new
  <2>4. \A q \in Requests : request'[q] = IF q = r THEN new ELSE request[q]
    BY <2>1 DEF LoaderInv, LoaderTypes
  <2>5. KeyOf(r)' = k /\ \A q \in Requests : q # r => KeyOf(q)' = KeyOf(q)
    BY <2>3, <2>4 DEF KeyOf, k
  <2>6. LoaderTypes'
    <3>1. /\ cache' \in [Keys -> Copies \cup {None}]
          /\ retired' \in [Keys -> Copies \cup {None}]
      BY <1>types, <2>1 DEF Evicted, RetiredBy, Retired
    <3> QED
      BY <1>1, <2>1, <2>3, <3>1 DEF LoaderInv, LoaderTypes
  <2>7. LeasesAreDecodes'
    BY <1>1, <2>1, <2>3, NoDecodeChanges DEF LoaderInv
  <2>8. LoaderLoads'
    <3>1. retired'[k] = None
      BY <1>3, <1>7, <2>2
    <3>2. r # None
      OBVIOUS
    <3> QED
      BY <1>1, <2>1, <2>2, <2>3, <2>4, <2>5, <3>1, <3>2
         DEF LoaderInv, LoaderTypes, MemoryInv, LoaderLoads
  <2>9. CopiesAreThere'
    BY <2>3, <2>4 DEF LoaderInv, MemoryInv, CopiesAreThere
  <2>10. LeasedStaysLoaded'
    BY <1>leased, <2>2, <2>3, <2>4, <2>5 DEF LeasedStaysLoaded
  <2>11. NothingElseInMemory'
    BY <2>1, <2>2 DEF LoaderInv, MemoryInv, NothingElseInMemory
  <2>12. KeysAreTrue' /\ CheckpointIsTrue'
    BY <1>1, <2>2 DEF LoaderInv, FilesInv, KeysAreTrue, CheckpointIsTrue
  <2>13. \A q \in Requests : SameFiles(q)' = SameFiles(q)
    BY <1>1, <2>3, <2>4 DEF SameFiles, Revision, Cached
  <2>14. RequestsAreOfFiles'
    <3>1. SameFiles(r) => n = request[r].identity
      BY DEF SameFiles
    <3> QED
      BY <1>1, <1>2, <2>3, <2>4, <2>13, <3>1
         DEF LoaderInv, FilesInv, RequestsAreOfFiles
  <2> QED
    BY <2>6, <2>7, <2>8, <2>9, <2>10, <2>11, <2>12, <2>14
       DEF LoaderInv, MemoryInv, FilesInv
<1> QED
  BY <1>5, <1>6, <1>7

\* The weights that are loaded are those of the files there now: of the key, or
\* later ones, if they changed under the load.
LEMMA LoadsKeeps ==
  ASSUME DownloadInv, LoaderInv, NEW r \in Requests, Loads(r)
  PROVE  LoaderInv'
<1> USE WhisperAssumption
<1> DEFINE k == KeyOf(r)
           m == ModelOf[request[r].want]
<1>1. /\ request[r].phase = "loading" /\ loader = r /\ loader' = None
      /\ UNCHANGED <<files, retired, checkpoints>>
      /\ request[r].want \in Wants /\ request[r] \in Transcriptions
  BY DEF Loads, downloadVars, LoaderInv, LoaderTypes, MemoryInv, LoaderLoads
<1>2. /\ m \in Models /\ files[m].rev \in Revisions
      /\ request[r].rev \in Revisions /\ request[r].rev <= files[m].rev
      /\ k \in Keys /\ k[1] = request[r].want /\ k[2] = request[r].rev
  BY <1>1 DEF DownloadInv, DownloadTypes, Transcriptions, KeyOf, Keys,
              LoaderInv, FilesInv, RequestsAreOfFiles
<1>3. r # None /\ retired[k] = None /\ \A j \in Keys : cache[j] = None
  BY <1>1 DEF LoaderInv, MemoryInv, LoaderLoads
<1>4. ASSUME NEW q \in Requests, request[q].phase = "decoding"
      PROVE  /\ KeyOf(q) \in Keys /\ KeyOf(q) # k /\ q # r
             /\ request[q].copy = retired[KeyOf(q)]
  <2>1. KeyOf(q) \in Keys /\ request[q].copy \in {cache[KeyOf(q)], retired[KeyOf(q)]}
        /\ request[q].copy # None
    BY <1>4, DecodeIsLeased
       DEF LoaderInv, MemoryInv, LeasedStaysLoaded, CopiesAreThere
  <2> QED
    BY <1>1, <1>3, <1>4, <2>1
<1>types. /\ cache \in [Keys -> Copies \cup {None}]
          /\ retired \in [Keys -> Copies \cup {None}]
          /\ leases \in [Keys -> Nat]
  BY DEF LoaderInv, LoaderTypes
<1>5. ASSUME NEW c \in Copies, c.rev = files[m].rev,
             cache' = [cache EXCEPT ![k] = c],
             leases' = [leases EXCEPT ![k] = leases[k] + 1],
             request' = [request EXCEPT ![r] = [request[r] EXCEPT
                           !.phase = "decoding", !.copy = c]]
      PROVE  LoaderInv'
  <2> DEFINE new == [request[r] EXCEPT !.phase = "decoding", !.copy = c]
  <2>1. /\ new \in Transcriptions /\ new.phase = "decoding"
        /\ new.want = request[r].want /\ new.rev = request[r].rev
        /\ new.copy = c /\ new.identity = request[r].identity
    BY <1>1, <1>5 DEF Transcriptions, Phases
  <2>2. request' = [request EXCEPT ![r] = new]
    BY <1>5
  <2> HIDE DEF new
  <2>3. \A q \in Requests : request'[q] = IF q = r THEN new ELSE request[q]
    BY <2>2 DEF LoaderInv, LoaderTypes
  <2>4. \A q \in Requests : KeyOf(q)' = KeyOf(q)
    BY <2>1, <2>3 DEF KeyOf
  <2>5. \A j \in Keys : cache'[j] = IF j = k THEN c ELSE None
    BY <1>2, <1>3, <1>5, <1>types
  <2>6. LoaderTypes'
    BY <1>1, <1>2, <1>5, <1>types, <2>1, <2>2 DEF LoaderInv, LoaderTypes
  <2>7. LeasesAreDecodes'
    <3>1. <<new.want, new.rev>> = k
      BY <2>1 DEF KeyOf
    <3> HIDE DEF k
    <3> QED
      BY <1>1, <1>2, <1>5, <2>1, <2>2, <3>1, DecodeCounts DEF LoaderInv
  <2>8. LoaderLoads'
    BY <1>1, <1>3, <2>1, <2>3 DEF LoaderInv, LoaderTypes, MemoryInv, LoaderLoads
  <2>9. CopiesAreThere'
    BY <1>5, <2>1, <2>3, NoCopyAssumption
       DEF LoaderInv, MemoryInv, CopiesAreThere
  <2>10. LeasedStaysLoaded'
    <3>1. ASSUME NEW q \in Requests, request'[q].phase = "decoding"
          PROVE  request'[q].copy \in {cache'[KeyOf(q)'], retired'[KeyOf(q)']}
      <4>1. CASE q = r
        BY <1>2, <2>1, <2>3, <2>4, <2>5, <4>1
      <4>2. CASE q # r
        BY <1>1, <1>4, <2>3, <2>4, <3>1, <4>2
      <4> QED
        BY <4>1, <4>2
    <3> QED
      BY <3>1 DEF LeasedStaysLoaded
  <2>11. NothingElseInMemory'
    <3>1. \A j \in Keys : leases[j] > 0 => leases'[j] > 0
      BY <1>2, <1>5, <1>types
    <3> HIDE DEF k
    <3> QED
      BY <1>1, <1>2, <1>3, <2>5, <3>1
         DEF LoaderInv, MemoryInv, NothingElseInMemory
  <2>12. KeysAreTrue' /\ CheckpointIsTrue'
    <3>1. k[2] = 0 \/ c.rev = k[2] \/ k[2] < files[ModelOf[k[1]]].rev
      BY <1>2, <1>5 DEF Revisions
    <3> HIDE DEF k
    <3> QED
      BY <1>1, <1>2, <2>5, <3>1
         DEF LoaderInv, FilesInv, KeysAreTrue, CheckpointIsTrue
  <2>13. \A q \in Requests : SameFiles(q)' = SameFiles(q)
    BY <1>1, <2>1, <2>3 DEF SameFiles, Revision, Cached
  <2>14. RequestsAreOfFiles'
    BY <1>1, <2>1, <2>3, <2>13 DEF LoaderInv, FilesInv, RequestsAreOfFiles
  <2> QED
    BY <2>6, <2>7, <2>8, <2>9, <2>10, <2>11, <2>12, <2>14
       DEF LoaderInv, MemoryInv, FilesInv
<1>6. CASE request' = [request EXCEPT ![r] = NoRequest] /\ UNCHANGED <<cache, leases>>
  <2>1. \A q \in Requests : request'[q] = IF q = r THEN NoRequest ELSE request[q]
    BY <1>6 DEF LoaderInv, LoaderTypes
  <2>2. \A q \in Requests : q # r => KeyOf(q)' = KeyOf(q)
    BY <2>1 DEF KeyOf
  <2>3. LoaderTypes'
    BY <1>1, <1>6, NoRequestIsOne DEF LoaderInv, LoaderTypes
  <2>4. LeasesAreDecodes'
    BY <1>1, <1>6, NoRequestIsOne, NoDecodeChanges DEF LoaderInv
  <2>5. LoaderLoads'
    BY <1>1, <1>3, <2>1, NoRequestIsOne
       DEF LoaderInv, LoaderTypes, MemoryInv, LoaderLoads
  <2>6. CopiesAreThere' /\ LeasedStaysLoaded' /\ NothingElseInMemory'
    BY <1>1, <1>6, <2>1, <2>2, NoRequestIsOne
       DEF LoaderInv, MemoryInv, CopiesAreThere, LeasedStaysLoaded,
           NothingElseInMemory
  <2>7. KeysAreTrue' /\ CheckpointIsTrue'
    BY <1>1, <1>6 DEF LoaderInv, FilesInv, KeysAreTrue, CheckpointIsTrue
  <2>8. \A q \in Requests : q # r => SameFiles(q)' = SameFiles(q)
    BY <1>1, <2>1 DEF SameFiles, Revision, Cached
  <2>9. RequestsAreOfFiles'
    BY <1>1, <2>1, <2>8, NoRequestIsOne DEF LoaderInv, FilesInv, RequestsAreOfFiles
  <2> QED
    BY <2>3, <2>4, <2>5, <2>6, <2>7, <2>9 DEF LoaderInv, MemoryInv, FilesInv
<1>7. CASE ~(request' = [request EXCEPT ![r] = NoRequest]
             /\ UNCHANGED <<cache, leases>>)
  <2> DEFINE id == CHOOSE id \in Instances : Unused(id)
             c == [id |-> id, rev |-> files[m].rev]
  <2>1. /\ \E i \in Instances : Unused(i)
        /\ cache' = [cache EXCEPT ![k] = c]
        /\ leases' = [leases EXCEPT ![k] = leases[k] + 1]
        /\ request' = [request EXCEPT ![r].phase = "decoding", ![r].copy = c]
    BY <1>7 DEF Loads
  <2>2. id \in Instances
    BY <2>1
  <2>3. c \in Copies /\ c.rev = files[m].rev
    BY <1>2, <2>2 DEF Copies
  <2>4. request' = [request EXCEPT ![r] = [request[r] EXCEPT
                           !.phase = "decoding", !.copy = c]]
    BY <2>1 DEF LoaderInv, LoaderTypes, Transcriptions
  <2> HIDE DEF c, k
  <2> QED
    BY <1>5, <2>1, <2>3, <2>4
<1> QED
  BY <1>6, <1>7

\* The last lease of a key goes with its last decode, and what is saved is of
\* the files its key names.
LEMMA ReleaseKeeps ==
  ASSUME DownloadInv, LoaderInv, NEW r \in Requests, Release(r)
  PROVE  LoaderInv'
<1> USE WhisperAssumption
<1> DEFINE k == KeyOf(r)
           m == ModelOf[request[r].want]
<1>1. /\ request[r].phase = "decoding" /\ loader = None
      /\ UNCHANGED <<files, cache, loader>>
      /\ leases' = [leases EXCEPT ![k] = leases[k] - 1]
      /\ retired' = [retired EXCEPT ![k] = IF leases[k] = 1 THEN None
                                           ELSE retired[k]]
      /\ request' = [request EXCEPT ![r] = NoRequest]
  BY DEF Release, CacheFree, LastLease, downloadVars
<1>2. k \in Keys /\ leases[k] \in Nat \ {0}
  BY <1>1, DecodeIsLeased DEF LoaderInv
<1>3. \A q \in Requests : request'[q] = IF q = r THEN NoRequest ELSE request[q]
  BY <1>1 DEF LoaderInv, LoaderTypes
<1>4. \A q \in Requests : q # r => KeyOf(q)' = KeyOf(q)
  BY <1>3 DEF KeyOf
<1>5. ASSUME NEW q \in Requests, q # r, request[q].phase = "decoding",
             KeyOf(q) = k
      PROVE  leases[k] # 1
  <2>1. {q, r} \subseteq Holders(k) /\ IsFiniteSet(Holders(k))
        /\ leases[k] = Cardinality(Holders(k))
    BY <1>1, <1>2, <1>5 DEF Holders, LoaderInv, MemoryInv, LeasesAreDecodes
  <2>2. ~ \E x : Holders(k) = {x}
    BY <1>5, <2>1
  <2> QED
    BY <2>1, <2>2, FS_Singleton
<1>types. /\ cache \in [Keys -> Copies \cup {None}]
          /\ retired \in [Keys -> Copies \cup {None}]
          /\ leases \in [Keys -> Nat]
  BY DEF LoaderInv, LoaderTypes
<1>6. \A j \in Keys :
        /\ retired'[j] = IF j = k /\ leases[k] = 1 THEN None ELSE retired[j]
        /\ leases'[j] = IF j = k THEN leases[k] - 1 ELSE leases[j]
  BY <1>1, <1>2, <1>types
<1>7. checkpoints' \subseteq [want : Wants, identity : Revisions, of : Revisions]
      /\ CheckpointIsTrue'
  <2>1. CASE UNCHANGED checkpoints
    BY <2>1 DEF LoaderInv, LoaderTypes, FilesInv, CheckpointIsTrue
  <2>2. CASE SameFiles(r) /\ checkpoints' = checkpoints \cup {Heard(r)}
    <3>1. /\ request[r].want \in Wants /\ request[r].identity \in Revisions
          /\ request[r].rev = request[r].identity
          /\ request[r].copy \in Copies
          /\ request[r].copy \in {cache[k], retired[k]}
      BY <1>1, <2>2, NoCopyAssumption
         DEF LoaderInv, LoaderTypes, Transcriptions, MemoryInv, LoaderLoads,
             CopiesAreThere, LeasedStaysLoaded, FilesInv, RequestsAreOfFiles
    <3>2. /\ request[r].identity # 0
          /\ files[m].rev = request[r].identity
      BY <2>2 DEF SameFiles, Revision
    <3>3. k[1] = request[r].want /\ k[2] = request[r].identity
      BY <3>1 DEF KeyOf
    <3>4. \A c \in {cache[k], retired[k]} :
            c # None => k[2] = 0 \/ c.rev = k[2] \/ k[2] < files[ModelOf[k[1]]].rev
      BY <1>2 DEF LoaderInv, FilesInv, KeysAreTrue
    <3>5. request[r].copy.rev = request[r].identity
      <4>1. request[r].copy # None
        BY <3>1, NoCopyAssumption
      <4>2. ~(files[m].rev < files[m].rev)
        BY <3>1, <3>2 DEF Revisions
      <4> HIDE DEF k
      <4> QED
        BY <3>1, <3>2, <3>3, <3>4, <4>1, <4>2
    <3> QED
      BY <2>2, <3>1, <3>5
         DEF Heard, LoaderInv, LoaderTypes, FilesInv, CheckpointIsTrue
  <2> QED
    BY <2>1, <2>2 DEF Release
<1>8. LoaderTypes'
  <2>1. leases[k] - 1 \in Nat
    BY <1>2
  <2> HIDE DEF k
  <2> QED
    BY <1>1, <1>2, <1>7, <1>types, <2>1, NoRequestIsOne DEF LoaderInv, LoaderTypes
<1>9. LeasesAreDecodes'
  <2>1. ASSUME NEW j \in Keys, j = k
        PROVE  IsFiniteSet(Holders(j)') /\ leases'[j] = Cardinality(Holders(j)')
    <3>1. Holders(j)' = Holders(j) \ {r}
      BY <1>3, <1>4, <2>1, NoRequestIsOne DEF Holders
    <3>2. r \in Holders(j) /\ IsFiniteSet(Holders(j))
          /\ leases[j] = Cardinality(Holders(j))
      BY <1>1, <2>1 DEF Holders, LoaderInv, MemoryInv, LeasesAreDecodes
    <3>3. /\ IsFiniteSet(Holders(j)')
          /\ Cardinality(Holders(j)') = Cardinality(Holders(j)) - 1
      BY <3>1, <3>2, FS_RemoveElement
    <3> QED
      BY <1>6, <2>1, <3>2, <3>3
  <2>2. ASSUME NEW j \in Keys, j # k
        PROVE  IsFiniteSet(Holders(j)') /\ leases'[j] = Cardinality(Holders(j)')
    <3>1. Holders(j)' = Holders(j)
      BY <1>3, <1>4, <2>2, NoRequestIsOne DEF Holders
    <3> QED
      BY <1>6, <2>2, <3>1 DEF LoaderInv, MemoryInv, LeasesAreDecodes
  <2> QED
    BY <2>1, <2>2 DEF LeasesAreDecodes
<1>10. LoaderLoads'
  BY <1>1, <1>3, NoRequestIsOne
     DEF LoaderInv, LoaderTypes, MemoryInv, LoaderLoads
<1>11. CopiesAreThere'
  BY <1>3, NoRequestIsOne DEF LoaderInv, MemoryInv, CopiesAreThere
<1>12. LeasedStaysLoaded'
  <2>1. ASSUME NEW q \in Requests, request'[q].phase = "decoding"
        PROVE  request'[q].copy \in {cache'[KeyOf(q)'], retired'[KeyOf(q)']}
    <3>1. q # r /\ request'[q] = request[q] /\ KeyOf(q)' = KeyOf(q)
      BY <1>3, <1>4, <2>1, NoRequestIsOne
    <3>2. KeyOf(q) \in Keys
          /\ request[q].copy \in {cache[KeyOf(q)], retired[KeyOf(q)]}
      BY <2>1, <3>1, DecodeIsLeased DEF LoaderInv, MemoryInv, LeasedStaysLoaded
    <3>3. retired'[KeyOf(q)] = retired[KeyOf(q)]
      BY <1>5, <1>6, <2>1, <3>1, <3>2
    <3> QED
      BY <1>1, <3>1, <3>2, <3>3
  <2> QED
    BY <2>1 DEF LeasedStaysLoaded
<1>13. NothingElseInMemory'
  <2>1. ASSUME NEW j \in Keys, retired'[j] # None
        PROVE  cache[j] = None /\ leases'[j] > 0
    BY <1>2, <1>6, <1>types, <2>1 DEF LoaderInv, MemoryInv, NothingElseInMemory
  <2> QED
    BY <1>1, <2>1 DEF LoaderInv, MemoryInv, NothingElseInMemory
<1>14. KeysAreTrue'
  <2>1. \A j \in Keys : retired'[j] # None => retired'[j] = retired[j]
    BY <1>6
  <2> QED
    BY <1>1, <2>1 DEF LoaderInv, FilesInv, KeysAreTrue
<1>15. \A q \in Requests : q # r => SameFiles(q)' = SameFiles(q)
  BY <1>1, <1>3 DEF SameFiles, Revision, Cached
<1>16. RequestsAreOfFiles'
  BY <1>1, <1>3, <1>15, NoRequestIsOne DEF LoaderInv, FilesInv, RequestsAreOfFiles
<1> QED
  BY <1>7, <1>8, <1>9, <1>10, <1>11, <1>12, <1>13, <1>14, <1>16
     DEF LoaderInv, MemoryInv, FilesInv

\* A deletion unloads its model from the cache, never from under a decode.
LEMMA DeletionKeeps ==
  ASSUME LoaderInv, NEW m, DeleteAsked(m)
  PROVE  LoaderInv'
<1>1. /\ cache' = Evicted(KeysOf(m)) /\ retired' = RetiredBy(KeysOf(m))
      /\ loader = None
      /\ UNCHANGED <<files, leases, loader, request, checkpoints>>
  BY DEF DeleteAsked, CacheFree, downloadVars
<1>types. /\ cache \in [Keys -> Copies \cup {None}]
          /\ retired \in [Keys -> Copies \cup {None}]
  BY DEF LoaderInv, LoaderTypes
<1>2. \A j \in Keys :
        /\ cache'[j] = IF j \in KeysOf(m) THEN None ELSE cache[j]
        /\ retired'[j] = IF j \in KeysOf(m) /\ cache[j] # None /\ leases[j] > 0
                         THEN cache[j] ELSE retired[j]
  BY <1>1 DEF Evicted, RetiredBy, Retired
<1>3. LoaderTypes'
  <2>1. /\ cache' \in [Keys -> Copies \cup {None}]
        /\ retired' \in [Keys -> Copies \cup {None}]
    BY <1>1, <1>types DEF Evicted, RetiredBy, Retired
  <2> QED
    BY <1>1, <2>1 DEF LoaderInv, LoaderTypes
<1>4. \A q : KeyOf(q)' = KeyOf(q)
  BY <1>1 DEF KeyOf
<1>5. LeasesAreDecodes'
  <2>1. \A j : Holders(j)' = Holders(j)
    BY <1>1, <1>4 DEF Holders
  <2> QED
    BY <1>1, <2>1 DEF LoaderInv, MemoryInv, LeasesAreDecodes
<1>6. LoaderLoads' /\ CopiesAreThere'
  BY <1>1 DEF LoaderInv, MemoryInv, LoaderLoads, CopiesAreThere
<1>7. LeasedStaysLoaded'
  <2>1. ASSUME NEW q \in Requests, request[q].phase = "decoding"
        PROVE  request[q].copy \in {cache'[KeyOf(q)], retired'[KeyOf(q)]}
    <3>1. /\ KeyOf(q) \in Keys /\ leases[KeyOf(q)] > 0
          /\ \/ /\ cache[KeyOf(q)] = request[q].copy
                /\ retired[KeyOf(q)] = None
             \/ /\ retired[KeyOf(q)] = request[q].copy
                /\ cache[KeyOf(q)] = None
      BY <2>1, DecodeIsLeased DEF LoaderInv
    <3> QED
      BY <1>2, <3>1
  <2> QED
    BY <1>1, <1>4, <2>1 DEF LeasedStaysLoaded
<1>8. NothingElseInMemory'
  BY <1>1, <1>2 DEF LoaderInv, MemoryInv, NothingElseInMemory
<1>9. FilesInv'
  <2>1. KeysAreTrue'
    BY <1>1, <1>2 DEF LoaderInv, FilesInv, KeysAreTrue
  <2>2. \A q : SameFiles(q)' = SameFiles(q)
    BY <1>1 DEF SameFiles, Revision, Cached
  <2>3. RequestsAreOfFiles' /\ CheckpointIsTrue'
    BY <1>1, <2>2 DEF LoaderInv, FilesInv, RequestsAreOfFiles, CheckpointIsTrue
  <2> QED
    BY <2>1, <2>3 DEF FilesInv
<1> QED
  BY <1>3, <1>5, <1>6, <1>7, <1>8, <1>9 DEF LoaderInv, MemoryInv

\* A restart forgets what was loaded and keeps the checkpoints.
LEMMA RestartKeeps ==
  ASSUME LoaderInv, Restart
  PROVE  LoaderInv'
<1>1. /\ cache' = [k \in Keys |-> None] /\ retired' = [k \in Keys |-> None]
      /\ leases' = [k \in Keys |-> 0] /\ loader' = None
      /\ request' = [r \in Requests |-> NoRequest] /\ UNCHANGED checkpoints
  BY DEF Restart
<1>2. \A r \in Requests : request'[r].phase = "idle"
  BY <1>1, NoRequestIsOne
<1>3. LoaderTypes'
  BY <1>1, NoRequestIsOne DEF LoaderInv, LoaderTypes
<1>4. LeasesAreDecodes'
  <2>1. \A k : Holders(k)' = {}
    BY <1>2 DEF Holders
  <2> QED
    BY <1>1, <2>1, FS_EmptySet DEF LeasesAreDecodes
<1>5. /\ LoaderLoads' /\ CopiesAreThere' /\ LeasedStaysLoaded'
      /\ NothingElseInMemory'
  BY <1>1, <1>2, WhisperAssumption
     DEF LoaderLoads, CopiesAreThere, LeasedStaysLoaded, NothingElseInMemory
<1>6. FilesInv'
  BY <1>1, <1>2 DEF LoaderInv, FilesInv, KeysAreTrue, RequestsAreOfFiles,
                    CheckpointIsTrue
<1> QED
  BY <1>3, <1>4, <1>5, <1>6 DEF LoaderInv, MemoryInv

LEMMA LoaderKeeps ==
  DownloadInv /\ DownloadInv' /\ LoaderInv /\ [Next]_vars => LoaderInv'
<1> SUFFICES ASSUME DownloadInv, DownloadInv', LoaderInv, [Next]_vars
             PROVE  LoaderInv'
  OBVIOUS
<1>1. CASE UNCHANGED vars
  <2>1. FilesGrow
    <3>1. \A m \in Models : files[m].rev \in Nat
      BY WhisperAssumption DEF DownloadInv, DownloadTypes, Revisions
    <3> QED
      BY <1>1, <3>1 DEF FilesGrow, vars, downloadVars
  <2> QED
    BY <1>1, <2>1, OthersKeepLoader DEF vars
<1>2. CASE Next /\ UNCHANGED <<loaderVars, request, checkpoints>>
  BY <1>2, FilesOnlyGrow, OthersKeepLoader
<1>3. CASE \E r \in Requests : \/ \E w \in Wants : Begins(r, w)
                              \/ Lease(r) \/ Loads(r) \/ Release(r)
  BY <1>3, BeginsKeeps, LeaseKeeps, LoadsKeeps, ReleaseKeeps
<1>4. CASE \E m \in Managed : DeleteAsked(m)
  BY <1>4, DeletionKeeps
<1>5. CASE Restart
  BY <1>5, RestartKeeps
<1> QED
  BY <1>1, <1>2, <1>3, <1>4, <1>5
     DEF Next, StartDownload, Cancel, Supervisor, StartAttempt, ReadsReport,
         WatchEnds, ExitSeen, Reaps, Judges, WaitEnds, Finish, Supervises,
         WorkerWrites, WorkerReports, WorkerExits, WorkerDies, WorkerStep,
         DeleteChecked, DeleteRemoves, Shutdown, ShutdownEnds

\* Every variable keeps its shape, for any models, requests and bounds.
THEOREM WhisperTypes == Spec => []TypeOK
<1>1. DownloadInv /\ LoaderInv => TypeOK
  BY DEF DownloadInv, LoaderInv, TypeOK
<1> QED
  BY <1>1, DownloadInit, DownloadsKeep, LoaderInit, LoaderKeeps, PTL DEF Spec

\* What a decode runs on stays loaded until it ends, whichever models other
\* requests load and whoever deletes it (lease, _evict_locked).
THEOREM LeasesHold == Spec => []LeasedStaysLoaded
<1>1. LoaderInv => LeasedStaysLoaded
  BY DEF LoaderInv, MemoryInv
<1> QED
  BY <1>1, DownloadInit, DownloadsKeep, LoaderInit, LoaderKeeps, PTL DEF Spec

\* Memory holds one resident model and what decodes still run on, and of no
\* weights two copies (_resident_locked, _RETIRED).
THEOREM MemoryIsBounded == Spec => []NothingElseInMemory
<1>1. LoaderInv => NothingElseInMemory
  BY DEF LoaderInv, MemoryInv
<1> QED
  BY <1>1, DownloadInit, DownloadsKeep, LoaderInit, LoaderKeeps, PTL DEF Spec

\* A recognition is filed under the files it was made with, however they were
\* deleted and downloaded meanwhile (run_transcription_streaming, _cache_key).
THEOREM CheckpointsAreTrue == Spec => []CheckpointIsTrue
<1>1. LoaderInv => CheckpointIsTrue
  BY DEF LoaderInv, FilesInv
<1> QED
  BY <1>1, DownloadInit, DownloadsKeep, LoaderInit, LoaderKeeps, PTL DEF Spec
=============================================================================
