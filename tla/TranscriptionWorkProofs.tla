---------------------- MODULE TranscriptionWorkProofs ----------------------
(***************************************************************************)
(* For any videos, plans, keys and bounds, the variables of the work queue *)
(* keep their shape, and at most one item of a video is queued, running or *)
(* under review.  The second needs one more fact: while the process runs,  *)
(* the item whose run drain waits for is either still marked as running or *)
(* marked as cancelled and known to drain as such, so that the end of a    *)
(* run never makes an item active again that a cancel has ended in the     *)
(* meantime.  The first needs that a kept item has a video.  Further parts *)
(* add what is needed to show that a cancel holds, that no start is lost,  *)
(* that the queue implements WorkLedger, and that no translation starts    *)
(* which the user did not permit.                                          *)
(***************************************************************************)
EXTENDS TranscriptionWork, TLAPS

Statuses == Active \cup Final \cup {"absent", "pruned"}
Records == [status : Statuses, input : Inputs \cup {NoInput},
            batch : Keys \cup {NoKey}, begun : 0 .. MaxClock + 1,
            out : Paths \cup {NoPath}, revision : 0 .. MaxClock,
            targets : SUBSET Targets]
Choices == [rev : 0 .. MaxClock, targets : SUBSET Targets]
StoreShape == /\ items \in [Ids -> Records]
              /\ receipts \in [Keys -> Ids \cup {NoId}]
              /\ selection \in [Paths -> Choices]
Shape == StoreShape /\ RunnerOK /\ FilesOK

CurrentIsKnown ==
  current # NoId =>
    /\ up
    /\ \/ items[current].status = "running"
       \/ items[current].status = "cancelled" /\ current \in cancelled
KeptHaveInput ==
  \A d \in Ids : items[d].status \notin {"absent", "pruned"} => items[d].input \in Inputs

WorkInv == Shape /\ CurrentIsKnown /\ KeptHaveInput /\ OneActivePerInput

USE WorkAssumption

-----------------------------------------------------------------------------
LEMMA ShapeIsTypeOK == Shape => TypeOK
BY DEF Shape, StoreShape, TypeOK, StoreOK, ItemOK, Records, Choices, Statuses

LEMMA InputPaths == \A i \in Inputs : Plain[i] \in Paths /\ Named[i] \in Paths
BY DEF Paths

\* An item that is saved, and the selection its end leaves.
LEMMA UpdateShape ==
  ASSUME Shape, NEW d \in Ids, NEW new \in Records, NEW accepted \in SUBSET Targets,
         Update(d, new, accepted), UNCHANGED receipts
  PROVE  StoreShape'
<1>1. items' \in [Ids -> Records]
  BY DEF Update, Shape, StoreShape
<1>2. CASE selection' = selection
  BY <1>1, <1>2 DEF Shape, StoreShape
<1>3. CASE selection' # selection
  <2>1. new.out \in Paths
    BY <1>3 DEF Update, Remember, Records
  <2>2. file[new.out] \in 0 .. MaxClock
    BY <2>1 DEF Shape, FilesOK
  <2> DEFINE ts == IF new.status = "succeeded" THEN accepted ELSE {}
  <2>3. [rev |-> file[new.out], targets |-> ts] \in Choices
    BY <2>2 DEF Choices
  <2>4. selection' = [selection EXCEPT ![new.out] =
                        [rev |-> file[new.out], targets |-> ts]]
    BY <1>3 DEF Update, Remember
  <2> HIDE DEF ts
  <2> QED
    BY <1>1, <2>1, <2>3, <2>4 DEF Shape, StoreShape
<1> QED
  BY <1>2, <1>3

\* No step that makes no item active, and moves none to another video, gives
\* a video a second active item.
LEMMA NoneBecomesActive ==
  ASSUME OneActivePerInput,
         \A d \in Ids : items'[d].status \in Active =>
           items[d].status \in Active /\ items'[d].input = items[d].input
  PROVE  OneActivePerInput'
BY DEF OneActivePerInput, With, Active

\* One item is saved: it keeps its video, and is active only if it was.
LEMMA UpdateItems ==
  ASSUME WorkInv, NEW d \in Ids, NEW new \in Records,
         new.input = items[d].input, items[d].status \notin {"absent", "pruned"},
         new.status \in Active => items[d].status \in Active,
         items' = [items EXCEPT ![d] = new]
  PROVE  /\ \A e \in Ids : items'[e] = IF e = d THEN new ELSE items[e]
         /\ KeptHaveInput' /\ OneActivePerInput'
<1>1. \A e \in Ids : items'[e] = IF e = d THEN new ELSE items[e]
  BY DEF WorkInv, Shape, StoreShape
<1>2. KeptHaveInput'
  BY <1>1 DEF WorkInv, KeptHaveInput
<1> QED
  BY <1>1, <1>2, NoneBecomesActive DEF WorkInv

\* What another status leaves of a record.
LEMMA StatusOf ==
  ASSUME NEW x \in Records, NEW st \in Statuses
  PROVE  /\ [x EXCEPT !.status = st] \in Records
         /\ [x EXCEPT !.status = st].status = st
         /\ [x EXCEPT !.status = st].input = x.input
BY DEF Records

LEMMA InitWork == Init => WorkInv
<1> SUFFICES ASSUME Init PROVE WorkInv
  OBVIOUS
<1>1. Absent \in Records
  BY DEF Absent, Records, Statuses
<1>2. StoreShape
  BY <1>1 DEF Init, StoreShape, Choices
<1>3. RunnerOK /\ FilesOK
  BY DEF Init, RunnerOK, FilesOK
<1>4. \A d \in Ids : items[d].status = "absent"
  BY DEF Init, Absent
<1>5. OneActivePerInput /\ KeptHaveInput
  BY <1>4 DEF OneActivePerInput, KeptHaveInput, With
<1>6. CurrentIsKnown
  BY DEF Init, CurrentIsKnown
<1> QED
  BY <1>2, <1>3, <1>5, <1>6 DEF WorkInv, Shape

\* Steps that leave the items alone.
LEMMA SameItems ==
  ASSUME WorkInv, UNCHANGED items, Shape', CurrentIsKnown'
  PROVE  WorkInv'
BY DEF WorkInv, KeptHaveInput, OneActivePerInput, With

LEMMA SameStore ==
  ASSUME Shape, UNCHANGED store
  PROVE  StoreShape'
BY DEF Shape, StoreShape, store

-----------------------------------------------------------------------------
(* The steps of the drain.                                                 *)

\* A run is taken up, writes its transcript, and ends.
LEMMA TakesUpKeeps == ASSUME WorkInv, TakesUp PROVE WorkInv'
<1>1. PICK d \in NextUp :
        /\ items' = [items EXCEPT ![d].status = "running", ![d].begun = Begun(d)]
        /\ current' = d
  BY DEF TakesUp
<1>2. d \in Ids /\ items[d].status = "queued" /\ items[d] \in Records
  BY DEF NextUp, Queued, With, WorkInv, Shape, StoreShape
<1> DEFINE new == [items[d] EXCEPT !.status = "running", !.begun = Begun(d)]
<1>3. Begun(d) \in 0 .. MaxClock + 1
  BY <1>2 DEF Begun, Records, WorkInv, Shape, FilesOK
<1>4. "running" \in Statuses /\ "running" \in Active
  BY DEF Statuses, Active
<1>5. new \in Records /\ new.status = "running" /\ new.input = items[d].input
  BY <1>2, <1>3, <1>4 DEF Records
<1>6. items' = [items EXCEPT ![d] = new]
  BY <1>1
<1> HIDE DEF new
<1>7. /\ \A e \in Ids : items'[e] = IF e = d THEN new ELSE items[e]
      /\ KeptHaveInput' /\ OneActivePerInput'
  BY <1>2, <1>5, <1>6, UpdateItems DEF Active
<1>8. StoreShape'
  BY <1>2, <1>5, <1>6 DEF TakesUp, WorkInv, Shape, StoreShape
<1>9. RunnerOK' /\ FilesOK'
  BY <1>1, <1>2 DEF TakesUp, WorkInv, Shape, RunnerOK, FilesOK, disk, jobVars, Idle
<1>10. CurrentIsKnown'
  BY <1>1, <1>2, <1>5, <1>7 DEF TakesUp, Idle, CurrentIsKnown
<1> QED
  BY <1>7, <1>8, <1>9, <1>10 DEF WorkInv, Shape

LEMMA RunPublishesKeeps == ASSUME WorkInv, RunPublishes PROVE WorkInv'
<1> DEFINE i == items[current].input
<1>1. current \in Ids /\ UNCHANGED <<store, up, drain, current, cancelled, job>>
  BY DEF RunPublishes, WorkInv, Shape, RunnerOK
<1>2. i \in Inputs
  BY <1>1 DEF RunPublishes, WorkInv, CurrentIsKnown, KeptHaveInput
<1>3. PICK p \in {Plain[i], Named[i]} :
        /\ Write(p) /\ published' = p
        /\ permitted' = [permitted EXCEPT ![p] =
                            IF i \in Reviewed THEN {} ELSE Targets]
  BY DEF RunPublishes
<1>4. p \in Paths
  BY <1>2, InputPaths
<1>5. StoreShape'
  BY <1>1, SameStore DEF WorkInv
<1>6. RunnerOK'
  BY <1>1, <1>3, <1>4 DEF RunPublishes, WorkInv, Shape, RunnerOK
<1>7. FilesOK'
  BY <1>1, <1>3, <1>4 DEF WorkInv, Shape, FilesOK, Write
<1>8. CurrentIsKnown'
  BY <1>1 DEF WorkInv, CurrentIsKnown, store
<1> QED
  BY <1>1, <1>5, <1>6, <1>7, <1>8, SameItems DEF Shape, store

\* A run that is over, with the record it is saved as.
RunIsOverAs(new) ==
  /\ Update(current, new, {}) /\ NoRunLeft /\ cancelled' = cancelled \ {current}
  /\ UNCHANGED <<receipts, up, drain, disk, jobVars>>
LEMMA RunIsOver ==
  ASSUME WorkInv, current # NoId, NEW new \in Records,
         new.input = items[current].input,
         new.status \in Active => current \notin cancelled,
         RunIsOverAs(new)
  PROVE  WorkInv'
<1> USE DEF RunIsOverAs
<1>1. current \in Ids
  BY DEF WorkInv, Shape, RunnerOK
<1>2. /\ items[current].status \notin {"absent", "pruned"}
      /\ new.status \in Active => items[current].status \in Active
  BY DEF WorkInv, CurrentIsKnown, Active
<1>3. KeptHaveInput' /\ OneActivePerInput'
  BY <1>1, <1>2, UpdateItems DEF Update
<1>4. StoreShape'
  BY <1>1, UpdateShape DEF WorkInv
<1>5. RunnerOK' /\ FilesOK'
  BY DEF WorkInv, Shape, RunnerOK, FilesOK, NoRunLeft, disk, jobVars
<1>6. CurrentIsKnown'
  BY DEF CurrentIsKnown, NoRunLeft
<1> QED
  BY <1>3, <1>4, <1>5, <1>6 DEF WorkInv, Shape

LEMMA RunEndsKeeps == ASSUME WorkInv, RunEnds PROVE WorkInv'
<1>1. current # NoId
  BY DEF RunEnds, RunReturns, RunFails, WorkInv, Shape, RunnerOK
<1>2. current \in Ids /\ items[current] \in Records
  BY <1>1 DEF WorkInv, Shape, RunnerOK, StoreShape
<1>3. {"cancelled", "failed", "needs_review", "queued", "succeeded"} \subseteq Statuses
  BY DEF Statuses, Active, Final
<1>4. "cancelled" \notin Active /\ "failed" \notin Active
  BY DEF Active
<1>5. CASE RunReturns
  <2>1. published \in Paths \cup {NoPath}
    BY DEF WorkInv, Shape, RunnerOK
  <2>2. CASE current \in cancelled
    <3> DEFINE p == IF IsReviewed(current) THEN published ELSE items[current].out
    <3>1. p \in Paths \cup {NoPath}
      BY <1>2, <2>1 DEF Records
    <3>2. Returned(current) = [items[current] EXCEPT !.status = "cancelled", !.out = p]
      BY <2>2 DEF Returned
    <3> HIDE DEF p
    <3> DEFINE new == Returned(current)
    <3>3. new \in Records /\ new.status = "cancelled" /\ new.input = items[current].input
      BY <1>2, <1>3, <3>1, <3>2 DEF Records
    <3>4. RunIsOverAs(new)
      BY <1>5 DEF RunReturns, RunIsOverAs
    <3> HIDE DEF new
    <3> QED
      BY <1>1, <1>4, <3>3, <3>4, RunIsOver
  <2>3. CASE current \notin cancelled
    <3> DEFINE st == IF IsReviewed(current) THEN "needs_review"
                     ELSE IF Planned[items[current].input] # {} THEN "queued"
                     ELSE "succeeded"
    <3>1. st \in Statuses
      BY <1>3
    <3>2. Returned(current) = [items[current] EXCEPT !.out = published, !.status = st]
      BY <2>3 DEF Returned, ReturnedUncancelled
    <3> HIDE DEF st
    <3> DEFINE new == Returned(current)
    <3>3. new \in Records /\ new.input = items[current].input
      BY <1>2, <2>1, <3>1, <3>2 DEF Records
    <3>4. RunIsOverAs(new)
      BY <1>5 DEF RunReturns, RunIsOverAs
    <3> HIDE DEF new
    <3> QED
      BY <1>1, <2>3, <3>3, <3>4, RunIsOver
  <2> QED
    BY <2>2, <2>3
<1>6. CASE RunFails
  <2> DEFINE st == IF Aborted(current) THEN "cancelled" ELSE "failed"
  <2>1. st \in Statuses /\ st \notin Active
    BY <1>3, <1>4
  <2> DEFINE new == [items[current] EXCEPT !.status = st]
  <2>2. RunIsOverAs(new)
    BY <1>6 DEF RunFails, RunIsOverAs
  <2> HIDE DEF st
  <2>3. new \in Records /\ new.status = st /\ new.input = items[current].input
    BY <1>2, <2>1, StatusOf
  <2> HIDE DEF new
  <2> QED
    BY <1>1, <2>1, <2>2, <2>3, RunIsOver
<1> QED
  BY <1>5, <1>6 DEF RunEnds

\* One item is saved while no run is on.
LEMMA UpdateKeeps ==
  ASSUME WorkInv, Shape', NEW d \in Ids, NEW new \in Records, d # current,
         new.input = items[d].input, items[d].status \notin {"absent", "pruned"},
         new.status \in Active => items[d].status \in Active,
         items' = [items EXCEPT ![d] = new], UNCHANGED <<up, current, cancelled>>
  PROVE  WorkInv'
<1>1. /\ \A e \in Ids : items'[e] = IF e = d THEN new ELSE items[e]
      /\ KeptHaveInput' /\ OneActivePerInput'
  BY UpdateItems
<1>2. CurrentIsKnown'
  BY <1>1 DEF WorkInv, Shape, RunnerOK, CurrentIsKnown
<1> QED
  BY <1>1, <1>2 DEF WorkInv

LEMMA FinishesKeeps == ASSUME WorkInv, Finishes PROVE WorkInv'
<1>1. PICK d \in NextUp : items[d].out # NoPath /\ (Hands(d) \/ HandsNot(d))
  BY DEF Finishes
<1>2. /\ d \in Ids /\ items[d].status = "queued" /\ items[d] \in Records
      /\ items[d].out \in Paths /\ d # current
  BY <1>1 DEF NextUp, Queued, With, WorkInv, Shape, StoreShape, Records, Finishes,
              Idle, Ids, NoId
<1>3. Wanted(d) \subseteq Targets
  BY <1>2 DEF Wanted, Records, WorkInv, KeptHaveInput
<1>4. PICK st \in {"failed", "needs_review", "succeeded"}, accepted \in SUBSET Targets :
        End(d, st, accepted)
  BY <1>1, <1>3 DEF Hands, HandsNot, InState
<1>5. job' \in [Paths -> [Targets -> {"none", "pending", "translating", "done"}]]
  <2>1. CASE UNCHANGED job
    BY <2>1 DEF WorkInv, Shape, FilesOK
  <2>2. CASE \E ts \in SUBSET Targets : Queues(items[d].out, ts)
    BY <1>2, <2>2 DEF WorkInv, Shape, FilesOK, Queues
  <2> QED
    BY <1>1, <1>3, <2>1, <2>2 DEF Hands, HandsNot, InState
<1> DEFINE new == [items[d] EXCEPT !.status = st]
<1>6. /\ new \in Records /\ new.status = st /\ new.input = items[d].input
      /\ Update(d, new, accepted)
  BY <1>2, <1>4, StatusOf DEF End, Statuses, Active, Final
<1> HIDE DEF new
<1>7. Shape'
  <2>1. StoreShape'
    BY <1>2, <1>6, UpdateShape DEF Finishes, WorkInv
  <2>2. RunnerOK' /\ FilesOK'
    BY <1>5 DEF Finishes, WorkInv, Shape, RunnerOK, FilesOK, runner, disk
  <2> QED
    BY <2>1, <2>2 DEF Shape
<1> QED
  BY <1>2, <1>6, <1>7, UpdateKeeps DEF Finishes, runner, Update, Active

\* Steps that change no item: the end of drain, a store that is not saved.
LEMMA DrainStopsKeep ==
  ASSUME WorkInv, DrainEnds \/ DrainGivesUp \/ RunLost
  PROVE  WorkInv'
<1>1. UNCHANGED <<store, up, disk, jobVars>>
  BY DEF DrainEnds, DrainGivesUp, RunLost
<1>2. StoreShape' /\ FilesOK' /\ UNCHANGED items
  BY <1>1, SameStore DEF WorkInv, Shape, FilesOK, store, disk, jobVars
<1>3. RunnerOK' /\ CurrentIsKnown'
  BY <1>1, <1>2 DEF DrainEnds, DrainGivesUp, RunLost, NoRunLeft, WorkInv, Shape,
                    RunnerOK, CurrentIsKnown
<1> QED
  BY <1>2, <1>3, SameItems DEF Shape

-----------------------------------------------------------------------------
(* The user's requests.                                                    *)

LEMMA SubmitKeeps ==
  ASSUME WorkInv, NEW k \in Keys \cup {NoKey}, NEW i \in Inputs, Submit(k, i)
  PROVE  WorkInv'
<1>1. \A d \in Ids : Receive(k, d) => receipts' \in [Keys -> Ids \cup {NoId}]
  BY DEF Receive, WorkInv, Shape, StoreShape
<1>2. RunnerOK' /\ FilesOK'
  BY DEF Submit, Starts, WorkInv, Shape, RunnerOK, FilesOK, disk, jobVars
<1>3. CASE \E d \in Existing(i) : Receive(k, d) /\ UNCHANGED items
  <2>1. StoreShape'
    BY <1>1, <1>3 DEF Existing, Submit, WorkInv, Shape, StoreShape
  <2>2. CurrentIsKnown'
    BY <1>3 DEF Submit, WorkInv, CurrentIsKnown
  <2> QED
    BY <1>2, <1>3, <2>1, <2>2, SameItems DEF Shape
<1>4. ASSUME NEW d \in With("absent"), Existing(i) = {}, Receive(k, d),
             items' = [items EXCEPT ![d] =
               [Absent EXCEPT !.status = "queued", !.input = i, !.batch = k]]
      PROVE  WorkInv'
  <2> DEFINE new == [Absent EXCEPT !.status = "queued", !.input = i, !.batch = k]
  <2>1. new \in Records /\ new.status = "queued" /\ new.input = i
    <3>1. Absent \in Records /\ "queued" \in Statuses
      BY DEF Absent, Records, Statuses, Active
    <3> QED
      BY <3>1 DEF Records
  <2>2. items' = [items EXCEPT ![d] = new]
    BY <1>4
  <2> HIDE DEF new
  <2>3. d \in Ids /\ items[d].status = "absent"
    BY DEF With
  <2>4. \A e \in Ids : items'[e] = IF e = d THEN new ELSE items[e]
    BY <2>2, <2>3 DEF WorkInv, Shape, StoreShape
  <2>5. StoreShape'
    BY <1>1, <1>4, <2>1, <2>2, <2>3 DEF Submit, WorkInv, Shape, StoreShape
  <2>6. CurrentIsKnown'
    BY <2>3, <2>4 DEF Submit, WorkInv, Shape, RunnerOK, CurrentIsKnown
  <2>7. KeptHaveInput'
    BY <2>1, <2>4 DEF WorkInv, KeptHaveInput
  <2>8. \A e \in Ids : items[e].input = i => items[e].status \notin Active
    BY <1>4 DEF Existing
  <2>9. OneActivePerInput'
    BY <2>1, <2>4, <2>8 DEF WorkInv, OneActivePerInput, With, Active
  <2> QED
    BY <1>2, <2>5, <2>6, <2>7, <2>9 DEF WorkInv, Shape
<1> QED
  BY <1>3, <1>4 DEF Submit

LEMMA CancelKeeps ==
  ASSUME WorkInv, NEW d \in Ids, Cancel(d)
  PROVE  WorkInv'
<1>1. /\ items[d] \in Records /\ items[d].status \in Active
      /\ items[d].status \notin {"absent", "pruned"}
  BY DEF Cancel, WorkInv, Shape, StoreShape, Active
<1>2. RunnerOK' /\ FilesOK'
  BY DEF Cancel, WorkInv, Shape, RunnerOK, FilesOK, disk, jobVars
<1>3. CASE MarksAtOnce(d)
  <2> DEFINE new == [items[d] EXCEPT !.status = "cancelled"]
  <2>1. /\ new \in Records /\ new.status = "cancelled" /\ new.input = items[d].input
        /\ Update(d, new, {})
    BY <1>1, <1>3, StatusOf DEF Cancel, Statuses, Final
  <2> HIDE DEF new
  <2>2. StoreShape'
    BY <2>1, UpdateShape DEF Cancel, WorkInv
  <2>3. /\ \A e \in Ids : items'[e] = IF e = d THEN new ELSE items[e]
        /\ KeptHaveInput' /\ OneActivePerInput'
    BY <1>1, <2>1, UpdateItems DEF Update, Active
  <2>4. CurrentIsKnown'
    BY <2>1, <2>3 DEF Cancel, Active, WorkInv, Shape, RunnerOK, CurrentIsKnown
  <2> QED
    BY <1>2, <2>2, <2>3, <2>4 DEF WorkInv, Shape
<1>4. CASE ~MarksAtOnce(d)
  <2>1. UNCHANGED store /\ UNCHANGED items
    BY <1>4 DEF Cancel, store
  <2>2. CurrentIsKnown'
    BY <2>1 DEF Cancel, WorkInv, CurrentIsKnown
  <2> QED
    BY <1>2, <2>1, <2>2, SameItems, SameStore DEF WorkInv, Shape
<1> QED
  BY <1>3, <1>4

LEMMA ApproveKeeps ==
  ASSUME WorkInv, NEW d \in Ids, NEW ts \in SUBSET Targets, Approve(d, ts)
  PROVE  WorkInv'
<1> DEFINE p == items[d].out
<1>1. items[d] \in Records /\ items[d].status = "needs_review" /\ d # current
  BY DEF Approve, WorkInv, CurrentIsKnown, Shape, StoreShape, Ids, NoId
<1>2. p \in Paths
  BY <1>1 DEF Approve, Records
<1>3. FilesOK'
  BY <1>2 DEF Approve, Write, disk, WorkInv, Shape, FilesOK
<1>4. file'[p] \in 0 .. MaxClock
  BY <1>2, <1>3 DEF FilesOK
<1> DEFINE new == [items[d] EXCEPT !.status = "queued", !.revision = file'[p],
                                   !.targets = ts]
<1>5. new \in Records /\ new.status = "queued" /\ new.input = items[d].input
  BY <1>1, <1>4 DEF Records, Statuses, Active
<1>6. items' = [items EXCEPT ![d] = new]
  BY DEF Approve
<1> HIDE DEF new, p
<1>7. StoreShape'
  <2>1. UNCHANGED <<receipts, selection>>
    BY DEF Approve
  <2>2. items' \in [Ids -> Records]
    BY <1>5, <1>6 DEF WorkInv, Shape, StoreShape
  <2> QED
    BY <2>1, <2>2 DEF WorkInv, Shape, StoreShape
<1>8. RunnerOK'
  BY DEF Approve, Starts, WorkInv, Shape, RunnerOK
<1> QED
  BY <1>1, <1>3, <1>5, <1>6, <1>7, <1>8, UpdateKeeps DEF Approve, Shape, Active

\* What the user does to files and jobs, and the steps of the job queue.
LEMMA FileStepsKeep ==
  ASSUME WorkInv,
         \/ \E d \in Ids : ApprovalNotSaved(d)
         \/ \E q \in Paths : EditFile(q)
         \/ \E q \in Paths, t \in Targets :
              \/ TranslateFile(q, t) \/ ScanQueues(q, t)
              \/ JobStarts(q, t) \/ JobEnds(q, t)
  PROVE  WorkInv'
<1>1. CASE \E d \in Ids : ApprovalNotSaved(d)
  <2>1. PICK d \in Ids : ApprovalNotSaved(d)
    BY <1>1
  <2>2. items[d].out \in Paths
    BY <2>1 DEF ApprovalNotSaved, WorkInv, Shape, StoreShape, Records
  <2>3. FilesOK'
    BY <2>1, <2>2 DEF ApprovalNotSaved, Write, WorkInv, Shape, FilesOK, jobVars
  <2> QED
    BY <2>1, <2>3, SameStore, SameItems
       DEF ApprovalNotSaved, WorkInv, Shape, RunnerOK, CurrentIsKnown, store, runner
<1>2. ASSUME NEW q \in Paths, EditFile(q) PROVE WorkInv'
  <2>1. FilesOK'
    BY <1>2 DEF EditFile, Write, WorkInv, Shape, FilesOK
  <2> QED
    BY <1>2, <2>1, SameStore, SameItems
       DEF EditFile, WorkInv, Shape, RunnerOK, CurrentIsKnown, store, runner
<1>3. ASSUME NEW q \in Paths, NEW t \in Targets,
             ScanQueues(q, t) \/ JobStarts(q, t) \/ JobEnds(q, t)
      PROVE  WorkInv'
  <2>1. PICK st \in {"pending", "translating", "done"} : Becomes(q, t, st)
    BY <1>3 DEF ScanQueues, JobStarts, JobEnds
  <2>2. FilesOK' /\ UNCHANGED <<store, runner>>
    BY <2>1 DEF Becomes, WorkInv, Shape, FilesOK, disk
  <2> QED
    BY <2>2, SameStore, SameItems
       DEF WorkInv, Shape, RunnerOK, CurrentIsKnown, store, runner
<1>4. ASSUME NEW q \in Paths, NEW t \in Targets, TranslateFile(q, t) PROVE WorkInv'
  <2>1. selection' \in [Paths -> Choices]
    BY <1>4 DEF TranslateFile, WorkInv, Shape, StoreShape, Choices
  <2>2. StoreShape' /\ FilesOK' /\ RunnerOK' /\ CurrentIsKnown'
    BY <1>4, <2>1 DEF TranslateFile, WorkInv, Shape, StoreShape, FilesOK, RunnerOK,
                      CurrentIsKnown, runner, disk
  <2> QED
    BY <1>4, <2>2, SameItems DEF TranslateFile, Shape
<1> QED
  BY <1>1, <1>2, <1>3, <1>4

-----------------------------------------------------------------------------
(* Retention, the end of the process and its return.                       *)

LEMMA PruneKeeps == ASSUME WorkInv, NEW d \in Ids, Prune(d) PROVE WorkInv'
<1> DEFINE new == [Absent EXCEPT !.status = "pruned"]
<1>1. new \in Records /\ new.status = "pruned"
  <2>1. Absent \in Records /\ "pruned" \in Statuses
    BY DEF Absent, Records, Statuses
  <2> QED
    BY <2>1, StatusOf
<1>2. items' = [items EXCEPT ![d] = new] /\ d # current
  BY DEF Prune
<1> HIDE DEF new
<1>3. \A e \in Ids : items'[e] = IF e = d THEN new ELSE items[e]
  BY <1>2 DEF WorkInv, Shape, StoreShape
<1>4. StoreShape'
  BY <1>1, <1>2 DEF Prune, WorkInv, Shape, StoreShape
<1>5. RunnerOK' /\ FilesOK'
  BY DEF Prune, WorkInv, Shape, RunnerOK, FilesOK, runner, disk, jobVars
<1>6. KeptHaveInput' /\ OneActivePerInput'
  BY <1>1, <1>3, NoneBecomesActive DEF WorkInv, KeptHaveInput, Active
<1>7. CurrentIsKnown'
  BY <1>2, <1>3 DEF Prune, WorkInv, Shape, RunnerOK, CurrentIsKnown, runner
<1> QED
  BY <1>4, <1>5, <1>6, <1>7 DEF WorkInv, Shape

LEMMA CrashKeeps == ASSUME WorkInv, Crash \/ CrashInFinish PROVE WorkInv'
<1>1. Down /\ UNCHANGED <<store, disk, permitted>>
  BY DEF Crash, CrashInFinish, jobVars
<1>2. job' \in [Paths -> [Targets -> {"none", "pending", "translating", "done"}]]
  <2>1. CASE Crash
    BY <2>1 DEF Crash, WorkInv, Shape, FilesOK, jobVars
  <2>2. CASE CrashInFinish
    <3>1. PICK d \in NextUp :
            /\ items[d].out # NoPath
            /\ \E new \in SUBSET InState(d, "none") \ {{}} : Queues(items[d].out, new)
      BY <2>2 DEF CrashInFinish
    <3>2. items[d].out \in Paths
      BY <3>1 DEF NextUp, Queued, With, WorkInv, Shape, StoreShape, Records
    <3> QED
      BY <3>1, <3>2 DEF Queues, WorkInv, Shape, FilesOK
  <2> QED
    BY <2>1, <2>2
<1>3. RunnerOK' /\ FilesOK' /\ CurrentIsKnown'
  BY <1>1, <1>2 DEF Down, NoRunLeft, WorkInv, Shape, RunnerOK, FilesOK,
                    CurrentIsKnown, disk
<1> QED
  BY <1>1, <1>3, SameStore, SameItems DEF WorkInv, Shape, store

LEMMA BootKeeps == ASSUME WorkInv, Boot PROVE WorkInv'
<1>1. items' = Recovered /\ current = NoId /\ current' = NoId
  BY DEF Boot, WorkInv, CurrentIsKnown
<1>2. ASSUME NEW d \in Ids
      PROVE  /\ items'[d] \in Records /\ items'[d].input = items[d].input
             /\ \/ items'[d].status = items[d].status
                \/ items'[d].status = "queued" /\ items[d].status = "running"
  <2>1. items[d] \in Records /\ "queued" \in Statuses
    BY DEF WorkInv, Shape, StoreShape, Statuses, Active
  <2>2. items'[d] = IF items[d].status = "running"
                    THEN [items[d] EXCEPT !.status = "queued"] ELSE items[d]
    BY <1>1 DEF Recovered
  <2> QED
    BY <2>1, <2>2, StatusOf
<1>3. items' \in [Ids -> Records]
  BY <1>1, <1>2 DEF Recovered
<1>4. StoreShape' /\ RunnerOK'
  BY <1>3 DEF Boot, BootStarts, WorkInv, Shape, StoreShape, RunnerOK
<1>5. FilesOK'
  BY DEF Boot, WorkInv, Shape, FilesOK, disk
<1>6. KeptHaveInput' /\ OneActivePerInput'
  BY <1>2, NoneBecomesActive DEF WorkInv, KeptHaveInput, Active
<1>7. CurrentIsKnown'
  BY <1>1 DEF CurrentIsKnown
<1> QED
  BY <1>4, <1>5, <1>6, <1>7 DEF WorkInv, Shape

LEMMA CancelNotSavedKeeps ==
  ASSUME WorkInv, NEW d \in Ids, CancelNotSaved(d)
  PROVE  WorkInv'
<1>1. UNCHANGED <<store, up, drain, current, published, disk, jobVars>>
  BY DEF CancelNotSaved
<1>2. /\ cancelled' = cancelled \cup {d} /\ UNCHANGED items
      /\ RunnerOK' /\ FilesOK'
  BY <1>1 DEF CancelNotSaved, WorkInv, Shape, RunnerOK, FilesOK, store, disk, jobVars
<1>3. CurrentIsKnown'
  BY <1>1, <1>2 DEF WorkInv, CurrentIsKnown
<1> QED
  BY <1>1, <1>2, <1>3, SameItems, SameStore DEF WorkInv, Shape

-----------------------------------------------------------------------------
\* Every step keeps the invariant.
LEMMA StepKeepsWork == WorkInv /\ [Next]_vars => WorkInv'
<1> SUFFICES ASSUME WorkInv, [Next]_vars PROVE WorkInv'
  OBVIOUS
<1>1. CASE DrainStep
  BY <1>1, TakesUpKeeps, RunPublishesKeeps, RunEndsKeeps, FinishesKeeps,
     DrainStopsKeep DEF DrainStep
<1>2. CASE UserStep
  <2>1. CASE \E k \in Keys \cup {NoKey}, i \in Inputs : Submit(k, i)
    BY <2>1, SubmitKeeps
  <2>2. CASE \E k \in Keys : Resubmit(k)
    <3>1. UNCHANGED <<store, up, current, published, cancelled, disk, jobVars>>
      BY <2>2 DEF Resubmit
    <3>2. RunnerOK' /\ FilesOK' /\ CurrentIsKnown'
      BY <2>2, <3>1 DEF Resubmit, Starts, WorkInv, Shape, RunnerOK, FilesOK,
                        CurrentIsKnown, store, disk, jobVars
    <3> QED
      BY <3>1, <3>2, SameStore, SameItems DEF WorkInv, Shape, store
  <2>3. CASE \E d \in Ids : Cancel(d) \/ CancelNotSaved(d)
    BY <2>3, CancelKeeps, CancelNotSavedKeeps
  <2>4. CASE \E d \in Ids : \E ts \in SUBSET Targets : Approve(d, ts)
    BY <2>4, ApproveKeeps
  <2> QED
    BY <1>2, <2>1, <2>2, <2>3, <2>4, FileStepsKeep DEF UserStep
<1>3. CASE WorldStep
  BY <1>3, CrashKeeps, BootKeeps, PruneKeeps, FileStepsKeep DEF WorldStep
<1>4. CASE UNCHANGED vars
  <2>1. Shape' /\ CurrentIsKnown' /\ UNCHANGED items
    BY <1>4, SameStore DEF vars, store, runner, disk, jobVars, WorkInv, Shape, RunnerOK,
                FilesOK, CurrentIsKnown
  <2> QED
    BY <2>1, SameItems
<1> QED
  BY <1>1, <1>2, <1>3, <1>4 DEF Next

\* The shape of every variable of the work queue, in every state it reaches.
THEOREM WorkTypes == Spec => []TypeOK
<1>1. WorkInv => TypeOK
  BY ShapeIsTypeOK DEF WorkInv
<1> QED
  BY <1>1, InitWork, StepKeepsWork, PTL DEF Spec

\* A video never has two items that are queued, running or under review, for
\* any videos, plans and keys: through repeated submissions, cancels in the
\* middle of a run, failed saves and restarts (enqueue, cancel, recover).
THEOREM OneItemWorksOnAVideo == Spec => []OneActivePerInput
<1>1. WorkInv => OneActivePerInput
  BY DEF WorkInv
<1> QED
  BY <1>1, InitWork, StepKeepsWork, PTL DEF Spec

-----------------------------------------------------------------------------
(* A cancel holds.  What is marked as cancelled while its run goes on is   *)
(* running, cancelled or dropped, and forgotten when the process dies.     *)

Stopped == {"running", "cancelled", "pruned"}
MarksHold == \A d \in cancelled : up /\ items[d].status \in Stopped
CancelInv == WorkInv /\ MarksHold

\* What CancelSticks asks of one step, and the marks it leaves.
Sticks ==
  /\ \A d \in Ids :
       /\ items[d].status = "cancelled" => items'[d].status \in {"cancelled", "pruned"}
       /\ Aborted(d) /\ up' => items'[d].status \in Stopped
  /\ MarksHold'

LEMMA SameItemsStick ==
  ASSUME CancelInv, UNCHANGED items, cancelled' \subseteq cancelled,
         up' \/ cancelled' = {}
  PROVE  Sticks
BY DEF CancelInv, MarksHold, Sticks, Stopped, Aborted

\* One item changes, which is not cancelled before, or is not active after.
LEMMA OneItemSticks ==
  ASSUME CancelInv, up', NEW d \in Ids, NEW new,
         items' = [items EXCEPT ![d] = new],
         cancelled' \subseteq cancelled \cup {d},
         Aborted(d) \/ d \in cancelled' => new.status \in Stopped,
         items[d].status = "cancelled" => new.status \in {"cancelled", "pruned"}
  PROVE  Sticks
<1>1. \A e \in Ids : items'[e] = IF e = d THEN new ELSE items[e]
  BY DEF CancelInv, WorkInv, Shape, StoreShape
<1>2. cancelled \subseteq Ids
  BY DEF CancelInv, WorkInv, Shape, RunnerOK
<1> QED
  BY <1>1, <1>2 DEF CancelInv, MarksHold, Sticks, Stopped, Aborted

LEMMA RunEndsSticks == ASSUME CancelInv, RunEnds PROVE Sticks
<1>1. current # NoId /\ current \in Ids
  BY DEF RunEnds, RunReturns, RunFails, CancelInv, WorkInv, Shape, RunnerOK
<1>2. /\ up /\ items[current] \in Records
      /\ items[current].status = "cancelled" => current \in cancelled
  BY <1>1 DEF CancelInv, WorkInv, Shape, StoreShape, CurrentIsKnown
<1>3. PICK new : /\ Update(current, new, {}) /\ up' = up
                 /\ cancelled' = cancelled \ {current}
                 /\ Aborted(current) => new.status = "cancelled"
  <2>1. CASE RunReturns
    <3>1. Aborted(current) => Returned(current).status = "cancelled"
      BY <1>2 DEF Aborted, Returned, Records
    <3> QED
      BY <2>1, <3>1 DEF RunReturns
  <2>2. CASE RunFails
    <3> DEFINE st == IF Aborted(current) THEN "cancelled" ELSE "failed"
    <3>1. [items[current] EXCEPT !.status = st].status = st
      BY <1>2 DEF Records
    <3> QED
      BY <2>2, <3>1 DEF RunFails
  <2> QED
    BY <2>1, <2>2 DEF RunEnds
<1> QED
  BY <1>1, <1>2, <1>3, OneItemSticks DEF Update, Stopped, Aborted

LEMMA CancelSticksNow == ASSUME CancelInv, NEW d \in Ids, Cancel(d) PROVE Sticks
<1>1. items[d] \in Records /\ items[d].status \in Active
  BY DEF Cancel, CancelInv, WorkInv, Shape, StoreShape
<1>2. CASE MarksAtOnce(d)
  <2> DEFINE new == [items[d] EXCEPT !.status = "cancelled"]
  <2>1. new.status = "cancelled" /\ items' = [items EXCEPT ![d] = new]
    BY <1>1, <1>2 DEF Cancel, Update, Records
  <2> HIDE DEF new
  <2> QED
    BY <2>1, OneItemSticks DEF Cancel, Stopped, Aborted
<1>3. CASE ~MarksAtOnce(d)
  <2>1. items' = items /\ items[d].status = "running"
    BY <1>3 DEF Cancel, MarksAtOnce
  <2> QED
    BY <2>1 DEF Cancel, CancelInv, MarksHold, Sticks, Stopped, Aborted
<1> QED
  BY <1>2, <1>3

\* A cancel that could not be saved marks an item that runs.
LEMMA CancelNotSavedSticks ==
  ASSUME CancelInv, NEW d \in Ids, CancelNotSaved(d)
  PROVE  Sticks
<1>1. /\ items' = items /\ up' /\ up = up' /\ items[d].status = "running"
      /\ cancelled' = cancelled \cup {d}
  BY DEF CancelNotSaved, store
<1> QED
  BY <1>1 DEF CancelInv, MarksHold, Sticks, Stopped, Aborted

LEMMA QueuedItemSticks ==
  ASSUME CancelInv, TakesUp \/ Finishes
  PROVE  Sticks
<1>1. \E d \in NextUp : \E new : items' = [items EXCEPT ![d] = new]
  <2>1. CASE TakesUp
    <3>1. PICK d \in NextUp : items' = [items EXCEPT ![d].status = "running",
                                                    ![d].begun = Begun(d)]
      BY <2>1, Zenon DEF TakesUp
    <3>2. items' = [items EXCEPT ![d] =
                     [@ EXCEPT !.status = "running", !.begun = Begun(d)]]
      BY <3>1
    <3> QED
      BY <3>2
  <2>2. CASE Finishes
    <3>1. PICK d \in NextUp : Hands(d) \/ HandsNot(d)
      BY <2>2 DEF Finishes
    <3>2. \E st, accepted : End(d, st, accepted)
      BY <3>1 DEF Hands, HandsNot
    <3> QED
      BY <3>2 DEF End, Update
  <2> QED
    BY <2>1, <2>2
<1>2. PICK d \in NextUp : \E new : items' = [items EXCEPT ![d] = new]
  BY <1>1
<1>3. d \in Ids /\ items[d].status = "queued"
  BY DEF NextUp, Queued, With
<1>4. d \notin cancelled
  BY <1>3 DEF CancelInv, MarksHold, Stopped
<1>5. up' /\ cancelled' = cancelled
  BY DEF TakesUp, Finishes, runner, Idle
<1> QED
  BY <1>2, <1>3, <1>4, <1>5, OneItemSticks DEF Aborted

LEMMA UserStepSticks == ASSUME CancelInv, UserStep PROVE Sticks
<1>1. ASSUME NEW k \in Keys \cup {NoKey}, NEW i \in Inputs, Submit(k, i) PROVE Sticks
  <2>1. up' /\ cancelled' = cancelled
    BY <1>1 DEF Submit
  <2>2. CASE UNCHANGED items
    BY <2>1, <2>2, SameItemsStick
  <2>3. CASE \E d \in With("absent") : \E new : items' = [items EXCEPT ![d] = new]
    <3>1. PICK d \in With("absent") : \E new : items' = [items EXCEPT ![d] = new]
      BY <2>3
    <3>2. d \in Ids /\ items[d].status = "absent"
      BY DEF With
    <3>3. d \notin cancelled
      BY <3>2 DEF CancelInv, MarksHold, Stopped
    <3> QED
      BY <2>1, <3>1, <3>2, <3>3, OneItemSticks DEF Aborted
  <2> QED
    BY <1>1, <2>2, <2>3 DEF Submit
<1>2. ASSUME NEW d \in Ids, NEW ts \in SUBSET Targets, Approve(d, ts) PROVE Sticks
  <2>1. PICK new : items' = [items EXCEPT ![d] = new]
    BY <1>2 DEF Approve
  <2>2. up' /\ cancelled' = cancelled /\ items[d].status = "needs_review"
    BY <1>2 DEF Approve
  <2>3. d \notin cancelled
    BY <2>2 DEF CancelInv, MarksHold, Stopped
  <2> QED
    BY <2>1, <2>2, <2>3, OneItemSticks DEF Aborted
<1>3. CASE \/ \E k \in Keys : Resubmit(k)
           \/ \E d \in Ids : ApprovalNotSaved(d)
           \/ \E p \in Paths : EditFile(p) \/ \E t \in Targets : TranslateFile(p, t)
  <2>1. UNCHANGED <<items, up, cancelled>>
    BY <1>3 DEF Resubmit, ApprovalNotSaved, EditFile, TranslateFile, store, runner
  <2> QED
    BY <2>1, SameItemsStick DEF CancelInv, MarksHold
<1> QED
  BY <1>1, <1>2, <1>3, CancelSticksNow, CancelNotSavedSticks DEF UserStep

LEMMA WorldStepSticks == ASSUME CancelInv, WorldStep PROVE Sticks
<1>1. CASE Crash \/ CrashInFinish
  <2>1. UNCHANGED items /\ cancelled' = {}
    BY <1>1 DEF Crash, CrashInFinish, Down, store
  <2> QED
    BY <2>1, SameItemsStick
<1>2. CASE Boot
  <2>1. cancelled = {} /\ cancelled' = {}
    BY <1>2 DEF Boot, CancelInv, MarksHold
  <2>2. \A d \in Ids : items[d].status = "cancelled" => items'[d] = items[d]
    BY <1>2 DEF Boot, Recovered
  <2> QED
    BY <2>1, <2>2 DEF Sticks, MarksHold, Aborted
<1>3. ASSUME NEW d \in Ids, Prune(d) PROVE Sticks
  <2> DEFINE new == [Absent EXCEPT !.status = "pruned"]
  <2>1. new.status = "pruned"
    BY DEF Absent
  <2>2. items' = [items EXCEPT ![d] = new] /\ up' /\ cancelled' = cancelled
    BY <1>3 DEF Prune, runner
  <2> HIDE DEF new
  <2> QED
    BY <2>1, <2>2, OneItemSticks DEF Stopped
<1>4. CASE \E p \in Paths, t \in Targets :
             ScanQueues(p, t) \/ JobStarts(p, t) \/ JobEnds(p, t)
  <2>1. UNCHANGED <<items, up, cancelled>>
    BY <1>4 DEF ScanQueues, JobStarts, JobEnds, Becomes, store, runner
  <2> QED
    BY <2>1, SameItemsStick DEF CancelInv, MarksHold
<1> QED
  BY <1>1, <1>2, <1>3, <1>4 DEF WorldStep

LEMMA StepSticks == CancelInv /\ [Next]_vars => Sticks
<1> SUFFICES ASSUME CancelInv, [Next]_vars PROVE Sticks
  OBVIOUS
<1>1. CASE RunPublishes \/ DrainEnds \/ DrainGivesUp \/ RunLost \/ UNCHANGED vars
  <2>1. UNCHANGED <<items, up>> /\ cancelled' \subseteq cancelled
    BY <1>1 DEF RunPublishes, DrainEnds, DrainGivesUp, RunLost, vars, store, runner
  <2> QED
    BY <2>1, SameItemsStick DEF CancelInv, MarksHold
<1> QED
  BY <1>1, RunEndsSticks, QueuedItemSticks, UserStepSticks, WorldStepSticks
     DEF Next, DrainStep

\* A cancel that was accepted holds, for any videos, plans, keys and bounds:
\* the item never succeeds, waits for review or is queued again, whatever its
\* run had done by then, unless the process dies first (cancel, drain, recover).
THEOREM CancelIsKept == Spec => CancelSticks
<1>1. Init => MarksHold
  BY DEF Init, MarksHold
<1>2. CancelInv /\ [Next]_vars => CancelInv'
  BY StepKeepsWork, StepSticks DEF CancelInv, Sticks
<1>3. Spec => []CancelInv
  BY <1>1, <1>2, InitWork, PTL DEF Spec, CancelInv
<1>4. CancelInv /\ [Next]_vars =>
        [\A d \in Ids :
           LET now == items'[d].status
           IN  /\ items[d].status = "cancelled" => now \in {"cancelled", "pruned"}
               /\ Aborted(d) /\ up' => now \in {"running", "cancelled", "pruned"}]_vars
  BY StepSticks DEF Sticks, Stopped
<1> QED
  BY <1>3, <1>4, PTL DEF Spec, CancelSticks

-----------------------------------------------------------------------------
(* No start is lost: the part of QueuedWorkMoves that is about states.     *)

\* Whatever is queued while the process runs is seen by a drain that is on,
\* unless the store could not be saved; and so is a run that is not over.
QueuedIsDriven ==
  /\ up /\ Queued # {} => drain # "off"
  /\ current # NoId => drain = "on"

LEMMA DrivenOn == ASSUME drain' = "on" PROVE QueuedIsDriven'
BY DEF QueuedIsDriven

\* With the drain as it was, only a step that queues an item could lose it.
LEMMA NothingIsQueued ==
  ASSUME QueuedIsDriven, UNCHANGED <<up, drain, current>>,
         \A d \in Ids : items'[d].status = "queued" => items[d].status = "queued"
  PROVE  QueuedIsDriven'
<1>1. Queued' # {} => Queued # {}
  BY DEF Queued, With
<1> QED
  BY <1>1 DEF QueuedIsDriven

LEMMA StepKeepsDriven ==
  ASSUME WorkInv, QueuedIsDriven, [Next]_vars
  PROVE  QueuedIsDriven'
<1>0. items \in [Ids -> Records] /\ (published # NoPath => current # NoId)
  BY DEF WorkInv, Shape, StoreShape, RunnerOK
<1>1. ASSUME UNCHANGED <<items, up, drain, current>> PROVE QueuedIsDriven'
  BY <1>1, NothingIsQueued
<1>2. CASE DrainStep
  <2>1. CASE TakesUp \/ Finishes
    BY <2>1, DrivenOn DEF TakesUp, Finishes, Idle, runner
  <2>2. CASE RunPublishes \/ RunReturns \/ RunFails
    BY <1>0, <2>2, DrivenOn DEF RunPublishes, RunReturns, RunFails, QueuedIsDriven
  <2>3. CASE DrainEnds
    <3>1. Queued' = {} /\ current' = NoId
      BY <2>3 DEF DrainEnds, Idle, Queued, With, store
    <3> QED
      BY <3>1 DEF QueuedIsDriven
  <2>4. CASE DrainGivesUp \/ RunLost
    <3>1. drain' # "off" /\ current' = NoId
      BY <2>4 DEF DrainGivesUp, RunLost, Idle, NoRunLeft
    <3> QED
      BY <3>1 DEF QueuedIsDriven
  <2> QED
    BY <1>2, <2>1, <2>2, <2>3, <2>4 DEF DrainStep, RunEnds
<1>3. CASE UserStep
  <2>1. ASSUME \/ \E k \in Keys \cup {NoKey}, i \in Inputs : Submit(k, i)
               \/ \E k \in Keys : Resubmit(k)
               \/ \E d \in Ids, ts \in SUBSET Targets : Approve(d, ts)
        PROVE  QueuedIsDriven'
    <3>1. \A k \in Keys \cup {NoKey}, i \in Inputs : Submit(k, i) => drain' = "on"
      BY DEF Submit, Starts
    <3>2. \A k \in Keys : Resubmit(k) => drain' = "on"
      BY DEF Resubmit, Starts
    <3>3. \A d \in Ids, ts \in SUBSET Targets : Approve(d, ts) => drain' = "on"
      BY DEF Approve, Starts
    <3> QED
      BY <2>1, <3>1, <3>2, <3>3, DrivenOn
  <2>2. ASSUME NEW d \in Ids, Cancel(d) PROVE QueuedIsDriven'
    <3>1. CASE MarksAtOnce(d)
      <4>1. \A e \in Ids : items'[e].status =
                             IF e = d THEN "cancelled" ELSE items[e].status
        BY <1>0, <2>2, <3>1 DEF Cancel, Update, Records
      <4> QED
        BY <2>2, <4>1, NothingIsQueued DEF Cancel
    <3>2. CASE ~MarksAtOnce(d)
      BY <1>1, <2>2, <3>2 DEF Cancel
    <3> QED
      BY <3>1, <3>2
  <2>3. ASSUME NEW d \in Ids, CancelNotSaved(d) \/ ApprovalNotSaved(d)
        PROVE  QueuedIsDriven'
    BY <1>1, <2>3 DEF CancelNotSaved, ApprovalNotSaved, store, runner
  <2>4. ASSUME NEW p \in Paths, EditFile(p) \/ \E t \in Targets : TranslateFile(p, t)
        PROVE  QueuedIsDriven'
    BY <1>1, <2>4 DEF EditFile, TranslateFile, store, runner
  <2> QED
    BY <1>3, <2>1, <2>2, <2>3, <2>4 DEF UserStep
<1>4. CASE WorldStep
  <2>1. CASE Crash \/ CrashInFinish
    BY <2>1 DEF Crash, CrashInFinish, Down, NoRunLeft, QueuedIsDriven
  <2>2. CASE Boot
    BY <2>2, DrivenOn DEF Boot, BootStarts
  <2>3. ASSUME NEW d \in Ids, Prune(d) PROVE QueuedIsDriven'
    <3>1. \A e \in Ids : items'[e].status =
                           IF e = d THEN "pruned" ELSE items[e].status
      BY <1>0, <2>3 DEF Prune, Absent
    <3> QED
      BY <2>3, <3>1, NothingIsQueued DEF Prune, runner
  <2>4. ASSUME NEW p \in Paths, NEW t \in Targets,
               ScanQueues(p, t) \/ JobStarts(p, t) \/ JobEnds(p, t)
        PROVE  QueuedIsDriven'
    BY <1>1, <2>4 DEF ScanQueues, JobStarts, JobEnds, Becomes, store, runner
  <2> QED
    BY <1>4, <2>1, <2>2, <2>3, <2>4 DEF WorldStep
<1>5. CASE UNCHANGED vars
  BY <1>1, <1>5 DEF vars, store, runner
<1> QED
  BY <1>2, <1>3, <1>4, <1>5 DEF Next

\* No start is lost: an item that a request, an approval, the end of a run or a
\* restart queues finds the drain on, also when it comes while the drain ends,
\* unless the store could not be saved (WorkRunner.start, drain, recover).
THEOREM NoStartIsLost == Spec => []QueuedIsDriven
<1>1. Init => QueuedIsDriven
  BY DEF Init, QueuedIsDriven, Queued, With, Absent
<1>2. WorkInv /\ QueuedIsDriven /\ [Next]_vars => QueuedIsDriven'
  BY StepKeepsDriven
<1> QED
  BY <1>1, <1>2, InitWork, StepKeepsWork, PTL DEF Spec

-----------------------------------------------------------------------------
(* The work queue implements WorkLedger: every step of it is a step of the *)
(* ledger, or leaves the ledger alone.  A run that a crash cut off is      *)
(* queued anew only because a running item has no transcript yet.          *)

RunningIsFresh == \A d \in Ids : items[d].status = "running" => items[d].out = NoPath
LedgerInv == WorkInv /\ RunningIsFresh
LedgerStep == Ledger!WorkNext /\ RunningIsFresh'

\* The ledger sees the items that are queued, the active ones, and the next.
LEMMA LedgerSees ==
  ASSUME LedgerInv, NEW d \in Ids
  PROVE  /\ LedgerStage[d] = StageOf(items[d]) /\ LedgerVideo[d] = items[d].input
         /\ items[d].status = "queued" <=> Ledger!InLine(d)
         /\ items[d].status \in Active <=> Ledger!Open(d)
 <1>1. LedgerStage[d] = StageOf(items[d]) /\ LedgerVideo[d] = items[d].input
  BY DEF LedgerStage, LedgerVideo
<1>2. items[d].status \in Statuses
  BY DEF LedgerInv, WorkInv, Shape, StoreShape, Records
<1> QED
  BY <1>1, <1>2 DEF StageOf, Statuses, Active, Final, Ledger!InLine, Ledger!Open

LEMMA LedgerNextUp ==
  ASSUME LedgerInv, NEW d \in NextUp PROVE d \in Ids /\ Ledger!First(d)
<1>1. d \in Ids /\ items[d].status = "queued"
  BY DEF NextUp, Queued, With
<1>2. \A e \in Ids : Ledger!InLine(e) => d <= e
  BY LedgerSees DEF NextUp, Queued, With
<1> QED
  BY <1>1, <1>2, LedgerSees DEF Ledger!First

\* Steps that leave the ledger alone.
LEMMA LedgerStays ==
  ASSUME LedgerInv, UNCHANGED <<items, current>>
  PROVE  LedgerStep
<1>1. UNCHANGED <<LedgerStage, LedgerVideo, current>>
  BY DEF LedgerStage, LedgerVideo
<1>2. RunningIsFresh'
  BY DEF LedgerInv, RunningIsFresh
<1> QED
  BY <1>1, <1>2 DEF LedgerStep, Ledger!WorkNext, Ledger!workLedger

\* One item is saved: it alone goes to another stage.
LEMMA ItemGoes ==
  ASSUME LedgerInv, NEW d \in Ids, NEW new,
         new.input = items[d].input, new.status = "running" => new.out = NoPath,
         items' = [items EXCEPT ![d] = new]
  PROVE  Ledger!Goes(d, StageOf(new)) /\ RunningIsFresh'
<1>1. \A e \in Ids : items'[e] = IF e = d THEN new ELSE items[e]
  BY DEF LedgerInv, WorkInv, Shape, StoreShape
<1>2. LedgerStage' = [e \in Ids |-> StageOf(items'[e])]
  BY DEF LedgerStage, StageOf
<1>3. LedgerStage' = [LedgerStage EXCEPT ![d] = StageOf(new)]
  <2>1. \A e \in Ids : StageOf(items'[e]) = IF e = d THEN StageOf(new)
                                            ELSE StageOf(items[e])
    BY <1>1
  <2> QED
    BY <1>2, <2>1 DEF LedgerStage
<1>4. LedgerVideo' = LedgerVideo
  BY <1>1 DEF LedgerVideo
<1>5. RunningIsFresh'
  BY <1>1 DEF RunningIsFresh, LedgerInv
<1> QED
  BY <1>3, <1>4, <1>5 DEF Ledger!Goes

LEMMA StageOfStatus ==
  ASSUME NEW x \in Records
  PROVE  /\ x.status \in {"cancelled", "failed"} => StageOf(x) = "stopped"
         /\ x.status = "queued" => StageOf(x) = IF x.out = NoPath THEN "queued" ELSE "handing"
         /\ x.status \in {"running", "needs_review", "succeeded"} => StageOf(x) = x.status
BY DEF StageOf

LEMMA SubmitInLedger ==
  ASSUME LedgerInv, NEW k \in Keys \cup {NoKey}, NEW i \in Inputs, Submit(k, i)
  PROVE  LedgerStep
<1>1. CASE UNCHANGED items
  BY <1>1, LedgerStays DEF Submit
<1>2. CASE ~UNCHANGED items
  <2>1. PICK d \in With("absent") :
          /\ Existing(i) = {} /\ \A e \in With("absent") : d <= e
          /\ items' = [items EXCEPT ![d] =
               [Absent EXCEPT !.status = "queued", !.input = i, !.batch = k]]
    BY <1>2 DEF Submit
  <2>2. d \in Ids /\ items[d].status = "absent"
    BY <2>1 DEF With
  <2> DEFINE new == [Absent EXCEPT !.status = "queued", !.input = i, !.batch = k]
  <2>3. new.status = "queued" /\ new.out = NoPath /\ new.input = i
    BY DEF Absent
  <2>4. items' = [items EXCEPT ![d] = new]
    BY <2>1
  <2> HIDE DEF new
  <2>5. \A e \in Ids : items'[e] = IF e = d THEN new ELSE items[e]
    BY <2>2, <2>4 DEF LedgerInv, WorkInv, Shape, StoreShape
  <2>6. LedgerStage' = [LedgerStage EXCEPT ![d] = "queued"]
    <3>1. LedgerStage' = [e \in Ids |-> StageOf(items'[e])]
      BY DEF LedgerStage, StageOf
    <3>2. StageOf(new) = "queued"
      BY <2>3 DEF StageOf
    <3> QED
      BY <2>5, <3>1, <3>2 DEF LedgerStage
  <2>7. LedgerVideo' = [LedgerVideo EXCEPT ![d] = i]
    BY <2>3, <2>5 DEF LedgerVideo
  <2>8. LedgerStage[d] = "absent" /\ \A e \in Ids : e < d => LedgerStage[e] # "absent"
    <3>1. \A e \in Ids : e < d => items[e].status # "absent"
      BY <2>1, <2>2 DEF With, Ids
    <3>2. \A e \in Ids : LedgerStage[e] = "absent" <=> items[e].status = "absent"
      BY DEF LedgerStage, StageOf
    <3> QED
      BY <2>2, <3>1, <3>2
  <2>9. \A e \in Ids : Ledger!Open(e) => LedgerVideo[e] # i
    BY <2>1, LedgerSees DEF Existing
  <2>10. Ledger!Accept(d, i)
    BY <2>6, <2>7, <2>8, <2>9 DEF Ledger!Accept, Submit
  <2>11. RunningIsFresh'
    BY <2>3, <2>5 DEF RunningIsFresh, LedgerInv
  <2> QED
    BY <2>2, <2>10, <2>11 DEF LedgerStep, Ledger!WorkNext
<1> QED
  BY <1>1, <1>2

LEMMA TakesUpInLedger == ASSUME LedgerInv, TakesUp PROVE LedgerStep
<1>1. PICK d \in NextUp :
        /\ items[d].out = NoPath
        /\ items' = [items EXCEPT ![d].status = "running", ![d].begun = Begun(d)]
        /\ current' = d
  BY DEF TakesUp
<1>2. d \in Ids /\ Ledger!First(d) /\ items[d].status = "queued" /\ items[d] \in Records
  BY LedgerNextUp DEF NextUp, Queued, With, LedgerInv, WorkInv, Shape, StoreShape
<1> DEFINE new == [items[d] EXCEPT !.status = "running", !.begun = Begun(d)]
<1>3. new.status = "running" /\ new.out = NoPath /\ new.input = items[d].input
  BY <1>1, <1>2 DEF Records
<1>4. items' = [items EXCEPT ![d] = new]
  BY <1>1
<1> HIDE DEF new
<1>5. Ledger!Goes(d, "running") /\ RunningIsFresh'
  BY <1>2, <1>3, <1>4, ItemGoes DEF StageOf
<1>6. LedgerStage[d] = "queued"
  BY <1>1, <1>2, LedgerSees DEF StageOf
<1> QED
  BY <1>1, <1>2, <1>5, <1>6 DEF TakesUp, Idle, LedgerStep, Ledger!WorkNext, Ledger!Begin

\* What a run that is over leaves of its item: a transcript for its review or
\* to be handed on, or nothing.
LEMMA RunEndsInLedger ==
  ASSUME LedgerInv, current # NoId, current' = NoId, NEW new \in Records,
         new.input = items[current].input, items' = [items EXCEPT ![current] = new],
         \/ new.status \in {"cancelled", "failed"}
         \/ /\ current \notin cancelled
            /\ IF IsReviewed(current) THEN new.status = "needs_review"
               ELSE \/ new.status = "queued" /\ new.out # NoPath
                    \/ new.status = "succeeded"
  PROVE  LedgerStep
<1>1. current \in Ids /\ items[current] \in Records
  BY DEF LedgerInv, WorkInv, Shape, RunnerOK, StoreShape
<1>2. \/ items[current].status = "running"
      \/ items[current].status = "cancelled" /\ current \in cancelled
  BY DEF LedgerInv, WorkInv, CurrentIsKnown
<1>3. Ledger!Goes(current, StageOf(new)) /\ RunningIsFresh'
  BY <1>1, ItemGoes
<1>4. LedgerStage[current] = StageOf(items[current]) /\ LedgerVideo[current] = items[current].input
  BY <1>1, LedgerSees
<1>5. CASE items[current].status = "running" /\ new.status \in {"cancelled", "failed"}
  <2>1. StageOf(new) = "stopped" /\ Ledger!Open(current)
    BY <1>1, <1>5, StageOfStatus, LedgerSees DEF Active
  <2>2. Ledger!Stop(current)
    BY <1>3, <2>1 DEF Ledger!Stop
  <2> QED
    BY <1>1, <1>3, <2>2 DEF LedgerStep, Ledger!WorkNext
<1>6. CASE items[current].status = "running" /\ new.status \notin {"cancelled", "failed"}
  <2>1. LedgerStage[current] = "running"
    BY <1>1, <1>4, <1>6, StageOfStatus
  <2>2. IF LedgerVideo[current] \in Reviewed THEN Ledger!Goes(current, "needs_review")
        ELSE Ledger!Goes(current, "handing") \/ Ledger!Goes(current, "succeeded")
    BY <1>3, <1>4, <1>6, StageOfStatus DEF IsReviewed
  <2>3. Ledger!Deliver(current)
    BY <2>1, <2>2 DEF Ledger!Deliver
  <2> QED
    BY <1>1, <1>3, <2>3 DEF LedgerStep, Ledger!WorkNext
<1>7. CASE items[current].status = "cancelled" /\ current \in cancelled
  <2>1. StageOf(new) = "stopped" /\ LedgerStage[current] = "stopped"
    BY <1>1, <1>4, <1>7, StageOfStatus
  <2>2. UNCHANGED <<LedgerStage, LedgerVideo>>
    BY <1>1, <1>3, <2>1 DEF Ledger!Goes, LedgerStage
  <2>3. Ledger!Leave
    BY <2>2 DEF Ledger!Leave
  <2> QED
    BY <1>3, <2>3 DEF LedgerStep, Ledger!WorkNext
<1> QED
  BY <1>2, <1>5, <1>6, <1>7

LEMMA RunReturnsInLedger == ASSUME LedgerInv, RunReturns PROVE LedgerStep
<1> DEFINE d == current
<1>1. d # NoId /\ d \in Ids /\ items[d] \in Records /\ published \in Paths
  BY DEF RunReturns, LedgerInv, WorkInv, Shape, RunnerOK, StoreShape
<1>2. current' = NoId /\ items' = [items EXCEPT ![d] = Returned(d)]
  BY DEF RunReturns, Update, NoRunLeft
<1>3. published # NoPath
  BY DEF RunReturns
<1>4. CASE d \in cancelled
  <2>1. /\ Returned(d) \in Records /\ Returned(d).input = items[d].input
        /\ Returned(d).status = "cancelled"
    BY <1>1, <1>4 DEF Returned, Records, Statuses, Final
  <2> QED
    BY <1>1, <1>2, <2>1, RunEndsInLedger
<1>5. CASE d \notin cancelled
  <2> DEFINE st == IF IsReviewed(d) THEN "needs_review"
                   ELSE IF Planned[items[d].input] # {} THEN "queued" ELSE "succeeded"
  <2>1. st \in Statuses
    BY DEF Statuses, Active, Final
  <2>2. Returned(d) = [items[d] EXCEPT !.out = published, !.status = st]
    BY <1>5 DEF Returned, ReturnedUncancelled
  <2> HIDE DEF st
  <2>3. /\ Returned(d) \in Records /\ Returned(d).input = items[d].input
        /\ Returned(d).status = st /\ Returned(d).out = published
    BY <1>1, <2>1, <2>2 DEF Records
  <2>4. IF IsReviewed(d) THEN st = "needs_review" ELSE st = "queued" \/ st = "succeeded"
    BY DEF st
  <2> QED
    BY <1>1, <1>2, <1>3, <1>5, <2>3, <2>4, RunEndsInLedger
<1> QED
  BY <1>4, <1>5

LEMMA RunFailsInLedger == ASSUME LedgerInv, RunFails PROVE LedgerStep
<1> DEFINE st == IF Aborted(current) THEN "cancelled" ELSE "failed"
           new == [items[current] EXCEPT !.status = st]
<1>1. current # NoId /\ current \in Ids /\ items[current] \in Records
  BY DEF RunFails, LedgerInv, WorkInv, Shape, RunnerOK, StoreShape
<1>2. st \in {"cancelled", "failed"} /\ st \in Statuses
  BY DEF Statuses, Final
<1>3. current' = NoId /\ items' = [items EXCEPT ![current] = new]
  BY DEF RunFails, Update, NoRunLeft
<1> HIDE DEF st
<1>4. new \in Records /\ new.status = st /\ new.input = items[current].input
  BY <1>1, <1>2, StatusOf
<1> QED
  BY <1>1, <1>2, <1>3, <1>4, RunEndsInLedger

LEMMA FinishesInLedger == ASSUME LedgerInv, Finishes PROVE LedgerStep
<1>1. PICK d \in NextUp : items[d].out # NoPath /\ (Hands(d) \/ HandsNot(d))
  BY DEF Finishes
<1>2. /\ d \in Ids /\ Ledger!First(d) /\ items[d].status = "queued"
      /\ items[d] \in Records
  BY LedgerNextUp DEF NextUp, Queued, With, LedgerInv, WorkInv, Shape, StoreShape
<1>3. LedgerStage[d] = "handing" /\ LedgerVideo[d] = items[d].input
  BY <1>1, <1>2, LedgerSees DEF StageOf
<1>4. ASSUME NEW st \in {"succeeded", "failed", "needs_review"}, NEW accepted,
             End(d, st, accepted), st = "needs_review" => IsReviewed(d)
      PROVE  LedgerStep
  <2> DEFINE new == [items[d] EXCEPT !.status = st]
  <2>1. new \in Records /\ new.status = st /\ new.input = items[d].input
    BY <1>2, StatusOf DEF Statuses, Final, Active
  <2>2. items' = [items EXCEPT ![d] = new]
    BY <1>4 DEF End, Update
  <2> HIDE DEF new
  <2>3. Ledger!Goes(d, StageOf(new)) /\ RunningIsFresh'
    BY <1>2, <2>1, <2>2, ItemGoes
  <2>4. Ledger!HandOver(d)
    BY <1>2, <1>3, <1>4, <2>1, <2>3, StageOfStatus
    DEF Ledger!HandOver, Finishes, Idle, runner, IsReviewed
  <2> QED
    BY <1>2, <2>3, <2>4 DEF LedgerStep, Ledger!WorkNext
<1>5. CASE Hands(d)
  BY <1>4, <1>5 DEF Hands
<1>6. CASE HandsNot(d)
  BY <1>4, <1>6 DEF HandsNot, ChangedSince
<1> QED
  BY <1>1, <1>5, <1>6

LEMMA CancelInLedger == ASSUME LedgerInv, NEW d \in Ids, Cancel(d) PROVE LedgerStep
<1>1. CASE ~MarksAtOnce(d)
  BY <1>1, LedgerStays DEF Cancel
<1>2. CASE MarksAtOnce(d)
  <2> DEFINE new == [items[d] EXCEPT !.status = "cancelled"]
  <2>1. items[d] \in Records
    BY DEF LedgerInv, WorkInv, Shape, StoreShape
  <2>2. new \in Records /\ new.status = "cancelled" /\ new.input = items[d].input
    BY <2>1, StatusOf DEF Statuses, Final
  <2>3. items' = [items EXCEPT ![d] = new] /\ current' = current
    BY <1>2 DEF Cancel, Update
  <2> HIDE DEF new
  <2>4. Ledger!Goes(d, "stopped") /\ RunningIsFresh'
    BY <2>2, <2>3, ItemGoes, StageOfStatus
  <2>5. Ledger!Stop(d)
    BY <2>3, <2>4, LedgerSees DEF Ledger!Stop, Cancel
  <2> QED
    BY <2>4, <2>5 DEF LedgerStep, Ledger!WorkNext
<1> QED
  BY <1>1, <1>2

LEMMA ApproveInLedger ==
  ASSUME LedgerInv, NEW d \in Ids, NEW ts \in SUBSET Targets, Approve(d, ts)
  PROVE  LedgerStep
<1> DEFINE p == items[d].out
           new == [items[d] EXCEPT !.status = "queued", !.revision = file'[p], !.targets = ts]
<1>1. items[d] \in Records /\ p # NoPath /\ items[d].status = "needs_review"
  BY DEF Approve, LedgerInv, WorkInv, Shape, StoreShape
<1>2. items' = [items EXCEPT ![d] = new] /\ current' = current
  BY DEF Approve
<1>3. new.status = "queued" /\ new.out = p /\ new.input = items[d].input
  BY <1>1 DEF Records
<1> HIDE DEF new
<1>4. Ledger!Goes(d, "handing") /\ RunningIsFresh'
  BY <1>1, <1>2, <1>3, ItemGoes DEF StageOf
<1>5. Ledger!Approve(d)
  BY <1>1, <1>2, <1>4, LedgerSees DEF Ledger!Approve, StageOf
<1> QED
  BY <1>4, <1>5 DEF LedgerStep, Ledger!WorkNext

LEMMA PruneInLedger == ASSUME LedgerInv, NEW d \in Ids, Prune(d) PROVE LedgerStep
<1> DEFINE new == [Absent EXCEPT !.status = "pruned"]
<1>1. new.status = "pruned" /\ new.input = NoInput
  BY DEF Absent
<1>2. \A e \in Ids : items'[e] = IF e = d THEN new ELSE items[e]
  BY DEF Prune, LedgerInv, WorkInv, Shape, StoreShape
<1> HIDE DEF new
<1>3. LedgerStage' = [LedgerStage EXCEPT ![d] = "pruned"]
  <2>1. LedgerStage' = [e \in Ids |-> StageOf(items'[e])]
    BY DEF LedgerStage, StageOf
  <2>2. StageOf(new) = "pruned"
    BY <1>1 DEF StageOf
  <2> QED
    BY <1>2, <2>1, <2>2 DEF LedgerStage
<1>4. LedgerVideo' = [LedgerVideo EXCEPT ![d] = NoInput]
  BY <1>1, <1>2 DEF LedgerVideo
<1>5. LedgerStage[d] \in {"succeeded", "stopped"} /\ current # d /\ current' = current
  BY LedgerSees DEF Prune, Final, StageOf, runner
<1>6. Ledger!Drop(d)
  BY <1>3, <1>4, <1>5 DEF Ledger!Drop
<1>7. RunningIsFresh'
  BY <1>1, <1>2 DEF RunningIsFresh, LedgerInv
<1> QED
  BY <1>6, <1>7 DEF LedgerStep, Ledger!WorkNext

\* The work on an item is over and nothing of it is saved.
LEMMA LeavesLedger ==
  ASSUME LedgerInv, UNCHANGED items, current' = NoId PROVE LedgerStep
<1>1. CASE current = NoId
  BY <1>1, LedgerStays
<1>2. CASE current # NoId
  <2>1. UNCHANGED <<LedgerStage, LedgerVideo>> /\ RunningIsFresh'
    BY DEF LedgerStage, LedgerVideo, LedgerInv, RunningIsFresh
  <2>2. Ledger!Leave
    BY <1>2, <2>1 DEF Ledger!Leave
  <2> QED
    BY <2>1, <2>2 DEF LedgerStep, Ledger!WorkNext
<1> QED
  BY <1>1, <1>2

LEMMA BootInLedger == ASSUME LedgerInv, Boot PROVE LedgerStep
<1>1. current = NoId /\ current' = NoId
  BY DEF Boot, LedgerInv, WorkInv, CurrentIsKnown
<1>2. \A d \in Ids : items'[d] = IF items[d].status = "running"
                                   THEN [items[d] EXCEPT !.status = "queued"] ELSE items[d]
  BY DEF Boot, Recovered
<1>3. \A d \in Ids : /\ items'[d].input = items[d].input
                     /\ items'[d].status # "running"
                     /\ StageOf(items'[d]) = IF StageOf(items[d]) = "running" THEN "queued"
                                             ELSE StageOf(items[d])
  <2> SUFFICES ASSUME NEW d \in Ids
               PROVE  /\ items'[d].input = items[d].input
                      /\ items'[d].status # "running"
                      /\ StageOf(items'[d]) = IF StageOf(items[d]) = "running" THEN "queued"
                                              ELSE StageOf(items[d])
    OBVIOUS
  <2>1. items[d] \in Records
    BY DEF LedgerInv, WorkInv, Shape, StoreShape
  <2>2. CASE items[d].status = "running"
    <3>1. items[d].out = NoPath /\ items'[d] = [items[d] EXCEPT !.status = "queued"]
      BY <1>2, <2>2 DEF LedgerInv, RunningIsFresh
    <3>2. /\ items'[d].input = items[d].input /\ items'[d].status = "queued"
          /\ items'[d].out = NoPath
      BY <2>1, <3>1 DEF Records
    <3> QED
      BY <2>2, <3>2 DEF StageOf
  <2>3. CASE items[d].status # "running"
    <3>1. items'[d] = items[d]
      BY <1>2, <2>3
    <3> QED
      BY <2>3, <3>1 DEF StageOf
  <2> QED
    BY <2>2, <2>3
<1>4. LedgerVideo' = LedgerVideo
  BY <1>3 DEF LedgerVideo
<1>5. LedgerStage' = [d \in Ids |-> IF LedgerStage[d] = "running" THEN "queued"
                                    ELSE LedgerStage[d]]
  <2>1. LedgerStage' = [e \in Ids |-> StageOf(items'[e])]
    BY DEF LedgerStage, StageOf
  <2> QED
    BY <1>3, <2>1 DEF LedgerStage
<1>6. Ledger!Recover
  BY <1>1, <1>4, <1>5 DEF Ledger!Recover
<1>7. RunningIsFresh'
  BY <1>3 DEF RunningIsFresh
<1> QED
  BY <1>6, <1>7 DEF LedgerStep, Ledger!WorkNext

LEMMA StepInLedger == ASSUME LedgerInv, [Next]_vars PROVE LedgerStep
<1>1. CASE DrainStep
  <2>1. CASE RunPublishes \/ DrainEnds \/ DrainGivesUp
    BY <2>1, LedgerStays DEF RunPublishes, DrainEnds, DrainGivesUp, store
  <2>2. CASE RunLost
    BY <2>2, LeavesLedger DEF RunLost, NoRunLeft, store
  <2> QED
    BY <1>1, <2>1, <2>2, TakesUpInLedger, RunReturnsInLedger, RunFailsInLedger,
       FinishesInLedger DEF DrainStep, RunEnds
<1>2. CASE UserStep
  <2>1. ASSUME NEW k \in Keys, Resubmit(k) PROVE LedgerStep
    BY <2>1, LedgerStays DEF Resubmit, store
  <2>2. ASSUME NEW d \in Ids, CancelNotSaved(d) \/ ApprovalNotSaved(d)
        PROVE  LedgerStep
    BY <2>2, LedgerStays DEF CancelNotSaved, ApprovalNotSaved, store, runner
  <2>3. ASSUME NEW p \in Paths, EditFile(p) PROVE LedgerStep
    BY <2>3, LedgerStays DEF EditFile, store, runner
  <2>4. ASSUME NEW p \in Paths, NEW t \in Targets, TranslateFile(p, t) PROVE LedgerStep
    BY <2>4, LedgerStays DEF TranslateFile, runner
  <2> QED
    BY <1>2, <2>1, <2>2, <2>3, <2>4, SubmitInLedger, CancelInLedger, ApproveInLedger
    DEF UserStep
<1>3. CASE WorldStep
  <2>1. CASE Crash \/ CrashInFinish
    BY <2>1, LeavesLedger DEF Crash, CrashInFinish, Down, NoRunLeft, store
  <2>2. ASSUME NEW p \in Paths, NEW t \in Targets,
               ScanQueues(p, t) \/ JobStarts(p, t) \/ JobEnds(p, t)
        PROVE  LedgerStep
    BY <2>2, LedgerStays DEF ScanQueues, JobStarts, JobEnds, Becomes, store, runner
  <2> QED
    BY <1>3, <2>1, <2>2, BootInLedger, PruneInLedger DEF WorldStep
<1>4. CASE UNCHANGED vars
  BY <1>4, LedgerStays DEF vars, store, runner
<1> QED
  BY <1>1, <1>2, <1>3, <1>4 DEF Next

\* The work queue implements WorkLedger, for any videos, plans, keys and bounds:
\* one open item a video, one at a time and in order, no transcript handed on
\* before its review, nothing that was stopped or has succeeded opened again,
\* and a run that a crash cut off is given back (enqueue, drain, cancel,
\* approve, prune, recover).
THEOREM KeepsItsWorkPromise == Spec => KeepsWorkPromise
<1>1. ASSUME Init PROVE RunningIsFresh /\ Ledger!WorkInit
  <2>1. \A d \in Ids : items[d] = Absent
    BY <1>1 DEF Init
  <2>2. Absent.status = "absent" /\ Absent.input = NoInput
    BY DEF Absent
  <2>3. LedgerStage = [d \in Ids |-> "absent"] /\ LedgerVideo = [d \in Ids |-> NoInput]
    BY <2>1, <2>2 DEF LedgerStage, LedgerVideo, StageOf
  <2> QED
    BY <1>1, <2>1, <2>2, <2>3 DEF RunningIsFresh, Ledger!WorkInit, Init
<1>2. WorkInv /\ RunningIsFresh /\ [Next]_vars =>
        RunningIsFresh' /\ [Ledger!WorkNext]_(Ledger!workLedger)
  BY StepInLedger DEF LedgerInv, LedgerStep
<1> QED
  BY <1>1, <1>2, InitWork, StepKeepsWork, PTL DEF Spec, KeepsWorkPromise, Ledger!Promise

-----------------------------------------------------------------------------
(* No translation starts that the user did not permit.  A file is covered  *)
(* when everything is permitted for its present content, or a selection    *)
(* made for that content says what is; the invariant is that any other     *)
(* content is guarded by an item that holds its translations back, until   *)
(* the end of that item leaves a selection.  Three things would break it,  *)
(* and are assumed away: retention that drops a failed item whose          *)
(* transcript was kept, two reviewed videos with one transcript between    *)
(* them, and a run cut off by a crash that, begun again, writes another    *)
(* name and leaves its first file without a guard.                         *)

Names(i) == {Plain[i], Named[i]}

ReviewAssumption ==
  /\ "expire" \notin Features
  /\ \A i, j \in Reviewed : Names(i) \cap Names(j) # {} => i = j
  /\ "crash" \notin Features \/ \A i \in Reviewed : Plain[i] = Named[i]

Covered(p) == permitted[p] = Targets \/ Selected(p)

\* What is true of the record of an item, as of now.
RecordOK(x) ==
  /\ x.revision <= clock /\ x.begun <= clock + 1
  /\ x.status = "running" =>
       x.out = NoPath /\ (x.input \in Reviewed => x.begun # 0)
  /\ x.status = "needs_review" => x.input \in Reviewed /\ x.out # NoPath
  /\ x.out # NoPath =>
       x.out \in Names(x.input) /\ (x.input \in Reviewed => x.begun # 0)
  /\ x.status = "queued" /\ x.out = NoPath /\ "crash" \notin Features =>
       x.begun = 0
RecordsOK == \A d \in Ids : RecordOK(items[d])

FileNumbers == \A p \in Paths : file[p] <= clock /\ selection[p].rev <= clock

\* Without a crash, the run of a reviewed item is the only one that writes its
\* video's names since the review began.
RunOK ==
  /\ "crash" \notin Features => up
  /\ published # NoPath => published \in Names(items[current].input)
  /\ current # NoId /\ IsReviewed(current) =>
       /\ items[current].status = "running"
       /\ published # NoPath => ~Selected(published)
       /\ "crash" \notin Features =>
            \A p \in Names(items[current].input) \ {published} :
              file[p] >= items[current].begun => Covered(p)

\* The transcript of a review that is not over: no selection counts for it yet,
\* and what was approved of it is what is permitted.
InReview(x) == x.input \in Reviewed /\ x.status \in Active /\ x.out # NoPath
ReviewOK(x) ==
  InReview(x) =>
    /\ ~Selected(x.out)
    /\ x.status = "queued" /\ file[x.out] # 0 /\ x.revision = file[x.out] =>
         x.targets \subseteq permitted[x.out]
ReviewsOK == \A d \in Ids : ReviewOK(items[d])

SelectionsOK ==
  \A p \in Paths : Selected(p) => selection[p].targets \subseteq permitted[p]

Guards(x, p) ==
  /\ x.input \in Reviewed /\ x.begun # 0
  /\ \/ x.status \in Active /\ x.out = p
     \/ /\ x.status \in Active \cup {"cancelled", "failed"} /\ x.out = NoPath
        /\ p \in Names(x.input) /\ x.begun <= file[p]
GuardsOK ==
  \A p \in Paths : file[p] # 0 =>
    Covered(p) \/ \E d \in Ids : Guards(items[d], p)

FilesGuarded == FileNumbers /\ RecordsOK /\ ReviewsOK /\ SelectionsOK /\ GuardsOK
ReviewInv == WorkInv /\ FilesGuarded /\ RunOK

LEMMA ReviewTypes ==
  ASSUME WorkInv
  PROVE  /\ items \in [Ids -> Records] /\ selection \in [Paths -> Choices]
         /\ file \in [Paths -> Nat] /\ clock \in Nat
         /\ permitted \in [Paths -> SUBSET Targets]
         /\ current \in Ids \cup {NoId} /\ NoId \notin Ids
         /\ published \in Paths \cup {NoPath} /\ NoPath \notin Paths
         /\ published # NoPath => current # NoId
         /\ \A x \in Records : /\ x.begun \in Nat /\ x.revision \in Nat
                               /\ x.out \in Paths \cup {NoPath}
         /\ \A x \in Choices : x.rev \in Nat
<1>1. \A n \in Nat : 0 .. n \subseteq Nat
  OBVIOUS
<1> QED
  BY <1>1 DEF WorkInv, Shape, StoreShape, RunnerOK, FilesOK, Ids, NoId, Records,
              Choices

\* An automatic start is let through only for what is permitted.
LEMMA AllowedIsPermitted ==
  ASSUME ReviewInv, NEW p \in Paths, NEW t \in Targets, file[p] # 0,
         AllowsAutomatic(p, t)
  PROVE  t \in permitted[p]
<1>1. CASE Selected(p)
  BY <1>1 DEF AllowsAutomatic, ReviewInv, FilesGuarded, SelectionsOK
<1>2. CASE ~Selected(p) /\ permitted[p] # Targets
  <2>1. PICK d \in Ids : Guards(items[d], p)
    BY <1>2 DEF ReviewInv, FilesGuarded, GuardsOK, Covered
  <2>2. items[d].begun \in Nat /\ file[p] \in Nat
    BY ReviewTypes DEF ReviewInv
  <2>3. d \in Holds
    BY <2>1 DEF Guards, Holds, IsReviewed, Suspect, Active
  <2>4. Matches(d, p)
    BY <2>1, ReviewTypes DEF Guards, Matches, Names
  <2>5. Blocks(d, p)
    BY <1>2, <2>1, <2>2, <2>4, ReviewTypes DEF Guards, Blocks
  <2> QED
    BY <2>3, <2>5 DEF AllowsAutomatic, UnderReview
<1> QED
  BY <1>1, <1>2

\* Two active items of reviewed videos have no name in common.
LEMMA OwnNames ==
  ASSUME ReviewAssumption, OneActivePerInput, NEW d \in Ids, NEW e \in Ids,
         IsReviewed(d), IsReviewed(e), items[d].status \in Active,
         items[e].status \in Active,
         Names(items[d].input) \cap Names(items[e].input) # {}
  PROVE  d = e
<1>1. items[d].input = items[e].input
  BY DEF ReviewAssumption, IsReviewed
<1> QED
  BY <1>1 DEF OneActivePerInput, With, Active

-----------------------------------------------------------------------------
(* A step that saves one item, and touches no file.                        *)

LEMMA SavedItem ==
  ASSUME ReviewAssumption, ReviewInv, NEW d \in Ids, NEW new \in Records,
         NEW accepted \in SUBSET Targets, Update(d, new, accepted),
         UNCHANGED <<file, clock, permitted>>, RecordOK(new),
         new.input \in Reviewed /\ new.status \in Final /\ new.out # NoPath =>
           /\ items[d].status \in Active /\ items[d].input = new.input
           /\ new.status = "succeeded" => accepted \subseteq permitted[new.out],
         InReview(new) => new.status = "needs_review" /\ ~Selected(new.out),
         \A p \in Paths :
           Guards(items[d], p) /\ file[p] # 0 /\ ~Covered(p) =>
             \/ Guards(new, p)
             \/ new.out = p /\ new.status \in Final /\ new.input \in Reviewed
  PROVE  /\ FilesGuarded'
         /\ \A p \in Paths : Covered(p) => Covered(p)'
         /\ \A p \in Paths : selection'[p] = selection[p] \/
              (p = new.out /\ new.status \in Final /\ new.input \in Reviewed)
         /\ \A e \in Ids : items'[e] = IF e = d THEN new ELSE items[e]
<1>0. /\ items \in [Ids -> Records] /\ selection \in [Paths -> Choices]
      /\ file \in [Paths -> Nat] /\ clock \in Nat /\ NoPath \notin Paths
      /\ new.out \in Paths \cup {NoPath}
  BY ReviewTypes DEF ReviewInv
<1>1. \A e \in Ids : items'[e] = IF e = d THEN new ELSE items[e]
  BY <1>0 DEF Update
<1> DEFINE leaves == /\ new.input \in Reviewed /\ new.out # NoPath
                     /\ new.status \in Final /\ file[new.out] # 0
           chosen == [rev |-> file[new.out],
                      targets |-> IF new.status = "succeeded" THEN accepted
                                  ELSE {}]
<1>2. /\ leaves => new.out \in Paths /\ selection'[new.out] = chosen
      /\ \A p \in Paths : ~(leaves /\ p = new.out) =>
           selection'[p] = selection[p]
  BY <1>0 DEF Update, Remember
<1>3. chosen.rev = file[new.out]
      /\ chosen.targets = IF new.status = "succeeded" THEN accepted ELSE {}
  OBVIOUS
<1>4. leaves => chosen.targets \subseteq permitted[new.out]
  BY <1>3
<1> HIDE DEF chosen
<1>5. \A p \in Paths : Selected(p)' <=> Selected(p) \/ (leaves /\ p = new.out)
  BY <1>2, <1>3 DEF Selected
<1>6. \A p \in Paths : Covered(p) => Covered(p)'
  BY <1>5 DEF Covered
<1>7. FileNumbers'
  BY <1>0, <1>2, <1>3 DEF ReviewInv, FilesGuarded, FileNumbers
<1>8. RecordsOK'
  BY <1>1 DEF ReviewInv, FilesGuarded, RecordsOK, RecordOK
<1>9. ReviewsOK'
  <2> SUFFICES ASSUME NEW e \in Ids, NEW x \in Records, items'[e] = x,
                      InReview(x)
               PROVE  /\ ~Selected(x.out)'
                      /\ x.status = "queued" /\ file[x.out] # 0
                           /\ x.revision = file[x.out] =>
                           x.targets \subseteq permitted[x.out]
    <3>1. \A e \in Ids : items'[e] \in Records
      BY <1>0, <1>1
    <3> QED
      BY <3>1 DEF ReviewsOK, ReviewOK, InReview, Selected
  <2>1. CASE e = d
    <3>1. x = new /\ new.status = "needs_review"
      BY <1>1, <2>1
    <3>2. new.out \in Paths /\ ~Selected(new.out) /\ ~leaves
      BY <1>0, <3>1 DEF InReview, Final
    <3> QED
      BY <1>5, <3>1, <3>2
  <2>2. CASE e # d
    <3>1. x = items[e] /\ x.out \in Paths
      BY <1>0, <1>1, <2>2, ReviewTypes DEF InReview, ReviewInv
    <3>4. ReviewOK(x)
      BY <3>1 DEF ReviewInv, FilesGuarded, ReviewsOK
    <3>2. ~(leaves /\ items[e].out = new.out)
      <4> SUFFICES ASSUME leaves, items[e].out = new.out PROVE FALSE
        OBVIOUS
      <4>1. items[e].out \in Names(items[e].input)
            /\ new.out \in Names(items[d].input)
        BY <3>1 DEF ReviewInv, FilesGuarded, RecordsOK, RecordOK, InReview
      <4>2. IsReviewed(d) /\ IsReviewed(e) /\ items[d].status \in Active
            /\ items[e].status \in Active
        BY <3>1 DEF InReview, IsReviewed
      <4> QED
        BY <2>2, <4>1, <4>2, OwnNames DEF ReviewInv, WorkInv
    <3>3. ~Selected(x.out)'
      BY <1>5, <3>1, <3>2, <3>4 DEF ReviewOK
    <3> QED
      BY <3>3, <3>4 DEF ReviewOK
  <2> QED
    BY <2>1, <2>2
<1>10. SelectionsOK'
  BY <1>2, <1>4, <1>5 DEF ReviewInv, FilesGuarded, SelectionsOK
<1>11. GuardsOK'
  <2> SUFFICES ASSUME NEW p \in Paths, file[p] # 0, ~Covered(p)'
               PROVE  \E e \in Ids : Guards(items[e], p)'
    BY DEF GuardsOK
  <2>1. PICK e \in Ids : Guards(items[e], p)
    BY <1>6 DEF ReviewInv, FilesGuarded, GuardsOK
  <2>2. CASE e # d
    BY <1>1, <2>1, <2>2 DEF Guards
  <2>3. CASE e = d
    <3>1. ~Covered(p) /\ ~(leaves /\ p = new.out)
      BY <1>5, <1>6 DEF Covered
    <3>2. Guards(new, p)
      BY <1>0, <2>1, <2>3, <3>1
    <3> QED
      BY <1>1, <2>3, <3>2 DEF Guards
  <2> QED
    BY <2>2, <2>3
<1> QED
  BY <1>1, <1>2, <1>6, <1>7, <1>8, <1>9, <1>10, <1>11 DEF FilesGuarded

\* The run that was on goes on, or it is over.
LEMMA RunStays ==
  ASSUME ReviewInv, "crash" \notin Features => up',
         UNCHANGED <<current, published, file>>,
         \A p \in Paths : Covered(p) => Covered(p)',
         current # NoId => \/ items'[current] = items[current]
                           \/ /\ items'[current].input = items[current].input
                              /\ ~IsReviewed(current),
         current # NoId /\ IsReviewed(current) /\ published # NoPath =>
           selection'[published].rev = selection[published].rev
  PROVE  RunOK'
<1>1. \A i \in Reviewed : Names(i) \subseteq Paths
  BY InputPaths DEF Names
<1>2. current' = current /\ published' = published /\ file' = file
  OBVIOUS
<1>3. (published # NoPath => published \in Names(items[current].input))'
  BY <1>2, ReviewTypes DEF ReviewInv, RunOK
<1>4. ASSUME (current # NoId /\ IsReviewed(current))'
      PROVE  /\ items'[current].status = "running"
             /\ published # NoPath => ~Selected(published)'
             /\ "crash" \notin Features =>
                  \A p \in Names(items'[current].input) \ {published} :
                    file[p] >= items'[current].begun => Covered(p)'
  <2>1. /\ items'[current] = items[current] /\ IsReviewed(current)
        /\ current # NoId
    BY <1>2, <1>4 DEF IsReviewed
  <2>2. published # NoPath => (Selected(published)' <=> Selected(published))
    BY <1>2, <2>1 DEF Selected
  <2>3. Names(items[current].input) \subseteq Paths
    BY <1>1, <2>1 DEF IsReviewed
  <2> QED
    BY <2>1, <2>2, <2>3 DEF ReviewInv, RunOK
<1> QED
  BY <1>2, <1>3, <1>4 DEF ReviewInv, RunOK

LEMMA RunGone ==
  ASSUME NoRunLeft, "crash" \notin Features => up'
  PROVE  RunOK'
BY DEF NoRunLeft, RunOK

-----------------------------------------------------------------------------
(* The steps of the drain.                                                 *)

LEMMA TakesUpReview ==
  ASSUME ReviewAssumption, ReviewInv, TakesUp
  PROVE  FilesGuarded' /\ RunOK'
<1>1. PICK d \in NextUp :
        /\ items[d].out = NoPath
        /\ items' = [items EXCEPT ![d].status = "running", ![d].begun = Begun(d)]
        /\ current' = d
  BY DEF TakesUp
<1> DEFINE b == Begun(d)
           new == [items[d] EXCEPT !.status = "running", !.begun = b]
<1>2. /\ d \in Ids /\ items[d].status = "queued" /\ items[d] \in Records
      /\ clock \in 0 .. MaxClock
  BY DEF NextUp, Queued, With, ReviewInv, WorkInv, Shape, StoreShape, FilesOK
<1>3. /\ RecordOK(items[d]) /\ b \in 0 .. MaxClock + 1
      /\ IsReviewed(d) => b # 0 /\ b <= clock + 1
      /\ ~IsReviewed(d) => b = items[d].begun
      /\ items[d].begun # 0 => b = items[d].begun
      /\ "crash" \notin Features /\ IsReviewed(d) => b = clock + 1
  BY <1>1, <1>2 DEF Begun, ReviewInv, FilesGuarded, RecordsOK, RecordOK, Records
<1> HIDE DEF b
<1>4. /\ new \in Records /\ new.status = "running" /\ new.begun = b
      /\ new.input = items[d].input /\ new.out = NoPath
      /\ new.revision = items[d].revision
  BY <1>1, <1>2, <1>3 DEF Records, Statuses, Active
<1>5. items' = [items EXCEPT ![d] = new]
  BY <1>1 DEF b
<1> HIDE DEF new
<1>6. RecordOK(new)
  BY <1>3, <1>4 DEF RecordOK, IsReviewed
<1>7. /\ Update(d, new, {}) /\ ~InReview(new) /\ new.status \notin Final
      /\ UNCHANGED <<file, clock, permitted, published, up>>
  BY <1>4, <1>5 DEF TakesUp, Update, Remember, InReview, Final, disk, jobVars
<1>8. \A p \in Paths : Guards(items[d], p) => Guards(new, p)
  BY <1>1, <1>2, <1>3, <1>4 DEF Guards, Active
<1>9. /\ FilesGuarded' /\ \A p \in Paths : Covered(p) => Covered(p)'
      /\ items'[d] = new
  BY <1>2, <1>4, <1>6, <1>7, <1>8, SavedItem
<1>10. current = NoId /\ published = NoPath
  BY ReviewTypes DEF TakesUp, Idle, ReviewInv
<1>11. RunOK'
  <2>1. current' = d /\ published' = NoPath /\ d # NoId
    BY <1>1, <1>2, <1>7, <1>10 DEF Ids, NoId
  <2>2. "crash" \notin Features => up'
    BY <1>7 DEF ReviewInv, RunOK
  <2>3. ASSUME IsReviewed(d)', "crash" \notin Features, NEW p \in Names(new.input)
        PROVE  ~(file'[p] >= new.begun)
    <3>1. p \in Paths /\ IsReviewed(d)
      BY <1>4, <1>9, <2>3, InputPaths DEF IsReviewed, Names
    <3>2. file'[p] \in Nat /\ file'[p] <= clock /\ clock \in Nat
      BY <1>7, <3>1, ReviewTypes DEF ReviewInv, FilesGuarded, FileNumbers
    <3>3. new.begun = clock + 1
      BY <1>3, <1>4, <2>3, <3>1
    <3> QED
      BY <3>2, <3>3
  <2> QED
    BY <1>4, <1>9, <2>1, <2>2, <2>3 DEF RunOK
<1> QED
  BY <1>9, <1>11

\* A file that is written gets a number no selection and no approval has.
LEMMA FreshFile ==
  ASSUME ReviewInv, NEW p \in Paths, Write(p), UNCHANGED selection
  PROVE  /\ clock' = clock + 1 /\ file'[p] = clock + 1 /\ clock \in Nat
         /\ \A q \in Paths \ {p} : file'[q] = file[q]
         /\ FileNumbers' /\ ~Selected(p)'
         /\ \A q \in Paths \ {p} : Selected(q)' <=> Selected(q)
<1>1. /\ clock' = clock + 1 /\ file' = [file EXCEPT ![p] = clock + 1]
      /\ file \in [Paths -> Nat] /\ selection \in [Paths -> Choices]
      /\ clock \in Nat
  BY ReviewTypes DEF Write, ReviewInv
<1>2. \A q \in Paths : selection'[q] = selection[q] /\ selection[q].rev \in Nat
                       /\ selection[q].rev <= clock /\ file[q] <= clock
  BY <1>1, ReviewTypes DEF ReviewInv, FilesGuarded, FileNumbers
<1>3. FileNumbers'
  BY <1>1, <1>2 DEF FileNumbers
<1> QED
  BY <1>1, <1>2, <1>3 DEF Selected

\* The clock goes on, and no item changes.
LEMMA SameRecords ==
  ASSUME ReviewInv, UNCHANGED items, clock' \in Nat, clock' >= clock
  PROVE  RecordsOK'
<1>1. \A d \in Ids : items[d] \in Records /\ items[d].begun \in Nat
                     /\ items[d].revision \in Nat
  BY ReviewTypes DEF ReviewInv
<1>2. clock \in Nat
  BY ReviewTypes DEF ReviewInv
<1> QED
  BY <1>1, <1>2 DEF ReviewInv, FilesGuarded, RecordsOK, RecordOK

\* A file changes, the other files and what is permitted of them do not, and
\* no item does; the file itself is covered by now, or guarded.
LEMMA ChangedFile ==
  ASSUME ReviewInv, NEW p \in Paths, UNCHANGED <<items, selection>>,
         clock' \in Nat, clock' >= clock, FileNumbers',
         \A q \in Paths \ {p} : file'[q] = file[q] /\ permitted'[q] = permitted[q],
         ~Selected(p)',
         \A d \in Ids : items[d].revision = file'[p] => file'[p] = 0,
         file'[p] # 0 =>
           permitted'[p] = Targets \/ \E d \in Ids : Guards(items[d], p)'
  PROVE  FilesGuarded'
<1>1. \A q \in Paths \ {p} : /\ Selected(q)' <=> Selected(q)
                             /\ Covered(q)' <=> Covered(q)
                             /\ \A d \in Ids : Guards(items[d], q)' <=>
                                               Guards(items[d], q)
  BY DEF Selected, Covered, Guards
<1>2. RecordsOK'
  BY SameRecords
<1>3. ReviewsOK'
  <2> SUFFICES ASSUME NEW d \in Ids PROVE ReviewOK(items[d])'
    BY DEF ReviewsOK
  <2>1. ReviewOK(items[d]) /\ items'[d] = items[d]
    BY DEF ReviewInv, FilesGuarded, ReviewsOK
  <2>2. CASE items[d].out = p
    BY <2>1, <2>2 DEF ReviewOK, InReview
  <2>3. CASE items[d].out # p
    <3>1. InReview(items[d]) => items[d].out \in Paths \ {p}
      BY <2>3, ReviewTypes DEF InReview, ReviewInv
    <3> QED
      BY <1>1, <2>1, <3>1 DEF ReviewOK, InReview
  <2> QED
    BY <2>2, <2>3
<1>4. SelectionsOK'
  BY <1>1 DEF ReviewInv, FilesGuarded, SelectionsOK
<1>5. GuardsOK'
  BY <1>1 DEF ReviewInv, FilesGuarded, GuardsOK, Covered
<1> QED
  BY <1>2, <1>3, <1>4, <1>5 DEF FilesGuarded

\* The transcript is written: its own item guards it.
LEMMA RunPublishesReview ==
  ASSUME ReviewAssumption, ReviewInv, RunPublishes
  PROVE  FilesGuarded' /\ RunOK'
<1> DEFINE i == items[current].input
<1>1. /\ current \in Ids /\ published = NoPath
      /\ UNCHANGED <<items, selection, up, current>>
  BY ReviewTypes DEF RunPublishes, ReviewInv, store
<1>2. i \in Inputs
  BY <1>1 DEF RunPublishes, ReviewInv, WorkInv, CurrentIsKnown, KeptHaveInput
<1>3. PICK p \in {Plain[i], Named[i]} :
        /\ Write(p) /\ published' = p
        /\ permitted' = [permitted EXCEPT ![p] =
                            IF i \in Reviewed THEN {} ELSE Targets]
  BY DEF RunPublishes
<1>4. p \in Paths /\ p \in Names(i) /\ permitted \in [Paths -> SUBSET Targets]
  BY <1>2, InputPaths, ReviewTypes DEF Names, ReviewInv
<1>5. /\ clock' = clock + 1 /\ file'[p] = clock + 1 /\ clock \in Nat
      /\ \A q \in Paths \ {p} : file'[q] = file[q]
      /\ FileNumbers' /\ ~Selected(p)'
      /\ \A q \in Paths \ {p} : Selected(q)' <=> Selected(q)
  BY <1>1, <1>3, <1>4, FreshFile
<1>6. \A q \in Paths \ {p} : permitted'[q] = permitted[q]
  BY <1>3, <1>4
<1>7. \A d \in Ids : /\ items[d].revision \in Nat /\ items[d].begun \in Nat
                     /\ items[d].revision # clock + 1
  BY <1>5, ReviewTypes DEF ReviewInv, FilesGuarded, RecordsOK, RecordOK
<1>8. i \in Reviewed => Guards(items[current], p)'
  BY <1>1, <1>4, <1>5, ReviewTypes
     DEF RunPublishes, ReviewInv, FilesGuarded, RunOK, RecordsOK, RecordOK,
         IsReviewed, Guards, Active
<1>9. i \notin Reviewed => permitted'[p] = Targets
  BY <1>3, <1>4
<1>10. FilesGuarded'
  BY <1>1, <1>4, <1>5, <1>6, <1>7, <1>8, <1>9, ChangedFile
<1>11. RunOK'
  <2>1. \A q \in Names(i) \ {p} : i \in Reviewed => q \in Paths \ {p} /\ q # NoPath
    BY <1>2, InputPaths, ReviewTypes DEF Names, ReviewInv
  <2>2. \A q \in Paths \ {p} : Covered(q) => Covered(q)'
    BY <1>5, <1>6 DEF Covered
  <2>3. current' = current /\ published' = p /\ items' = items /\ up' = up
    BY <1>1, <1>3
  <2> QED
    BY <1>1, <1>4, <1>5, <2>1, <2>2, <2>3 DEF ReviewInv, RunOK, IsReviewed
<1> QED
  BY <1>10, <1>11

\* The run returns: a review begins, or the item ends and leaves a selection.
LEMMA RunReturnsReview ==
  ASSUME ReviewAssumption, ReviewInv, RunReturns
  PROVE  FilesGuarded' /\ RunOK'
<1> DEFINE new == Returned(current)
<1>1. /\ current \in Ids /\ current # NoId /\ published # NoPath
      /\ published \in Paths /\ items[current] \in Records
      /\ RecordOK(items[current])
  BY ReviewTypes DEF RunReturns, ReviewInv, FilesGuarded, RecordsOK
<1>2. /\ \/ items[current].status = "running"
         \/ items[current].status = "cancelled" /\ current \in cancelled
      /\ IsReviewed(current) => items[current].status = "running"
      /\ published \in Names(items[current].input)
  BY <1>1 DEF ReviewInv, WorkInv, CurrentIsKnown, RunOK
<1>3. /\ new \in Records /\ new.input = items[current].input
      /\ new.begun = items[current].begun
      /\ new.revision = items[current].revision
      /\ new.out = IF current \in cancelled /\ ~IsReviewed(current)
                     THEN items[current].out ELSE published
      /\ new.status = IF current \in cancelled THEN "cancelled"
                      ELSE IF IsReviewed(current) THEN "needs_review"
                      ELSE IF Planned[items[current].input] # {} THEN "queued"
                      ELSE "succeeded"
  <2> DEFINE st == IF current \in cancelled THEN "cancelled"
                   ELSE IF IsReviewed(current) THEN "needs_review"
                   ELSE IF Planned[items[current].input] # {} THEN "queued"
                   ELSE "succeeded"
             o == IF current \in cancelled /\ ~IsReviewed(current)
                     THEN items[current].out ELSE published
  <2>1. new = [items[current] EXCEPT !.status = st, !.out = o]
    <3>1. CASE current \in cancelled
      BY <1>1, <3>1 DEF Returned, Records
    <3>2. CASE current \notin cancelled
      BY <1>1, <3>2 DEF Returned, ReturnedUncancelled, Records
    <3> QED
      BY <3>1, <3>2
  <2>2. st \in Statuses
    BY DEF Statuses, Active, Final
  <2>3. o \in Paths \cup {NoPath}
    BY <1>1, ReviewTypes DEF ReviewInv
  <2> HIDE DEF st, o
  <2>4. /\ new \in Records /\ new.input = items[current].input
        /\ new.begun = items[current].begun
        /\ new.revision = items[current].revision
        /\ new.out = o /\ new.status = st
    BY <1>1, <2>1, <2>2, <2>3 DEF Records
  <2> QED
    BY <2>4 DEF st, o
<1>4. Update(current, new, {})
  BY DEF RunReturns
<1> HIDE DEF new
<1>5. RecordOK(new)
  BY <1>1, <1>2, <1>3 DEF RecordOK, IsReviewed
<1>6. /\ InReview(new) => new.status = "needs_review" /\ ~Selected(new.out)
      /\ new.input \in Reviewed => items[current].status \in Active
      /\ new.status = "succeeded" => new.input \notin Reviewed
  BY <1>1, <1>2, <1>3 DEF InReview, IsReviewed, Active, ReviewInv, RunOK
<1>7. ASSUME NEW p \in Paths, Guards(items[current], p), file[p] # 0, ~Covered(p)
      PROVE  \/ Guards(new, p)
             \/ new.out = p /\ new.status \in Final /\ new.input \in Reviewed
  <2>1. /\ new.input \in Reviewed /\ items[current].out = NoPath
        /\ p \in Names(new.input) /\ items[current].begun <= file[p]
        /\ new.out = published /\ new.begun # 0
        /\ new.status \in {"cancelled", "needs_review"}
    BY <1>1, <1>2, <1>3, <1>7, ReviewTypes
       DEF Guards, RecordOK, IsReviewed, ReviewInv
  <2>2. p = published
    <3>1. CASE "crash" \notin Features
      BY <1>1, <1>3, <1>7, <2>1, <3>1, ReviewTypes
         DEF ReviewInv, RunOK, IsReviewed
    <3>2. CASE \A j \in Reviewed : Plain[j] = Named[j]
      BY <1>2, <1>3, <2>1, <3>2 DEF Names
    <3> QED
      BY <3>1, <3>2 DEF ReviewAssumption
  <2> QED
    BY <2>1, <2>2 DEF Guards, Active, Final
<1>8. FilesGuarded'
  BY <1>1, <1>3, <1>4, <1>5, <1>6, <1>7, SavedItem DEF RunReturns, disk, jobVars
<1>9. RunOK'
  BY RunGone DEF RunReturns, ReviewInv, RunOK
<1> QED
  BY <1>8, <1>9

LEMMA RunFailsReview ==
  ASSUME ReviewAssumption, ReviewInv, RunFails
  PROVE  FilesGuarded' /\ RunOK'
<1> DEFINE st == IF Aborted(current) THEN "cancelled" ELSE "failed"
           new == [items[current] EXCEPT !.status = st]
<1>1. /\ current \in Ids /\ current # NoId /\ items[current] \in Records
      /\ RecordOK(items[current])
      /\ IsReviewed(current) => items[current].status = "running"
  BY ReviewTypes DEF RunFails, ReviewInv, FilesGuarded, RecordsOK, RunOK
<1>2. st \in {"cancelled", "failed"} /\ st \in Statuses
  BY DEF Statuses, Final
<1>3. Update(current, new, {})
  BY DEF RunFails
<1> HIDE DEF st
<1>4. /\ new \in Records /\ new.status = st /\ new.input = items[current].input
      /\ new.out = items[current].out /\ new.begun = items[current].begun
      /\ new.revision = items[current].revision
  BY <1>1, <1>2 DEF Records
<1> HIDE DEF new
<1>5. RecordOK(new) /\ ~InReview(new)
  BY <1>1, <1>2, <1>4 DEF RecordOK, InReview, Active
<1>6. new.input \in Reviewed => new.out = NoPath
  BY <1>1, <1>4 DEF RecordOK, IsReviewed
<1>7. \A p \in Paths : Guards(items[current], p) => Guards(new, p)
  BY <1>1, <1>2, <1>4, <1>6, ReviewTypes DEF Guards, ReviewInv
<1>8. FilesGuarded'
  BY <1>1, <1>3, <1>4, <1>5, <1>6, <1>7, SavedItem DEF RunFails, disk, jobVars
<1>9. RunOK'
  BY RunGone DEF RunFails, ReviewInv, RunOK
<1> QED
  BY <1>8, <1>9

\* What is approved is handed on, or goes back to its review.
LEMMA FinishesReview ==
  ASSUME ReviewAssumption, ReviewInv, Finishes
  PROVE  FilesGuarded' /\ RunOK'
<1>1. PICK d \in NextUp : items[d].out # NoPath /\ (Hands(d) \/ HandsNot(d))
  BY DEF Finishes
<1>2. /\ d \in Ids /\ items[d].status = "queued" /\ items[d] \in Records
      /\ RecordOK(items[d]) /\ ReviewOK(items[d]) /\ items[d].out \in Paths
      /\ current = NoId
  BY <1>1, ReviewTypes DEF NextUp, Queued, With, ReviewInv, FilesGuarded, RecordsOK,
                           ReviewsOK, Finishes, Idle
<1>3. Wanted(d) \subseteq Targets
  BY <1>2 DEF Wanted, Records, ReviewInv, WorkInv, KeptHaveInput
<1>4. PICK st \in {"failed", "needs_review", "succeeded"}, accepted \in SUBSET Targets :
        /\ End(d, st, accepted)
        /\ st = "needs_review" => IsReviewed(d)
        /\ st = "succeeded" /\ IsReviewed(d) => accepted \subseteq items[d].targets
                                 /\ file[items[d].out] # 0
                                 /\ items[d].revision = file[items[d].out]
  <2>1. CASE Hands(d)
    <3>1. PICK new \in SUBSET InState(d, "none") :
            End(d, "succeeded", new \cup InState(d, "pending"))
      BY <2>1 DEF Hands
    <3>2. new \cup InState(d, "pending") \subseteq Wanted(d)
      BY DEF InState
    <3> QED
      BY <1>3, <2>1, <3>1, <3>2 DEF Hands, ChangedSince, Wanted
  <2>2. CASE HandsNot(d)
    BY <2>2 DEF HandsNot, ChangedSince
  <2> QED
    BY <1>1, <2>1, <2>2
<1> DEFINE new == [items[d] EXCEPT !.status = st]
<1>5. /\ new \in Records /\ new.status = st /\ new.input = items[d].input
      /\ new.out = items[d].out /\ new.begun = items[d].begun
      /\ new.revision = items[d].revision /\ Update(d, new, accepted)
  BY <1>2, <1>4 DEF End, Statuses, Active, Final, Records
<1> HIDE DEF new
<1>6. RecordOK(new)
  BY <1>2, <1>4, <1>5 DEF RecordOK, IsReviewed, ReviewInv
<1>7. IsReviewed(d) => InReview(items[d])
  BY <1>1, <1>2 DEF InReview, IsReviewed, Active
<1>8. /\ new.input \in Reviewed /\ new.status = "succeeded" =>
           accepted \subseteq permitted[new.out]
      /\ InReview(new) => new.status = "needs_review" /\ ~Selected(new.out)
  BY <1>2, <1>4, <1>5, <1>7 DEF ReviewOK, InReview, IsReviewed, Active
<1>9. \A p \in Paths : Guards(items[d], p) =>
        \/ Guards(new, p)
        \/ new.out = p /\ new.status \in Final /\ new.input \in Reviewed
  BY <1>1, <1>4, <1>5 DEF Guards, Active, Final
<1>10. items[d].status \in Active
  BY <1>2 DEF Active
<1>11. FilesGuarded'
  BY <1>2, <1>5, <1>6, <1>8, <1>9, <1>10, SavedItem DEF Finishes, disk
<1>12. RunOK'
  BY <1>2, ReviewTypes DEF Finishes, runner, ReviewInv, RunOK
<1> QED
  BY <1>11, <1>12

-----------------------------------------------------------------------------
\* Steps that touch no item, no selection, no file and no permission.
LEMMA NothingReviewed ==
  ASSUME ReviewInv, UNCHANGED <<items, selection, disk, permitted>>,
         \/ UNCHANGED <<current, published>>
         \/ NoRunLeft,
         "crash" \notin Features => up'
  PROVE  FilesGuarded' /\ RunOK'
<1>1. UNCHANGED <<file, clock>>
  BY DEF disk
<1>2. FilesGuarded'
  BY <1>1 DEF ReviewInv, FilesGuarded, FileNumbers, RecordsOK, RecordOK,
              ReviewsOK, ReviewOK, InReview, SelectionsOK, GuardsOK, Guards,
              Covered, Selected
<1>3. CASE UNCHANGED <<current, published>>
  <2>1. \A p \in Paths : Covered(p) => Covered(p)'
    BY <1>1 DEF Covered, Selected
  <2>2. /\ current # NoId => items'[current] = items[current]
        /\ published # NoPath => selection'[published].rev = selection[published].rev
        /\ UNCHANGED <<current, published, file>>
    BY <1>1, <1>3
  <2> QED
    BY <1>2, <2>1, <2>2, RunStays
<1>4. CASE NoRunLeft
  BY <1>2, <1>4, RunGone
<1> QED
  BY <1>2, <1>3, <1>4

LEMMA IdleStepsReview ==
  ASSUME ReviewAssumption, ReviewInv,
         \/ DrainEnds \/ DrainGivesUp \/ RunLost \/ Crash \/ CrashInFinish
         \/ UNCHANGED vars
         \/ \E k \in Keys : Resubmit(k)
         \/ \E p \in Paths, t \in Targets :
              ScanQueues(p, t) \/ JobStarts(p, t) \/ JobEnds(p, t)
  PROVE  FilesGuarded' /\ RunOK'
<1>1. "crash" \notin Features => up
  BY DEF ReviewInv, RunOK
<1>2. CASE DrainEnds \/ DrainGivesUp \/ RunLost
  <2>1. UNCHANGED <<items, selection, disk, permitted, up>>
        /\ (UNCHANGED <<current, published>> \/ NoRunLeft)
    BY <1>2 DEF DrainEnds, DrainGivesUp, RunLost, store, jobVars
  <2> QED
    BY <1>1, <2>1, NothingReviewed
<1>3. CASE Crash \/ CrashInFinish
  <2>1. UNCHANGED <<items, selection, disk, permitted>> /\ NoRunLeft
        /\ "crash" \in Features
    BY <1>3 DEF Crash, CrashInFinish, Down, store, jobVars
  <2> QED
    BY <2>1, NothingReviewed
<1>4. CASE \E k \in Keys : Resubmit(k)
  BY <1>1, <1>4, NothingReviewed DEF Resubmit, store, jobVars
<1>5. CASE \E p \in Paths, t \in Targets :
             ScanQueues(p, t) \/ JobStarts(p, t) \/ JobEnds(p, t)
  BY <1>1, <1>5, NothingReviewed
     DEF ScanQueues, JobStarts, JobEnds, Becomes, store, runner
<1>6. CASE UNCHANGED vars
  BY <1>1, <1>6, NothingReviewed DEF vars, store, runner, jobVars
<1> QED
  BY <1>2, <1>3, <1>4, <1>5, <1>6

LEMMA SubmitReview ==
  ASSUME ReviewAssumption, ReviewInv, NEW k \in Keys \cup {NoKey},
         NEW i \in Inputs, Submit(k, i)
  PROVE  FilesGuarded' /\ RunOK'
<1>1. CASE UNCHANGED items
  BY <1>1, NothingReviewed DEF Submit, jobVars, ReviewInv, RunOK
<1>2. ASSUME NEW d \in With("absent"),
             items' = [items EXCEPT ![d] =
               [Absent EXCEPT !.status = "queued", !.input = i, !.batch = k]]
      PROVE  FilesGuarded' /\ RunOK'
  <2> DEFINE new == [Absent EXCEPT !.status = "queued", !.input = i, !.batch = k]
  <2>1. /\ new \in Records /\ new.status = "queued" /\ new.out = NoPath
        /\ new.begun = 0 /\ new.revision = 0
    <3>1. Absent \in Records /\ "queued" \in Statuses
      BY DEF Absent, Records, Statuses, Active
    <3> QED
      BY <3>1 DEF Records, Absent
  <2>2. items' = [items EXCEPT ![d] = new]
    BY <1>2
  <2> HIDE DEF new
  <2>3. d \in Ids /\ items[d].status = "absent" /\ d # current /\ clock \in Nat
    BY ReviewTypes DEF With, ReviewInv, WorkInv, CurrentIsKnown, Ids, NoId
  <2>4. RecordOK(new) /\ ~InReview(new) /\ new.status \notin Final
    BY <2>1, <2>3 DEF RecordOK, InReview, Final
  <2>5. Update(d, new, {}) /\ UNCHANGED <<file, clock, permitted, current, published, up>>
    BY <2>2, <2>4 DEF Update, Remember, Submit, disk, jobVars
  <2>6. \A p \in Paths : ~Guards(items[d], p)
    BY <2>3 DEF Guards, Active
  <2>7. /\ FilesGuarded' /\ \A p \in Paths : Covered(p) => Covered(p)'
        /\ \A e \in Ids : items'[e] = IF e = d THEN new ELSE items[e]
    BY <2>1, <2>3, <2>4, <2>5, <2>6, SavedItem
  <2>8. selection' = selection
    BY DEF Submit
  <2>9. "crash" \notin Features => up'
    BY <2>5 DEF ReviewInv, RunOK
  <2>10. RunOK'
    BY <2>3, <2>5, <2>7, <2>8, <2>9, RunStays, ReviewTypes DEF ReviewInv
  <2> QED
    BY <2>7, <2>10
<1> QED
  BY <1>1, <1>2 DEF Submit

LEMMA CancelReview ==
  ASSUME ReviewAssumption, ReviewInv, NEW d \in Ids, Cancel(d)
  PROVE  FilesGuarded' /\ RunOK'
<1>1. CASE ~MarksAtOnce(d)
  BY <1>1, NothingReviewed DEF Cancel, jobVars, ReviewInv, RunOK
<1>2. CASE MarksAtOnce(d)
  <2> DEFINE new == [items[d] EXCEPT !.status = "cancelled"]
  <2>1. /\ items[d] \in Records /\ RecordOK(items[d])
        /\ items[d].status \in Active
    BY ReviewTypes DEF Cancel, ReviewInv, FilesGuarded, RecordsOK
  <2>2. Update(d, new, {})
    BY <1>2 DEF Cancel
  <2>3. /\ new \in Records /\ new.status = "cancelled"
        /\ new.input = items[d].input /\ new.out = items[d].out
        /\ new.begun = items[d].begun /\ new.revision = items[d].revision
    BY <2>1 DEF Records, Statuses, Final
  <2> HIDE DEF new
  <2>4. RecordOK(new) /\ ~InReview(new)
    BY <2>1, <2>3 DEF RecordOK, InReview, Active
  <2>5. \A p \in Paths : Guards(items[d], p) =>
          \/ Guards(new, p)
          \/ new.out = p /\ new.status \in Final /\ new.input \in Reviewed
    BY <2>1, <2>3 DEF Guards, Active, Final
  <2>6. /\ FilesGuarded' /\ \A p \in Paths : Covered(p) => Covered(p)'
        /\ \A p \in Paths : selection'[p] = selection[p] \/
              (p = new.out /\ new.status \in Final /\ new.input \in Reviewed)
        /\ \A e \in Ids : items'[e] = IF e = d THEN new ELSE items[e]
    BY <2>1, <2>2, <2>3, <2>4, <2>5, SavedItem DEF Cancel, disk, jobVars
  <2>7. d = current => ~IsReviewed(d)
    BY <1>2, <2>1 DEF MarksAtOnce, ReviewInv, RunOK, Ids, NoId
  <2>8. ASSUME current # NoId, IsReviewed(current), published # NoPath
        PROVE  selection'[published] = selection[published]
    <3>1. /\ current \in Ids /\ published \in Paths
          /\ items[current].status \in Active
          /\ published \in Names(items[current].input)
      BY <2>8, ReviewTypes DEF ReviewInv, RunOK, Active
    <3>2. published = new.out /\ new.input \in Reviewed => d = current
      BY <2>1, <2>3, <2>8, <3>1, OwnNames, ReviewTypes
         DEF RecordOK, IsReviewed, ReviewInv, WorkInv
    <3> QED
      BY <2>3, <2>6, <2>7, <2>8, <3>1, <3>2 DEF IsReviewed
  <2>9. RunOK'
    <3>1. UNCHANGED <<current, published, file, up>>
      BY DEF Cancel, disk
    <3>2. current # NoId => current \in Ids
      BY ReviewTypes DEF ReviewInv
    <3>3. "crash" \notin Features => up'
      BY <3>1 DEF ReviewInv, RunOK
    <3> QED
      BY <2>3, <2>6, <2>7, <2>8, <3>1, <3>2, <3>3, RunStays
  <2> QED
    BY <2>6, <2>9
<1> QED
  BY <1>1, <1>2

LEMMA CancelNotSavedReview ==
  ASSUME ReviewAssumption, ReviewInv, NEW d \in Ids, CancelNotSaved(d)
  PROVE  FilesGuarded' /\ RunOK'
<1>1. UNCHANGED <<store, up, current, published, disk, jobVars>>
  BY DEF CancelNotSaved
<1> QED
  BY <1>1, NothingReviewed DEF store, disk, jobVars, ReviewInv, RunOK

\* The run that was on goes on, while files change.
LEMMA RunGoesOn ==
  ASSUME ReviewInv, "crash" \notin Features => up', UNCHANGED <<current, published>>,
         current # NoId => items'[current] = items[current],
         \A p \in Paths : Selected(p)' => Selected(p),
         current # NoId /\ IsReviewed(current) =>
           \A p \in Names(items[current].input) :
             file'[p] >= items[current].begun =>
               Covered(p)' \/ (file'[p] = file[p] /\ (Covered(p) => Covered(p)'))
  PROVE  RunOK'
<1>1. current' = current /\ published' = published
  OBVIOUS
<1>2. (published # NoPath => published \in Names(items[current].input))'
  BY <1>1, ReviewTypes DEF ReviewInv, RunOK
<1>3. ASSUME (current # NoId /\ IsReviewed(current))'
      PROVE  /\ items'[current].status = "running"
             /\ published # NoPath => ~Selected(published)'
             /\ "crash" \notin Features =>
                  \A p \in Names(items'[current].input) \ {published} :
                    file'[p] >= items'[current].begun => Covered(p)'
  <2>1. /\ items'[current] = items[current] /\ IsReviewed(current)
        /\ current # NoId
    BY <1>1, <1>3 DEF IsReviewed
  <2>2. published # NoPath => ~Selected(published)'
    BY <2>1, ReviewTypes DEF ReviewInv, RunOK
  <2> QED
    BY <2>1, <2>2 DEF ReviewInv, RunOK
<1> QED
  BY <1>1, <1>2, <1>3 DEF RunOK

\* An approval permits what it names, and withdraws every other target.
LEMMA ApproveReview ==
  ASSUME ReviewAssumption, ReviewInv, NEW d \in Ids, NEW ts \in SUBSET Targets,
         Approve(d, ts)
  PROVE  FilesGuarded' /\ RunOK'
<1>1. /\ items[d].status = "needs_review" /\ items[d] \in Records /\ d # current
      /\ items[d].out \in Paths /\ RecordOK(items[d]) /\ IsReviewed(d)
      /\ items[d].begun # 0 /\ items[d].out \in Names(items[d].input)
      /\ ~Selected(items[d].out) /\ items[d].status \in Active
  <2>1. /\ items[d].status = "needs_review" /\ items[d] \in Records /\ d # current
        /\ items[d].out \in Paths /\ RecordOK(items[d]) /\ ReviewOK(items[d])
    BY ReviewTypes DEF Approve, ReviewInv, WorkInv, CurrentIsKnown, Ids, NoId,
                       FilesGuarded, RecordsOK, ReviewsOK
  <2> QED
    BY <2>1, ReviewTypes DEF RecordOK, ReviewOK, InReview, IsReviewed, Active, ReviewInv
<1>2. PICK p \in Paths : p = items[d].out
  BY <1>1
<1>3. /\ Write(p) \/ UNCHANGED disk
      /\ UNCHANGED <<selection, up, current, published>>
      /\ permitted' = [permitted EXCEPT ![p] = ts]
  BY <1>2 DEF Approve
<1>4. /\ clock' \in Nat /\ clock' >= clock /\ file'[p] \in Nat /\ file'[p] <= clock'
      /\ \A q \in Paths \ {p} : file'[q] = file[q]
      /\ FileNumbers' /\ ~Selected(p)'
      /\ \A q \in Paths \ {p} : Selected(q)' <=> Selected(q)
  <2>1. CASE Write(p)
    BY <1>3, <2>1, FreshFile, ReviewTypes DEF ReviewInv
  <2>2. CASE UNCHANGED disk
    <3>1. UNCHANGED <<file, clock, selection>>
      BY <1>3, <2>2 DEF disk
    <3>2. FileNumbers' /\ \A q \in Paths : Selected(q)' <=> Selected(q)
      BY <3>1 DEF ReviewInv, FilesGuarded, FileNumbers, Selected
    <3> QED
      BY <1>1, <1>2, <3>1, <3>2, ReviewTypes
         DEF ReviewInv, FilesGuarded, FileNumbers
  <2> QED
    BY <1>3, <2>1, <2>2
<1>5. /\ permitted'[p] = ts
      /\ \A q \in Paths \ {p} : /\ permitted'[q] = permitted[q]
                                /\ Covered(q)' <=> Covered(q)
  BY <1>3, <1>4, ReviewTypes DEF ReviewInv, Covered
<1> DEFINE new == [items[d] EXCEPT !.status = "queued", !.revision = file'[p],
                                   !.targets = ts]
<1>6. /\ new.status = "queued" /\ new.revision = file'[p] /\ new.targets = ts
      /\ new.input = items[d].input /\ new.out = p /\ new.begun = items[d].begun
  BY <1>1, <1>2 DEF Records
<1>7. \A e \in Ids : items'[e] = IF e = d THEN new ELSE items[e]
  BY <1>1, <1>2, ReviewTypes DEF Approve, ReviewInv
<1> HIDE DEF new
<1>8. clock \in Nat /\ items[d].begun \in Nat
  BY <1>1, ReviewTypes DEF ReviewInv
<1>9. \A e \in Ids \ {d} : InReview(items[e]) => items[e].out \in Paths \ {p}
  <2> SUFFICES ASSUME NEW e \in Ids \ {d}, InReview(items[e]), items[e].out = p
               PROVE  FALSE
    BY ReviewTypes DEF InReview, ReviewInv
  <2>1. /\ items[e].out \in Names(items[e].input) /\ IsReviewed(e)
        /\ items[e].status \in Active
    BY <1>2 DEF InReview, IsReviewed, ReviewInv, FilesGuarded, RecordsOK, RecordOK
  <2> QED
    BY <1>1, <1>2, <2>1, OwnNames DEF ReviewInv, WorkInv
<1>10. RecordsOK'
  <2> SUFFICES ASSUME NEW e \in Ids PROVE RecordOK(items[e])'
    BY DEF RecordsOK
  <2>1. CASE e = d
    <3>1. /\ file'[p] <= clock' /\ items[d].begun <= clock' + 1
      BY <1>1, <1>4, <1>8 DEF RecordOK
    <3> QED
      BY <1>1, <1>2, <1>6, <1>7, <2>1, <3>1 DEF RecordOK, IsReviewed
  <2>2. CASE e # d
    <3>1. items'[e] = items[e] /\ RecordOK(items[e]) /\ items[e].begun \in Nat
          /\ items[e].revision \in Nat
      BY <1>7, <2>2, ReviewTypes DEF ReviewInv, FilesGuarded, RecordsOK
    <3> QED
      BY <1>4, <1>8, <3>1 DEF RecordOK
  <2> QED
    BY <2>1, <2>2
<1>11. ReviewsOK'
  <2> SUFFICES ASSUME NEW e \in Ids PROVE ReviewOK(items[e])'
    BY DEF ReviewsOK
  <2>1. CASE e = d
    BY <1>4, <1>5, <1>6, <1>7, <2>1 DEF ReviewOK, InReview
  <2>2. CASE e # d
    <3>1. items'[e] = items[e] /\ ReviewOK(items[e])
      BY <1>7, <2>2 DEF ReviewInv, FilesGuarded, ReviewsOK
    <3> QED
      BY <1>4, <1>5, <1>9, <2>2, <3>1 DEF ReviewOK, InReview
  <2> QED
    BY <2>1, <2>2
<1>12. SelectionsOK'
  BY <1>3, <1>4, <1>5 DEF ReviewInv, FilesGuarded, SelectionsOK
<1>13. GuardsOK'
  <2> SUFFICES ASSUME NEW q \in Paths, file'[q] # 0, ~Covered(q)'
               PROVE  \E e \in Ids : Guards(items[e], q)'
    BY DEF GuardsOK
  <2>1. CASE q = p
    BY <1>1, <1>6, <1>7, <2>1 DEF Guards, IsReviewed, Active
  <2>2. CASE q # p
    <3>1. PICK e \in Ids : Guards(items[e], q)
      BY <1>4, <1>5, <2>2 DEF ReviewInv, FilesGuarded, GuardsOK
    <3>2. e # d
      BY <1>1, <1>2, <2>2, <3>1, ReviewTypes DEF Guards, ReviewInv
    <3> QED
      BY <1>4, <1>7, <2>2, <3>1, <3>2 DEF Guards
  <2> QED
    BY <2>1, <2>2
<1>14. ASSUME current # NoId, IsReviewed(current), NEW q \in Names(items[current].input)
       PROVE  q \in Paths \ {p}
  <2>1. /\ current \in Ids /\ items[current].status \in Active
        /\ Names(items[current].input) \subseteq Paths
    BY <1>14, ReviewTypes, InputPaths
       DEF ReviewInv, RunOK, Active, Names, IsReviewed
  <2> QED
    BY <1>1, <1>2, <1>14, <2>1, OwnNames DEF ReviewInv, WorkInv
<1>15. RunOK'
  <2>1. /\ "crash" \notin Features => up'
        /\ current # NoId => items'[current] = items[current]
        /\ \A q \in Paths : Selected(q)' => Selected(q)
    BY <1>1, <1>3, <1>4, <1>7, ReviewTypes DEF ReviewInv, RunOK
  <2> QED
    BY <1>3, <1>4, <1>5, <1>14, <2>1, RunGoesOn
<1> QED
  BY <1>4, <1>10, <1>11, <1>12, <1>13, <1>15 DEF FilesGuarded

\* Without its item being saved, an approval changes the transcript only.
LEMMA ApprovalNotSavedReview ==
  ASSUME ReviewAssumption, ReviewInv, NEW d \in Ids, ApprovalNotSaved(d)
  PROVE  FilesGuarded' /\ RunOK'
<1>1. /\ items[d].status = "needs_review" /\ items[d].out \in Paths
      /\ items[d].status \in Active /\ d # current
      /\ IsReviewed(d) /\ items[d].begun # 0
      /\ items[d].out \in Names(items[d].input)
  <2>1. /\ items[d].status = "needs_review" /\ items[d].out \in Paths
        /\ RecordOK(items[d]) /\ d # current
    BY ReviewTypes DEF ApprovalNotSaved, ReviewInv, FilesGuarded, RecordsOK, WorkInv,
                       CurrentIsKnown, Ids, NoId
  <2> QED
    BY <2>1, ReviewTypes DEF RecordOK, IsReviewed, Active, ReviewInv
<1>2. PICK p \in Paths : p = items[d].out
  BY <1>1
<1>3. Write(p) /\ UNCHANGED <<items, selection, up, current, published, permitted>>
  BY <1>2 DEF ApprovalNotSaved, store, runner, jobVars
<1>4. /\ clock' = clock + 1 /\ file'[p] = clock + 1 /\ clock \in Nat
      /\ \A q \in Paths \ {p} : file'[q] = file[q]
      /\ FileNumbers' /\ ~Selected(p)'
      /\ \A q \in Paths \ {p} : Selected(q)' <=> Selected(q)
  BY <1>3, FreshFile
<1>5. \A e \in Ids : items[e].revision # file'[p]
  <2> SUFFICES ASSUME NEW e \in Ids PROVE items[e].revision # file'[p]
    OBVIOUS
  <2>1. items[e].revision <= clock /\ items[e].revision \in Nat
    BY ReviewTypes DEF ReviewInv, FilesGuarded, RecordsOK, RecordOK
  <2> QED
    BY <1>4, <2>1
<1>6. Guards(items[d], p)'
  BY <1>1, <1>2, <1>3 DEF Guards, IsReviewed
<1>7. FilesGuarded'
  <2>1. clock' \in Nat /\ clock' >= clock
    BY <1>4
  <2> QED
    BY <1>3, <1>4, <1>5, <1>6, <2>1, ChangedFile
<1>8. ASSUME current # NoId, IsReviewed(current), NEW q \in Names(items[current].input)
      PROVE  q \in Paths \ {p}
  <2>1. /\ current \in Ids /\ items[current].status \in Active
        /\ Names(items[current].input) \subseteq Paths
    BY <1>8, ReviewTypes, InputPaths
       DEF ReviewInv, RunOK, Active, Names, IsReviewed
  <2> QED
    BY <1>1, <1>2, <1>8, <2>1, OwnNames DEF ReviewInv, WorkInv
<1>9. \A q \in Paths \ {p} : Covered(q) => Covered(q)'
  BY <1>3, <1>4 DEF Covered
<1>10. RunOK'
  <2>1. /\ "crash" \notin Features => up'
        /\ current # NoId => items'[current] = items[current]
        /\ \A q \in Paths : Selected(q)' => Selected(q)
    BY <1>3, <1>4 DEF ReviewInv, RunOK
  <2> QED
    BY <1>3, <1>4, <1>8, <1>9, <2>1, RunGoesOn
<1> QED
  BY <1>7, <1>10

\* What the user writes is the user's own text: all of it is permitted.
LEMMA EditFileReview ==
  ASSUME ReviewAssumption, ReviewInv, NEW p \in Paths, EditFile(p)
  PROVE  FilesGuarded' /\ RunOK'
<1>1. UNCHANGED <<items, selection, up, current, published>>
  BY DEF EditFile, store, runner
<1>2. CASE Write(p) /\ permitted' = [permitted EXCEPT ![p] = Targets]
  <2>1. /\ clock' = clock + 1 /\ file'[p] = clock + 1 /\ clock \in Nat
        /\ \A q \in Paths \ {p} : file'[q] = file[q]
        /\ FileNumbers' /\ ~Selected(p)'
        /\ \A q \in Paths \ {p} : Selected(q)' <=> Selected(q)
    BY <1>1, <1>2, FreshFile
  <2>2. /\ permitted'[p] = Targets
        /\ \A q \in Paths \ {p} : permitted'[q] = permitted[q]
    BY <1>2, ReviewTypes DEF ReviewInv
  <2>3. \A e \in Ids : items[e].revision # file'[p]
    <3> SUFFICES ASSUME NEW e \in Ids PROVE items[e].revision # file'[p]
      OBVIOUS
    <3>1. items[e].revision <= clock /\ items[e].revision \in Nat
      BY ReviewTypes DEF ReviewInv, FilesGuarded, RecordsOK, RecordOK
    <3> QED
      BY <2>1, <3>1
  <2>4. FilesGuarded'
    <3>1. clock' \in Nat /\ clock' >= clock
      BY <2>1
    <3> QED
      BY <1>1, <2>1, <2>2, <2>3, <3>1, ChangedFile
  <2>5. \A q \in Paths : Covered(q) => Covered(q)'
    BY <2>1, <2>2 DEF Covered
  <2>6. RunOK'
    <3>1. /\ "crash" \notin Features => up'
          /\ current # NoId => items'[current] = items[current]
          /\ \A q \in Paths : Selected(q)' => Selected(q)
      BY <1>1, <2>1 DEF ReviewInv, RunOK
    <3>2. current # NoId /\ IsReviewed(current) =>
            Names(items[current].input) \subseteq Paths
      BY InputPaths DEF IsReviewed, Names
    <3>3. \A q \in Paths : Covered(q)' \/ file'[q] = file[q]
      BY <2>1, <2>2 DEF Covered
    <3> QED
      BY <1>1, <2>5, <3>1, <3>2, <3>3, RunGoesOn
  <2> QED
    BY <2>4, <2>6
<1>3. CASE file' = [file EXCEPT ![p] = 0] /\ UNCHANGED <<clock, permitted>>
  <2>1. /\ clock' = clock /\ clock \in Nat /\ file'[p] = 0
        /\ \A q \in Paths \ {p} : file'[q] = file[q]
    BY <1>3, ReviewTypes DEF ReviewInv
  <2>2. FileNumbers'
    BY <1>1, <2>1 DEF ReviewInv, FilesGuarded, FileNumbers
  <2>3. \A q \in Paths : Selected(q)' <=> Selected(q) /\ q # p
    BY <1>1, <2>1 DEF Selected
  <2>4. \A q \in Paths \ {p} : Covered(q) => Covered(q)'
    BY <1>3, <2>3 DEF Covered
  <2>5. FilesGuarded'
    <3>1. clock' \in Nat /\ clock' >= clock
      BY <2>1
    <3> QED
      BY <1>1, <1>3, <2>1, <2>2, <2>3, <3>1, ChangedFile
  <2>6. ASSUME current # NoId, IsReviewed(current),
               NEW q \in Names(items[current].input), file'[q] >= items[current].begun
        PROVE  q \in Paths \ {p}
    <3>1. q \in Paths
      BY <2>6, InputPaths DEF IsReviewed, Names
    <3>2. items[current].begun \in Nat \ {0}
      BY <2>6, ReviewTypes
         DEF ReviewInv, RunOK, FilesGuarded, RecordsOK, RecordOK, IsReviewed
    <3> QED
      BY <2>1, <2>6, <3>1, <3>2
  <2>7. RunOK'
    <3>1. /\ "crash" \notin Features => up'
          /\ current # NoId => items'[current] = items[current]
          /\ \A q \in Paths : Selected(q)' => Selected(q)
      BY <1>1, <2>3 DEF ReviewInv, RunOK
    <3> QED
      BY <1>1, <2>1, <2>4, <2>6, <3>1, RunGoesOn
  <2> QED
    BY <2>5, <2>7
<1> QED
  BY <1>2, <1>3 DEF EditFile

\* A translation the user asks for is permitted from then on.
LEMMA TranslateFileReview ==
  ASSUME ReviewAssumption, ReviewInv, NEW p \in Paths, NEW t \in Targets,
         TranslateFile(p, t)
  PROVE  FilesGuarded' /\ RunOK'
<1>1. /\ UNCHANGED <<items, file, clock, up, current, published>>
      /\ permitted' = [permitted EXCEPT ![p] = @ \cup {t}]
      /\ selection' = IF Selected(p)
                        THEN [selection EXCEPT ![p].targets = @ \cup {t}]
                        ELSE selection
  BY DEF TranslateFile, runner, disk
<1>2. \A q \in Paths :
        /\ selection'[q].rev = selection[q].rev
        /\ selection'[q].targets =
             IF q = p /\ Selected(p) THEN selection[q].targets \cup {t}
                                     ELSE selection[q].targets
        /\ permitted'[q] = IF q = p THEN permitted[q] \cup {t} ELSE permitted[q]
        /\ permitted[q] \subseteq Targets
  <2>1. /\ \A q \in Paths : permitted[q] \subseteq Targets
        /\ permitted \in [Paths -> SUBSET Targets]
        /\ selection \in [Paths -> [rev : 0 .. MaxClock, targets : SUBSET Targets]]
    BY ReviewTypes DEF ReviewInv, Choices
  <2>2. \A q \in Paths : permitted'[q] = IF q = p THEN permitted[q] \cup {t}
                                               ELSE permitted[q]
    BY <1>1, <2>1
  <2>3. CASE ~Selected(p)
    BY <1>1, <2>1, <2>2, <2>3
  <2>4. CASE Selected(p)
    <3>1. selection' = [selection EXCEPT ![p].targets = @ \cup {t}]
      BY <1>1, <2>4
    <3>2. \A q \in Paths \ {p} : selection'[q] = selection[q]
      BY <2>1, <3>1
    <3>3. selection'[p] = [selection[p] EXCEPT !.targets = @ \cup {t}]
      BY <2>1, <3>1
    <3>4. /\ selection'[p].rev = selection[p].rev
          /\ selection'[p].targets = selection[p].targets \cup {t}
      BY <2>1, <3>3
    <3> QED
      BY <2>1, <2>2, <2>4, <3>2, <3>4
  <2> QED
    BY <2>3, <2>4
<1>3. \A q \in Paths : Selected(q)' <=> Selected(q)
  BY <1>1, <1>2 DEF Selected
<1>4. \A q \in Paths : Covered(q) => Covered(q)'
  BY <1>2, <1>3 DEF Covered
<1>5. FileNumbers' /\ RecordsOK'
  BY <1>1, <1>2 DEF ReviewInv, FilesGuarded, FileNumbers, RecordsOK, RecordOK
<1>6. ReviewsOK'
  <2> SUFFICES ASSUME NEW e \in Ids PROVE ReviewOK(items[e])'
    BY DEF ReviewsOK
  <2>1. ReviewOK(items[e]) /\ items'[e] = items[e]
    BY <1>1 DEF ReviewInv, FilesGuarded, ReviewsOK
  <2>2. InReview(items[e]) => items[e].out \in Paths
    BY ReviewTypes DEF InReview, ReviewInv
  <2>3. \A q \in Paths : permitted[q] \subseteq permitted'[q]
    BY <1>2
  <2> QED
    BY <1>1, <1>3, <2>1, <2>2, <2>3 DEF ReviewOK, InReview
<1>7. SelectionsOK'
  BY <1>2, <1>3 DEF ReviewInv, FilesGuarded, SelectionsOK
<1>8. GuardsOK'
  BY <1>1, <1>4 DEF ReviewInv, FilesGuarded, GuardsOK, Guards
<1>9. RunOK'
  <2>1. /\ "crash" \notin Features => up'
        /\ current # NoId => items'[current] = items[current]
    BY <1>1 DEF ReviewInv, RunOK
  <2>2. current # NoId /\ IsReviewed(current) =>
          Names(items[current].input) \subseteq Paths
    BY InputPaths DEF IsReviewed, Names
  <2> QED
    BY <1>1, <1>3, <1>4, <2>1, <2>2, RunGoesOn
<1> QED
  BY <1>5, <1>6, <1>7, <1>8, <1>9 DEF FilesGuarded

-----------------------------------------------------------------------------
\* Retention drops no item that guards a transcript.
LEMMA PruneReview ==
  ASSUME ReviewAssumption, ReviewInv, NEW d \in Ids, Prune(d)
  PROVE  FilesGuarded' /\ RunOK'
<1> DEFINE new == [Absent EXCEPT !.status = "pruned"]
<1>1. /\ new \in Records /\ new.status = "pruned" /\ new.out = NoPath
      /\ new.begun = 0 /\ new.revision = 0
  <2>1. Absent \in Records /\ "pruned" \in Statuses
    BY DEF Absent, Records, Statuses
  <2> QED
    BY <2>1 DEF Absent, Records
<1>2. items' = [items EXCEPT ![d] = new] /\ items[d].status \in Final /\ d # current
  BY DEF Prune
<1> HIDE DEF new
<1>3. UNCHANGED <<file, clock, permitted, selection, up, current, published>>
  BY DEF Prune, runner, disk, jobVars
<1>4. clock \in Nat
  BY ReviewTypes DEF ReviewInv
<1>5. RecordOK(new) /\ ~InReview(new) /\ new.status \notin Final
  BY <1>1, <1>4 DEF RecordOK, InReview, Active, Final
<1>6. Update(d, new, {})
  BY <1>2, <1>3, <1>5 DEF Update, Remember
<1>7. ASSUME NEW p \in Paths, Guards(items[d], p) PROVE FALSE
  <2>1. d \in Holds
    BY <1>2, <1>7 DEF Guards, Holds, Suspect, IsReviewed, Active, Final
  <2> QED
    BY <2>1 DEF Prune, ReviewAssumption
<1>8. /\ FilesGuarded' /\ \A p \in Paths : Covered(p) => Covered(p)'
      /\ \A e \in Ids : items'[e] = IF e = d THEN new ELSE items[e]
  BY <1>1, <1>3, <1>5, <1>6, <1>7, SavedItem
<1>9. RunOK'
  <2>1. /\ "crash" \notin Features => up'
        /\ current # NoId => items'[current] = items[current]
    BY <1>2, <1>3, <1>8, ReviewTypes DEF ReviewInv, RunOK
  <2> QED
    BY <1>3, <1>8, <2>1, RunStays
<1> QED
  BY <1>8, <1>9

\* A run a crash cut off is begun again later: its item guards on.
LEMMA BootReview ==
  ASSUME ReviewAssumption, ReviewInv, Boot
  PROVE  FilesGuarded' /\ RunOK'
<1>1. /\ UNCHANGED <<selection, file, clock, permitted, current, published>>
      /\ items' = Recovered /\ current = NoId /\ published = NoPath
      /\ "crash" \in Features
  BY ReviewTypes DEF Boot, disk, ReviewInv, WorkInv, CurrentIsKnown, RunOK
<1>2. ASSUME NEW d \in Ids
      PROVE  /\ UNCHANGED <<items[d].input, items[d].out, items[d].begun,
                            items[d].revision, items[d].targets>>
             /\ \/ items'[d] = items[d]
                \/ items[d].status = "running" /\ items'[d].status = "queued"
  <2>1. items[d] \in Records
    BY ReviewTypes DEF ReviewInv
  <2>2. items'[d] = IF items[d].status = "running"
                    THEN [items[d] EXCEPT !.status = "queued"] ELSE items[d]
    BY <1>1 DEF Recovered
  <2> QED
    BY <2>1, <2>2 DEF Records
<1>3. \A p \in Paths : /\ Selected(p)' <=> Selected(p)
                       /\ Covered(p)' <=> Covered(p)
  BY <1>1 DEF Selected, Covered
<1>4. FileNumbers' /\ SelectionsOK'
  BY <1>1, <1>3 DEF ReviewInv, FilesGuarded, FileNumbers, SelectionsOK
<1>5. RecordsOK'
  <2> SUFFICES ASSUME NEW d \in Ids PROVE RecordOK(items[d])'
    BY DEF RecordsOK
  <2>1. RecordOK(items[d])
    BY DEF ReviewInv, FilesGuarded, RecordsOK
  <2> QED
    BY <1>1, <1>2, <2>1 DEF RecordOK
<1>6. ReviewsOK'
  <2> SUFFICES ASSUME NEW d \in Ids PROVE ReviewOK(items[d])'
    BY DEF ReviewsOK
  <2>1. RecordOK(items[d]) /\ ReviewOK(items[d])
    BY DEF ReviewInv, FilesGuarded, RecordsOK, ReviewsOK
  <2>2. InReview(items[d])' => items'[d] = items[d] /\ items[d].out \in Paths
    BY <1>2, <2>1, ReviewTypes DEF InReview, RecordOK, ReviewInv
  <2> QED
    BY <1>1, <1>3, <2>1, <2>2 DEF ReviewOK, InReview
<1>7. GuardsOK'
  <2>1. \A d \in Ids, p \in Paths : Guards(items[d], p) => Guards(items[d], p)'
    BY <1>1, <1>2 DEF Guards, Active
  <2> QED
    BY <1>1, <1>3, <2>1 DEF ReviewInv, FilesGuarded, GuardsOK
<1>8. RunOK'
  BY <1>1 DEF RunOK
<1> QED
  BY <1>4, <1>5, <1>6, <1>7, <1>8 DEF FilesGuarded

LEMMA StepReview ==
  ASSUME ReviewAssumption, ReviewInv, [Next]_vars
  PROVE  ReviewInv'
<1> SUFFICES FilesGuarded' /\ RunOK'
  BY StepKeepsWork DEF ReviewInv
<1>2. CASE DrainStep
  BY <1>2, TakesUpReview, RunPublishesReview, RunReturnsReview, RunFailsReview,
     FinishesReview, IdleStepsReview DEF DrainStep, RunEnds
<1>3. CASE UserStep
  <2>1. CASE \E k \in Keys \cup {NoKey}, i \in Inputs : Submit(k, i)
    BY <2>1, SubmitReview
  <2>2. CASE \E k \in Keys : Resubmit(k)
    BY <2>2, IdleStepsReview
  <2>3. ASSUME NEW d \in Ids,
               \/ Cancel(d) \/ CancelNotSaved(d) \/ ApprovalNotSaved(d)
               \/ \E ts \in SUBSET Targets : Approve(d, ts)
        PROVE  FilesGuarded' /\ RunOK'
    BY <2>3, CancelReview, CancelNotSavedReview, ApprovalNotSavedReview, ApproveReview
  <2>4. ASSUME NEW p \in Paths,
               EditFile(p) \/ \E t \in Targets : TranslateFile(p, t)
        PROVE  FilesGuarded' /\ RunOK'
    BY <2>4, EditFileReview, TranslateFileReview
  <2> QED
    BY <1>3, <2>1, <2>2, <2>3, <2>4 DEF UserStep
<1>4. CASE WorldStep
  BY <1>4, IdleStepsReview, BootReview, PruneReview DEF WorldStep
<1>5. CASE UNCHANGED vars
  BY <1>5, IdleStepsReview
<1> QED
  BY <1>2, <1>3, <1>4, <1>5 DEF Next

LEMMA InitReview == ASSUME Init PROVE FilesGuarded /\ RunOK
<1>1. /\ \A d \in Ids : items[d] = Absent /\ items[d].status = "absent"
         /\ items[d].out = NoPath /\ items[d].begun = 0 /\ items[d].revision = 0
      /\ \A p \in Paths : file[p] = 0 /\ selection[p].rev = 0
      /\ clock = 0 /\ current = NoId /\ published = NoPath /\ up = TRUE
  BY DEF Init, Absent
<1>2. FileNumbers /\ GuardsOK
  BY <1>1 DEF FileNumbers, GuardsOK
<1>3. RecordsOK
  BY <1>1 DEF RecordsOK, RecordOK
<1>4. ReviewsOK
  BY <1>1 DEF ReviewsOK, ReviewOK, InReview, Active
<1>5. SelectionsOK
  BY <1>1 DEF SelectionsOK, Selected
<1>6. RunOK
  BY <1>1 DEF RunOK
<1> QED
  BY <1>2, <1>3, <1>4, <1>5, <1>6 DEF FilesGuarded

\* A step that makes no job "translating".
StartsNone ==
  \A p \in Paths, t \in Targets :
    job'[p][t] = "translating" => job[p][t] = "translating"

LEMMA OthersStartNone ==
  ASSUME WorkInv, [Next]_vars,
         ~ \E p \in Paths, t \in Targets : JobStarts(p, t)
  PROVE  StartsNone
<1>0. job \in [Paths -> [Targets -> {"none", "pending", "translating", "done"}]]
  BY DEF WorkInv, Shape, FilesOK
<1>1. ASSUME NEW p \in Paths, NEW ts, Queues(p, ts) PROVE StartsNone
  BY <1>0, <1>1 DEF Queues, StartsNone
<1>2. ASSUME NEW p \in Paths, NEW t \in Targets,
             \/ Becomes(p, t, "pending") \/ Becomes(p, t, "done")
      PROVE  StartsNone
  BY <1>0, <1>2 DEF Becomes, StartsNone
<1>3. CASE job' = job
  BY <1>3 DEF StartsNone
<1>4. ASSUME NEW d \in NextUp, items[d].out # NoPath PROVE items[d].out \in Paths
  <2>1. d \in Ids
    BY DEF NextUp, Queued, With
  <2> QED
    BY <1>4, <2>1, ReviewTypes
<1>5. CASE DrainStep
  <2>1. job' = job \/ Finishes
    BY <1>5 DEF DrainStep, TakesUp, RunPublishes, RunEnds, RunReturns, RunFails,
                DrainEnds, DrainGivesUp, RunLost, jobVars
  <2>2. CASE Finishes
    <3>1. PICK d \in NextUp : items[d].out # NoPath /\ (Hands(d) \/ HandsNot(d))
      BY <2>2 DEF Finishes
    <3>2. job' = job \/ \E new : Queues(items[d].out, new)
      BY <3>1 DEF Hands, HandsNot
    <3> QED
      BY <1>1, <1>3, <1>4, <3>1, <3>2
  <2> QED
    BY <1>3, <2>1, <2>2
<1>6. CASE UserStep
  <2>1. job' = job \/ \E p \in Paths, t \in Targets : TranslateFile(p, t)
    <3>1. \A k \in Keys \cup {NoKey}, i \in Inputs : Submit(k, i) => job' = job
      BY DEF Submit, jobVars
    <3>2. \A k \in Keys : Resubmit(k) => job' = job
      BY DEF Resubmit, jobVars
    <3>3. \A d \in Ids : Cancel(d) \/ CancelNotSaved(d) \/ ApprovalNotSaved(d)
                           => job' = job
      BY DEF Cancel, CancelNotSaved, ApprovalNotSaved, jobVars
    <3>4. \A d \in Ids : \A ts \in SUBSET Targets : Approve(d, ts) => job' = job
      BY DEF Approve
    <3>5. \A p \in Paths : EditFile(p) => job' = job
      BY DEF EditFile
    <3> QED
      BY <1>6, <3>1, <3>2, <3>3, <3>4, <3>5 DEF UserStep
  <2>2. ASSUME NEW p \in Paths, NEW t \in Targets, TranslateFile(p, t)
        PROVE  StartsNone
    BY <1>0, <2>2 DEF TranslateFile, StartsNone
  <2> QED
    BY <1>3, <2>1, <2>2
<1>7. CASE WorldStep
  <2>1. CASE Crash \/ \E d \in Ids : Prune(d)
    BY <1>3, <2>1 DEF Crash, Prune, jobVars
  <2>2. CASE CrashInFinish
    <3>1. PICK d \in NextUp :
            items[d].out # NoPath /\ \E new : Queues(items[d].out, new)
      BY <2>2 DEF CrashInFinish
    <3> QED
      BY <1>1, <1>4, <3>1
  <2>3. CASE Boot
    BY <1>0, <2>3 DEF Boot, StartsNone
  <2>4. CASE \E p \in Paths, t \in Targets : ScanQueues(p, t) \/ JobEnds(p, t)
    BY <1>2, <2>4 DEF ScanQueues, JobEnds
  <2> QED
    BY <1>7, <2>1, <2>2, <2>3, <2>4 DEF WorldStep
<1>8. CASE UNCHANGED vars
  BY <1>3, <1>8 DEF vars, jobVars
<1> QED
  BY <1>5, <1>6, <1>7, <1>8 DEF Next

LEMMA StepStartsPermitted ==
  ASSUME ReviewInv, [Next]_vars
  PROVE  \A p \in Paths, t \in Targets :
           job[p][t] # "translating" /\ job'[p][t] = "translating"
             => t \in permitted[p]
<1>1. ASSUME NEW q \in Paths, NEW u \in Targets, JobStarts(q, u),
             NEW p \in Paths, NEW t \in Targets,
             job[p][t] # "translating", job'[p][t] = "translating"
      PROVE  t \in permitted[p]
  <2>1. p = q /\ t = u
    <3>1. job \in [Paths -> [Targets -> {"none", "pending", "translating", "done"}]]
      BY DEF ReviewInv, WorkInv, Shape, FilesOK
    <3> QED
      BY <1>1, <3>1 DEF JobStarts, Becomes
  <2> QED
    BY <1>1, <2>1, AllowedIsPermitted DEF JobStarts
<1>2. CASE ~ \E q \in Paths, u \in Targets : JobStarts(q, u)
  BY <1>2, OthersStartNone DEF StartsNone, ReviewInv
<1> QED
  BY <1>1, <1>2

\* A transcript under review is translated into no target the user did not
\* approve or ask for: whatever was queued before, whatever a scan finds, and
\* whether its run was approved, cancelled, failed or cut off by a restart
\* (allowsAutomaticTranslation, WorkStore.update).
THEOREM OnlyPermitted == ASSUME ReviewAssumption PROVE Spec => OnlyPermittedStarts
<1>1. Init => ReviewInv
  BY InitWork, InitReview DEF ReviewInv
<1>2. ReviewInv /\ [Next]_vars => ReviewInv'
  BY StepReview
<1>3. ReviewInv /\ [Next]_vars =>
        [\A p \in Paths, t \in Targets :
           job[p][t] # "translating" /\ job'[p][t] = "translating"
             => t \in permitted[p]]_vars
  BY StepStartsPermitted
<1> QED
  BY <1>1, <1>2, <1>3, PTL DEF Spec, OnlyPermittedStarts
=============================================================================
