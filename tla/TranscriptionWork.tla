------------------------- MODULE TranscriptionWork -------------------------
(***************************************************************************)
(* The work queue of transcriptions and its source review                  *)
(* (transcription/work.ts, review-gate.ts): submissions with an            *)
(* idempotency key, the serial drain, cancel, retention, a restart, and    *)
(* the gate that keeps a transcript under review from being translated     *)
(* until the user approves it.                                             *)
(*                                                                         *)
(* A file is the number of its last write, which stands for its content,   *)
(* its revision and its stat; `clock` is the number of writes so far.      *)
(* WorkStore saves every change before it returns and takes it back when   *)
(* the save fails, so the items in memory and on disk are one variable,    *)
(* and a failed save is an action that leaves it alone.                    *)
(***************************************************************************)
EXTENDS Naturals, FiniteSets

CONSTANTS
  Inputs,     \* the videos submitted
  Reviewed,   \* those whose plan asks for a source review
  Plain,      \* Plain[i]: the transcript's name without a language
  Named,      \* Named[i]: its name with the language Whisper found
  Planned,    \* Planned[i]: the translation targets of i's plan
  Targets, Keys,
  MaxItems,   \* bound: items ever created
  MaxClock,   \* bound: writes of files
  Features,   \* what an instance lets the world do
  NoInput, NoPath, NoKey

Paths == {Plain[i] : i \in Inputs} \cup {Named[i] : i \in Inputs}
Ids == 1 .. MaxItems
NoId == 0
AllFeatures == {"cancel", "crash", "edit", "expire", "faults", "legacy"}

ASSUME WorkAssumption ==
  /\ Reviewed \subseteq Inputs /\ NoInput \notin Inputs
  /\ Planned \in [Inputs -> SUBSET Targets] /\ NoKey \notin Keys
  /\ NoPath \notin Paths
  /\ MaxItems \in Nat /\ MaxClock \in Nat /\ Features \subseteq AllFeatures

VARIABLES
  items,      \* items[d]: the record of work item d, in the order of creation
  receipts,   \* receipts[k]: the item submitted under idempotency key k
  selection,  \* selection[p]: what may be made of a reviewed transcript
  up,         \* the process runs
  drain,      \* WorkRunner.drain is off, on, or was thrown out of by a store
              \* that could not be saved
  current,    \* the item drain executes
  published,  \* the path its run has written, NoPath until then
  cancelled,  \* WorkRunner.cancelled
  file, clock,
  job,        \* job[p][t]: the translation job of transcript p into t
  permitted   \* history: the targets p's present content may be translated to

store == <<items, receipts, selection>>
runner == <<up, drain, current, published, cancelled>>
disk == <<file, clock>>
jobVars == <<job, permitted>>
vars == <<store, runner, disk, jobVars>>

-----------------------------------------------------------------------------
Active == {"queued", "running", "needs_review"}
Final == {"succeeded", "failed", "cancelled"}
Absent == [status |-> "absent", input |-> NoInput, batch |-> NoKey,
           begun |-> 0, out |-> NoPath, revision |-> 0, targets |-> {}]
IsReviewed(d) == items[d].input \in Reviewed
With(st) == {d \in Ids : items[d].status = st}
Queued == With("queued")
\* Mutant: a queued item is taken whatever came in before it.
AnyQueued == Queued
NextUp == {d \in Queued : \A e \in Queued : d <= e}

\* updateReviewHold: the items that hold back translations of their video.
Suspect(d) == items[d].status \in {"cancelled", "failed"} /\ items[d].out = NoPath
Holds == {d \in Ids : /\ IsReviewed(d) /\ items[d].begun # 0
                      /\ items[d].status \in Active \/ Suspect(d)}

\* selectionFor: a selection counts while the file is the one it was made for.
Selected(p) == file[p] # 0 /\ selection[p].rev = file[p]

\* A held item matches its own transcript or, before it has one, every subtitle
\* of its video; a cancelled or failed one only what was written since.
Matches(d, p) == IF items[d].out # NoPath THEN items[d].out = p
                 ELSE p \in {Plain[items[d].input], Named[items[d].input]}
Blocks(d, p) ==
  /\ Matches(d, p)
  /\ \/ items[d].status \in Active
     \/ ~Selected(p) /\ file[p] >= items[d].begun

\* allowsAutomaticTranslation, without a target and with one.
UnderReview(p) == \E d \in Holds : Blocks(d, p)
AllowsAutomatic(p, t) ==
  ~UnderReview(p) /\ (Selected(p) => t \in selection[p].targets)

\* WorkStore.update: a reviewed item that ends leaves a selection for its
\* transcript: the accepted targets, or none.
Remember(sel, new, accepted) ==
  IF /\ new.input \in Reviewed /\ new.out # NoPath /\ new.status \in Final
     /\ file[new.out] # 0
    THEN [sel EXCEPT ![new.out] =
            [rev |-> file[new.out],
             targets |-> IF new.status = "succeeded" THEN accepted ELSE {}]]
    ELSE sel
Update(d, new, accepted) ==
  /\ items' = [items EXCEPT ![d] = new]
  /\ selection' = Remember(selection, new, accepted)

Init ==
  /\ items = [d \in Ids |-> Absent] /\ receipts = [k \in Keys |-> NoId]
  /\ selection = [p \in Paths |-> [rev |-> 0, targets |-> {}]]
  /\ up = TRUE /\ drain = "off" /\ current = NoId /\ published = NoPath
  /\ cancelled = {}
  /\ file = [p \in Paths |-> 0] /\ clock = 0
  /\ job = [p \in Paths |-> [t \in Targets |-> "none"]]
  /\ permitted = [p \in Paths |-> Targets]

-----------------------------------------------------------------------------
(* The user's requests.                                                    *)

\* WorkRunner.start; while drain runs it finds what is queued by itself.
Starts == drain' = "on"

\* enqueue: the receipt of a key answers a repeated request; an input that is
\* queued, running or under review is not queued again.  Mutant: only
\* queued items count.
Prior(k) == IF k = NoKey THEN NoId ELSE receipts[k]
ExistingQueued(i) == {d \in Queued : items[d].input = i}
Existing(i) == {d \in Ids : items[d].input = i /\ items[d].status \in Active}
Receive(k, d) == receipts' = IF k = NoKey THEN receipts
                             ELSE [receipts EXCEPT ![k] = d]

Submit(k, i) ==
  /\ up /\ Prior(k) = NoId /\ Starts
  /\ \/ \E d \in Existing(i) : Receive(k, d) /\ UNCHANGED items
     \/ \E d \in With("absent") :
          /\ Existing(i) = {} /\ \A e \in With("absent") : d <= e
          /\ items' = [items EXCEPT ![d] =
               [Absent EXCEPT !.status = "queued", !.input = i, !.batch = k]]
          /\ Receive(k, d)
  /\ UNCHANGED <<selection, up, current, published, cancelled, disk, jobVars>>

\* A request repeated after its answer was lost gets the same item again.
Resubmit(k) ==
  /\ up /\ Prior(k) # NoId /\ items[Prior(k)].status # "pruned" /\ Starts
  /\ UNCHANGED <<store, up, current, published, cancelled, disk, jobVars>>

\* WorkRunner.cancel: a running review item keeps its status until its run
\* returns, so that a transcript it still publishes is known.
MarksAtOnce(d) == items[d].status # "running" \/ ~IsReviewed(d)
Cancel(d) ==
  /\ "cancel" \in Features
  /\ up /\ items[d].status \in Active
  /\ cancelled' = IF items[d].status = "running" THEN cancelled \cup {d}
                  ELSE cancelled
  /\ IF MarksAtOnce(d)
       THEN Update(d, [items[d] EXCEPT !.status = "cancelled"], {})
       ELSE UNCHANGED <<items, selection>>
  /\ UNCHANGED <<receipts, up, drain, current, published, disk, jobVars>>

\* A cancel whose item is not saved leaves its mark, and does not abort the run.
CancelNotSaved(d) ==
  /\ {"cancel", "faults"} \subseteq Features
  /\ up /\ items[d].status = "running" /\ MarksAtOnce(d)
  /\ cancelled' = cancelled \cup {d}
  /\ UNCHANGED <<store, up, drain, current, published, disk, jobVars>>
Aborted(d) == d \in cancelled /\ (IsReviewed(d) \/ items[d].status = "cancelled")

\* approve: the user saves the transcript, edited or not, and picks targets of
\* the plan.  The file is rewritten before the item is saved.
Write(p) == /\ clock < MaxClock /\ clock' = clock + 1
            /\ file' = [file EXCEPT ![p] = clock + 1]
Approve(d, ts) ==
  LET p == items[d].out
  IN  /\ up /\ items[d].status = "needs_review" /\ p # NoPath /\ file[p] # 0
      /\ ts \subseteq Planned[items[d].input]
      /\ Write(p) \/ UNCHANGED disk
      /\ items' = [items EXCEPT ![d].status = "queued",
                                ![d].revision = file'[p], ![d].targets = ts]
      /\ permitted' = [permitted EXCEPT ![p] = ts]
      /\ Starts
      /\ UNCHANGED <<receipts, selection, up, current, published, cancelled, job>>
ApprovalNotSaved(d) ==
  /\ "faults" \in Features
  /\ up /\ items[d].status = "needs_review" /\ items[d].out # NoPath
  /\ file[items[d].out] # 0 /\ Write(items[d].out)
  /\ UNCHANGED <<store, runner, jobVars>>

\* POST /api/translate-file, and a retry of one job: refused while the
\* transcript is under review; later it adds its target to the selection.
TranslateFile(p, t) ==
  /\ up /\ file[p] # 0 /\ ~UnderReview(p) /\ job[p][t] # "done"
  /\ selection' = IF Selected(p)
                    THEN [selection EXCEPT ![p].targets = @ \cup {t}]
                    ELSE selection
  /\ job' = [job EXCEPT ![p][t] = IF @ = "none" THEN "pending" ELSE @]
  /\ permitted' = [permitted EXCEPT ![p] = @ \cup {t}]
  /\ UNCHANGED <<items, receipts, runner, disk>>

\* The user, or another program, writes or deletes a subtitle.
EditFile(p) ==
  /\ "edit" \in Features
  /\ \/ Write(p) /\ permitted' = [permitted EXCEPT ![p] = Targets]
     \/ file[p] # 0 /\ file' = [file EXCEPT ![p] = 0] /\ UNCHANGED <<clock, permitted>>
  /\ UNCHANGED <<store, runner, job>>
-----------------------------------------------------------------------------
(* The drain: one item at a time, the oldest queued one first.             *)

Idle == up /\ drain = "on" /\ current = NoId

\* No run is left; the next one starts anew.
NoRunLeft == current' = NoId /\ published' = NoPath

\* The first run of an item; a review begins here, and keeps the time.
\* Mutant: a run after a restart begins the review anew.
BegunAgain(d) == IF IsReviewed(d) THEN clock + 1 ELSE 0
Begun(d) == IF IsReviewed(d) /\ items[d].begun = 0 THEN clock + 1
            ELSE items[d].begun
TakesUp ==
  /\ Idle
  /\ \E d \in NextUp :
       /\ items[d].out = NoPath
       /\ items' = [items EXCEPT ![d].status = "running", ![d].begun = Begun(d)]
       /\ current' = d
  /\ UNCHANGED <<receipts, selection, up, drain, published, cancelled, disk,
                 jobVars>>

\* runTranscriptionAttempt writes the transcript: under the name with its
\* language, or without it when none is known, or when a subtitle has the name
\* and the request did not agree to overwrite it.  A run whose publication is
\* deferred does not write after it was aborted; a legacy backend may.
RunPublishes ==
  LET i == items[current].input
  IN  /\ up /\ current # NoId /\ published = NoPath
      /\ ~Aborted(current) \/ "legacy" \in Features
      /\ \E p \in {Plain[i], Named[i]} :
           /\ Write(p) /\ published' = p
           /\ permitted' = [permitted EXCEPT ![p] =
                               IF i \in Reviewed THEN {} ELSE Targets]
      /\ UNCHANGED <<store, up, drain, current, cancelled, job>>

\* The run returns: to its review, to queue its targets, or to the end (also of
\* a plan with an empty list of targets, which is queued once more first).  A
\* cancelled one ends as cancelled, and a reviewed one keeps its transcript.
\* Mutant: a cancel is not looked at again.
ReturnedUncancelled(d) ==
  [items[d] EXCEPT !.out = published,
     !.status = IF IsReviewed(d) THEN "needs_review"
                ELSE IF Planned[items[d].input] # {} THEN "queued"
                ELSE "succeeded"]
Returned(d) ==
  IF d \in cancelled
    THEN [items[d] EXCEPT !.status = "cancelled",
                          !.out = IF IsReviewed(d) THEN published ELSE @]
    ELSE ReturnedUncancelled(d)
RunReturns ==
  /\ up /\ published # NoPath
  /\ Update(current, Returned(current), {})
  /\ NoRunLeft /\ cancelled' = cancelled \ {current}
  /\ UNCHANGED <<receipts, up, drain, disk, jobVars>>

\* It fails, whether or not it has published, or its result is not saved.
RunFails ==
  /\ up /\ current # NoId
  /\ Update(current, [items[current] EXCEPT !.status =
                        IF Aborted(current) THEN "cancelled" ELSE "failed"], {})
  /\ NoRunLeft /\ cancelled' = cancelled \ {current}
  /\ UNCHANGED <<receipts, up, drain, disk, jobVars>>

\* finishFileWork: the approved transcript, if it is still the one on disk, is
\* handed to the translation queue.  A target whose task changed or whose
\* output exists is refused, one that is translating or done stays as it is.
ChangedSince(d) == IsReviewed(d) /\ items[d].revision # file[items[d].out]
Wanted(d) == IF IsReviewed(d) THEN items[d].targets ELSE Planned[items[d].input]
InState(d, st) == {t \in Wanted(d) : job[items[d].out][t] = st}
Queues(p, ts) == job' = [job EXCEPT ![p] =
                   [t \in Targets |-> IF t \in ts THEN "pending" ELSE @[t]]]
End(d, st, accepted) == Update(d, [items[d] EXCEPT !.status = st], accepted)
Hands(d) == /\ file[items[d].out] # 0 /\ ~ChangedSince(d)
            /\ \E new \in SUBSET InState(d, "none") :
                 /\ Queues(items[d].out, new)
                 /\ End(d, "succeeded", new \cup InState(d, "pending"))
HandsNot(d) ==
  /\ \/ file[items[d].out] = 0 /\ End(d, "failed", {})
     \/ file[items[d].out] # 0 /\ ChangedSince(d) /\ End(d, "needs_review", {})
  /\ UNCHANGED job
Finishes ==
  /\ Idle
  /\ \E d \in NextUp : items[d].out # NoPath /\ (Hands(d) \/ HandsNot(d))
  /\ UNCHANGED <<receipts, runner, disk, permitted>>

DrainEnds ==
  /\ Idle /\ Queued = {} /\ drain' = "off"
  /\ UNCHANGED <<store, up, current, published, cancelled, disk, jobVars>>

\* The store cannot be saved: drain starts itself again until it is thrown out
\* of, or throws after a run whose item then stays running until a restart.
DrainGivesUp ==
  /\ "faults" \in Features /\ Idle /\ Queued # {} /\ drain' = "thrown"
  /\ UNCHANGED <<store, up, current, published, cancelled, disk, jobVars>>
RunLost ==
  /\ "faults" \in Features /\ up /\ current # NoId
  /\ NoRunLeft /\ cancelled' = cancelled \ {current} /\ drain' \in {"on", "thrown"}
  /\ UNCHANGED <<store, up, disk, jobVars>>

\* prune: items that ended more than a week, or 500 items, ago are dropped, and
\* so is the receipt of each; without "expire" not one that holds a transcript.
Prune(d) ==
  /\ up /\ items[d].status \in Final /\ d # current
  /\ d \in Holds => "expire" \in Features
  /\ items' = [items EXCEPT ![d] = [Absent EXCEPT !.status = "pruned"]]
  /\ receipts' = [k \in Keys |-> IF receipts[k] = d THEN NoId ELSE receipts[k]]
  /\ UNCHANGED <<selection, runner, disk, jobVars>>

-----------------------------------------------------------------------------
(* The process dies and comes back; the library scan and the job queue.    *)

Down == /\ up' = FALSE /\ drain' = "off" /\ NoRunLeft /\ cancelled' = {}
Crash ==
  /\ "crash" \in Features /\ up /\ Down
  /\ UNCHANGED <<store, disk, jobVars>>
CrashInFinish ==
  /\ "crash" \in Features /\ Idle
  /\ \E d \in NextUp :
       /\ items[d].out # NoPath /\ file[items[d].out] # 0 /\ ~ChangedSince(d)
       /\ \E new \in SUBSET InState(d, "none") \ {{}} : Queues(items[d].out, new)
  /\ Down /\ UNCHANGED <<store, disk, permitted>>

\* recover: interrupted items are queued again, and the jobs table's
\* interrupted jobs are pending again.  Mutant: the drain is not started.
Recovered == [d \in Ids |-> IF items[d].status = "running"
                THEN [items[d] EXCEPT !.status = "queued"] ELSE items[d]]
BootStartsNothing == drain' = "off"
BootStarts == drain' = "on"
Boot ==
  /\ ~up /\ up' = TRUE /\ BootStarts
  /\ items' = Recovered
  /\ job' = [p \in Paths |-> [t \in Targets |->
               IF job[p][t] = "translating" THEN "pending" ELSE job[p][t]]]
  /\ UNCHANGED <<receipts, selection, current, published, cancelled, disk,
                 permitted>>

Becomes(p, t, st) == /\ job' = [job EXCEPT ![p][t] = st]
                     /\ UNCHANGED <<store, runner, disk, permitted>>
ScanQueues(p, t) == /\ up /\ file[p] # 0 /\ job[p][t] = "none"
                    /\ AllowsAutomatic(p, t) /\ Becomes(p, t, "pending")
JobStarts(p, t) == /\ up /\ file[p] # 0 /\ job[p][t] = "pending"
                   /\ AllowsAutomatic(p, t) /\ Becomes(p, t, "translating")
JobEnds(p, t) == up /\ job[p][t] = "translating" /\ Becomes(p, t, "done")

-----------------------------------------------------------------------------
RunEnds == RunReturns \/ RunFails
DrainStep == \/ TakesUp \/ RunPublishes \/ RunEnds \/ Finishes \/ DrainEnds
             \/ DrainGivesUp \/ RunLost
UserStep == \/ \E k \in Keys \cup {NoKey}, i \in Inputs : Submit(k, i)
            \/ \E k \in Keys : Resubmit(k)
            \/ \E d \in Ids : \/ Cancel(d) \/ CancelNotSaved(d) \/ ApprovalNotSaved(d)
                             \/ \E ts \in SUBSET Targets : Approve(d, ts)
            \/ \E p \in Paths : \/ EditFile(p)
                               \/ \E t \in Targets : TranslateFile(p, t)
WorldStep == \/ Crash \/ CrashInFinish \/ Boot \/ \E d \in Ids : Prune(d)
             \/ \E p \in Paths, t \in Targets :
                  ScanQueues(p, t) \/ JobStarts(p, t) \/ JobEnds(p, t)
Next == DrainStep \/ UserStep \/ WorldStep

Spec == Init /\ [][Next]_vars

\* The event loop runs the drain, every run ends (its calls have timeouts), and
\* the process is started again.  Nothing is assumed of the user.
Fairness == /\ WF_vars(TakesUp) /\ WF_vars(RunEnds) /\ WF_vars(Finishes)
            /\ WF_vars(Boot)
FairSpec == Spec /\ Fairness

-----------------------------------------------------------------------------
(* Properties.                                                             *)

\* The shape of every variable.
ItemOK(x) ==
  /\ x.status \in Active \cup Final \cup {"absent", "pruned"}
  /\ x.input \in Inputs \cup {NoInput} /\ x.batch \in Keys \cup {NoKey}
  /\ x.out \in Paths \cup {NoPath} /\ x.targets \subseteq Targets
  /\ x.begun \in 0 .. MaxClock + 1 /\ x.revision \in 0 .. MaxClock
StoreOK == /\ DOMAIN items = Ids /\ \A d \in Ids : ItemOK(items[d])
           /\ receipts \in [Keys -> Ids \cup {NoId}]
           /\ \A p \in Paths : /\ selection[p].rev \in 0 .. MaxClock
                              /\ selection[p].targets \subseteq Targets
RunnerOK == /\ up \in BOOLEAN /\ drain \in {"off", "on", "thrown"}
            /\ current \in Ids \cup {NoId} /\ cancelled \subseteq Ids
            /\ published \in Paths \cup {NoPath}
            /\ published # NoPath => current # NoId
FilesOK == /\ clock \in 0 .. MaxClock /\ file \in [Paths -> 0 .. MaxClock]
           /\ job \in [Paths -> [Targets ->
                         {"none", "pending", "translating", "done"}]]
           /\ permitted \in [Paths -> SUBSET Targets]
TypeOK == StoreOK /\ RunnerOK /\ FilesOK

\* At most one item of a video is queued, running or under review, through
\* repeated submissions, cancels in the middle of a run and restarts (enqueue).
OneActivePerInput ==
  \A d, e \in With("queued") \cup With("running") \cup With("needs_review") :
    items[d].input = items[e].input => d = e

\* A transcript under review is translated into no target the user did not
\* approve or ask for: whatever was queued before, whatever a scan finds
\* meanwhile, and whether its run was approved, cancelled, failed or cut off
\* by a restart ("holds translation until approval", processing-workflows.md).
OnlyPermittedStarts ==
  [][\A p \in Paths, t \in Targets :
       job[p][t] # "translating" /\ job'[p][t] = "translating"
         => t \in permitted[p]]_vars

\* A cancel that was accepted holds: the item never succeeds, waits for review
\* or hands out targets afterwards, even when its run had finished its work
\* ("prevents queued work executing", work.test.ts).
CancelSticks ==
  [][\A d \in Ids :
       LET now == items'[d].status
       IN  /\ items[d].status = "cancelled" => now \in {"cancelled", "pruned"}
           /\ Aborted(d) /\ up' => now \in {"running", "cancelled", "pruned"}]_vars

\* The work queue keeps the promise of WorkLedger.  A queued item that has its
\* transcript is being handed on; a cancelled and a failed one are stopped.
StageOf(x) == IF x.status = "queued" /\ x.out # NoPath THEN "handing"
              ELSE IF x.status \in {"cancelled", "failed"} THEN "stopped"
              ELSE x.status
LedgerStage == [d \in Ids |-> StageOf(items[d])]
LedgerVideo == [d \in Ids |-> items[d].input]
Ledger == INSTANCE WorkLedger WITH
  Numbers <- Ids, Videos <- Inputs, NoVideo <- NoInput, Nobody <- NoId,
  stage <- LedgerStage, video <- LedgerVideo, atWork <- current
KeepsWorkPromise == Ledger!Promise

\* Queued work is taken up: no start is lost while a run ends, is cancelled or
\* is cut off by a restart, as long as the store can be saved and
\* the process stays up in the end.
QueuedWorkMoves ==
  <>[]up => \A d \in Ids :
    (items[d].status = "queued")
      ~> (items[d].status # "queued" \/ drain = "thrown")
=============================================================================
