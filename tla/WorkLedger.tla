----------------------------- MODULE WorkLedger -----------------------------
(***************************************************************************)
(* What the transcription work queue promises to those who submit videos,  *)
(* without files, receipts, selections or saves: a video has at most one   *)
(* open item; items are worked on one at a time and in the order they came *)
(* in; a reviewed video is handed on only after its review; what has       *)
(* succeeded or was stopped never opens again; a process that dies gives   *)
(* back what it was working on.                                            *)
(***************************************************************************)
EXTENDS Naturals

CONSTANTS Numbers,   \* the numbers of items, in the order they come in
          Videos, Reviewed, NoVideo, Nobody

VARIABLES stage,  \* the stage an item is in
          video,  \* the video it is for
          atWork  \* the item that is worked on, or Nobody

workLedger == <<stage, video, atWork>>

\* An item waits in line twice: to be worked on and, with its transcript
\* approved, to be handed on.
InLine(d) == stage[d] \in {"queued", "handing"}
Open(d) == InLine(d) \/ stage[d] \in {"running", "needs_review"}
First(d) == InLine(d) /\ \A e \in Numbers : InLine(e) => d <= e

\* Item d alone goes to stage s.
Goes(d, s) == UNCHANGED video /\ stage' = [stage EXCEPT ![d] = s]

WorkInit == /\ stage = [d \in Numbers |-> "absent"]
            /\ video = [d \in Numbers |-> NoVideo]
            /\ atWork = Nobody

Accept(d, v) == /\ stage[d] = "absent" /\ \A e \in Numbers : e < d => stage[e] # "absent"
                /\ \A e \in Numbers : Open(e) => video[e] # v
                /\ stage' = [stage EXCEPT ![d] = "queued"]
                /\ video' = [video EXCEPT ![d] = v] /\ UNCHANGED atWork

Begin(d) == /\ atWork = Nobody /\ First(d) /\ stage[d] = "queued"
            /\ Goes(d, "running") /\ atWork' = d

\* The transcript is there: for its review, or to be handed on at once.
Deliver(d) == /\ atWork = d /\ stage[d] = "running" /\ atWork' = Nobody
              /\ IF video[d] \in Reviewed THEN Goes(d, "needs_review")
                 ELSE Goes(d, "handing") \/ Goes(d, "succeeded")

Approve(d) == /\ stage[d] = "needs_review"
              /\ Goes(d, "handing") /\ UNCHANGED atWork

\* Handed on, back to the review of a transcript that has changed, or not
\* possible any more.
HandOver(d) == /\ atWork = Nobody /\ First(d) /\ stage[d] = "handing"
               /\ \/ Goes(d, "succeeded") \/ Goes(d, "stopped")
                  \/ video[d] \in Reviewed /\ Goes(d, "needs_review")
               /\ UNCHANGED atWork

\* A cancel, or a failure: with the item's work over, or still to end.
Stop(d) == /\ Open(d) /\ Goes(d, "stopped")
           /\ atWork' = atWork \/ (atWork = d /\ atWork' = Nobody)

\* The work on an item is over without a word about it: the item was stopped
\* before, its end could not be saved, or the process died.
Leave == atWork # Nobody /\ atWork' = Nobody /\ UNCHANGED <<stage, video>>

Recover == /\ atWork = Nobody /\ UNCHANGED <<video, atWork>>
           /\ stage' = [d \in Numbers |-> IF stage[d] = "running" THEN "queued"
                                          ELSE stage[d]]

Drop(d) == /\ stage[d] \in {"succeeded", "stopped"} /\ atWork # d
           /\ stage' = [stage EXCEPT ![d] = "pruned"]
           /\ video' = [video EXCEPT ![d] = NoVideo] /\ UNCHANGED atWork

\* Most steps of a queue change nothing here: the first disjunct says so once
\* more than the subscript of Promise does, and spares TLC the others.
WorkNext == \/ UNCHANGED workLedger
            \/ \E d \in Numbers : \/ Begin(d) \/ Deliver(d) \/ Approve(d)
                                  \/ HandOver(d) \/ Stop(d) \/ Drop(d)
                                  \/ \E v \in Videos : Accept(d, v)
            \/ Leave \/ Recover

Promise == WorkInit /\ [][WorkNext]_workLedger
=============================================================================
