------------------------------ MODULE JobLedger ------------------------------
(***************************************************************************)
(* What the translation queue promises to the rest of the program, without *)
(* slots, runs, markers or gates: a job is worked on by one worker at a    *)
(* time, only while it is translating; work towards one output file        *)
(* excludes other work towards it; a job ends by its worker's hand; and a  *)
(* process that dies gives every job it was translating back.              *)
(***************************************************************************)
CONSTANTS Jobs, Outputs, Nobody

VARIABLES state,  \* the state a job is in as its users see it
          writer  \* writer[o]: the job that may write output o, or Nobody

ledger == <<state, writer>>

Settled == {"done", "skipped", "error"}

Writes(j) == {o \in Outputs : writer[o] = j}

LedgerInit == /\ state \in [Jobs -> {"absent", "pending"}]
              /\ writer = [o \in Outputs |-> Nobody]

Add(j) == /\ state[j] = "absent"
          /\ state' = [state EXCEPT ![j] = "pending"]
          /\ UNCHANGED writer

Start(j, o) == /\ state[j] = "pending" /\ writer[o] = Nobody
               /\ state' = [state EXCEPT ![j] = "translating"]
               /\ writer' = [writer EXCEPT ![o] = j]

\* A pending job is settled without any work: its output exists, or belongs
\* to another job.
Dismiss(j) == /\ state[j] = "pending"
              /\ \E r \in {"skipped", "error"} :
                   state' = [state EXCEPT ![j] = r]
              /\ UNCHANGED writer

\* The worker's hand: the job ends, or goes back to the queue.
End(j) == /\ state[j] = "translating"
          /\ \E r \in {"done", "error", "pending"} :
               state' = [state EXCEPT ![j] = r]
          /\ writer' = [o \in Outputs |-> IF writer[o] = j THEN Nobody
                                          ELSE writer[o]]

Requeue(j) == /\ state[j] \in Settled
              /\ state' = [state EXCEPT ![j] = "pending"]
              /\ UNCHANGED writer

Drop(j) == /\ state[j] \in Settled \cup {"pending"}
           /\ state' = [state EXCEPT ![j] = "deleted"]
           /\ UNCHANGED writer

Restart == /\ state' = [j \in Jobs |-> IF state[j] = "translating"
                                         THEN "pending" ELSE state[j]]
           /\ writer' = [o \in Outputs |-> Nobody]

LedgerNext == \/ \E j \in Jobs : \/ Add(j) \/ Dismiss(j) \/ End(j) \/ Requeue(j)
                                 \/ Drop(j) \/ \E o \in Outputs : Start(j, o)
              \/ Restart

Promise == LedgerInit /\ [][LedgerNext]_ledger
=============================================================================
