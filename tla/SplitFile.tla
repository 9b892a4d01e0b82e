----------------------------- MODULE SplitFile -----------------------------
(***************************************************************************)
(* One file translated on every connection at once (translator/engine.ts   *)
(* with llm_split_file): the workers and their chunks, the original        *)
(* attempt of a chunk and its duplicate on another machine                 *)
(* (chunk-hedge.ts), the cascade of an attempt through the connections     *)
(* (chunk-translator.ts), each server's shrinking limit (split-run.ts,     *)
(* concurrency-gate.ts), and the finished chunks kept beside the output    *)
(* for the next run of the job (cue-progress.ts).                          *)
(*                                                                         *)
(* Every connection is a machine and a server of its own.  A step is the   *)
(* code between two awaits.  Three things are left open: the order in      *)
(* which an attempt tries the connections, so that nothing tells workers   *)
(* apart; which connections health has given up when an attempt looks; and *)
(* how long a call has run, so that a chunk may stall as soon as it begun. *)
(***************************************************************************)
EXTENDS Naturals, FiniteSets, Sequences

CONSTANTS
  NumChunks,
  Conns,
  Limit,     \* Limit[c]: the requests c's server takes at a time
  Features,  \* what an instance lets the world do
  NoConn, Nobody

Chunks == 1 .. NumChunks
Kinds == {"original", "duplicate"}
Attempts == Chunks \X Kinds
AllFeatures == {"crash", "faults", "refine", "rekey", "stop"}

ASSUME SplitAssumption ==
  /\ NumChunks \in Nat \ {0}
  /\ Limit \in [Conns -> Nat \ {0}] /\ Cardinality(Conns) > 1
  /\ Features \subseteq AllFeatures
  /\ NoConn \notin Conns /\ Nobody \notin Kinds

\* workerPrimaries: one worker per request a server can take.
NumWorkers == Cardinality(UNION {{<<c, n>> : n \in 1 .. Limit[c]} : c \in Conns})

VARIABLES
  phase,      \* "off", "work", "sweep", "done"
  aborted,    \* the job's signal: stopped, cancelled, or a worker threw
  failed,     \* a worker threw
  todo,       \* chunkQueue: while it is not empty a free worker takes from it,
              \* then it is in runIdleLoop
  att,        \* att[a]: an attempt at a chunk, and the worker that runs it
  last,       \* record.conn: the connection an original tries, or tried last
  tried,      \* record.triedConnIds
  winner,     \* record.winner
  limit, running, waiters,  \* each server's gate
  text,       \* text[k]: nothing, lines of k, or all of k
  saved,      \* chunks whole in <output>.part.json
  output      \* the finished file is at its path

runVars == <<phase, aborted, failed>>
record == <<last, tried, winner>>
gateVars == <<limit, running, waiters>>
file == <<text, saved, output>>
vars == <<runVars, todo, att, record, gateVars, file>>

-----------------------------------------------------------------------------
(* Attempts, and who waits for whom.                                       *)

\* Where an attempt is: about to take a slot of its connection ("ready", or
\* "woken" from the line of its gate), in a call, with an answer to "claim", or
\* with an overflowed context ("full").  An original waits for its duplicate when
\* every connection failed ("hear"), when it has some lines only ("part") and
\* when it threw ("lost").
Stages == {"off", "ready", "gate", "woken", "call", "claim", "full", "hear",
           "part", "lost"}
Off == [stage |-> "off", conn |-> NoConn, left |-> {},
        crowded |-> FALSE, seen |-> 0, ended |-> FALSE]
\* usable are the connections that health.live leaves.
Fresh(usable) == [Off EXCEPT !.left = usable]
Answered(x) == [Off EXCEPT !.stage = "claim", !.conn = x.conn, !.ended = x.ended]

Original(k) == <<k, "original">>
Duplicate(k) == <<k, "duplicate">>
Other(a) == IF a[2] = "original" THEN Duplicate(a[1]) ELSE Original(a[1])
Racing(a) == att[a].stage # "off"
FreeWorkers == NumWorkers - Cardinality({a \in Attempts : Racing(a)})
Ended(a) == att[a].ended \/ aborted

\* waitForDuplicate.
DuplicateIsOver(k) == ~Racing(Duplicate(k))

\* The cascade of an original whose state is x goes on, past the connection of
\* its duplicate.  Mutant: it tries that one too.
TriesAll(k, x) == x.left
Tries(k, x) == x.left \ {att[Duplicate(k)].conn}
Onward(k, x, limits) ==
  IF Tries(k, x) = {} THEN {[Off EXCEPT !.stage = "hear", !.ended = x.ended]}
  ELSE {[x EXCEPT !.stage = "ready", !.conn = c, !.left = @ \ {c},
                  !.crowded = FALSE, !.seen = limits[c]] : c \in Tries(k, x)}
OnConnection(k, x) ==
  last' = IF x.stage = "ready" THEN [last EXCEPT ![k] = x.conn] ELSE last

\* nextDuplicate, targetFor: a tracked chunk without a winner or a duplicate, and
\* a connection that neither a duplicate of it nor its original tried.
MayDuplicate(k) == Racing(Original(k)) /\ winner[k] = Nobody /\ DuplicateIsOver(k)
Targets(k) == Conns \ (tried[k] \cup {last[k]})

\* Chunk requests in flight at c, but for a's.
InFlight(c, a) == {b \in Attempts : /\ b # a /\ att[b].stage = "call"
                                    /\ att[b].conn = c}

\* release: the first in line is woken, and looks at the limit again itself.
\* Mutant: it is not woken.
NextInLineNone(c) == {}
NextInLine(c) == IF waiters[c] = <<>> THEN {} ELSE {Head(waiters[c])}
Wakes(c) == waiters' = [waiters EXCEPT ![c] = IF NextInLine(c) = {} THEN @ ELSE Tail(@)]
Woken(f, c) == [a \in Attempts |-> IF a \in NextInLine(c)
                                   THEN [f[a] EXCEPT !.stage = "woken"] ELSE f[a]]
Releases(a, new) ==
  LET c == att[a].conn
  IN  /\ running' = [running EXCEPT ![c] = @ - 1]
      /\ att' = [Woken(att, c) EXCEPT ![a] = new] /\ Wakes(c)

\* What a run starts from, and leaves behind in memory when it is over.
Blank ==
  /\ att' = [a \in Attempts |-> Off] /\ last' = [k \in Chunks |-> NoConn]
  /\ tried' = [k \in Chunks |-> {}] /\ winner' = [k \in Chunks |-> Nobody]
  /\ limit' = Limit /\ running' = [c \in Conns |-> 0]
  /\ waiters' = [c \in Conns |-> <<>>] /\ aborted' = FALSE /\ failed' = FALSE
Init ==
  /\ phase = "off" /\ aborted = FALSE /\ failed = FALSE /\ todo = {}
  /\ att = [a \in Attempts |-> Off] /\ last = [k \in Chunks |-> NoConn]
  /\ tried = [k \in Chunks |-> {}] /\ winner = [k \in Chunks |-> Nobody]
  /\ limit = Limit /\ running = [c \in Conns |-> 0]
  /\ waiters = [c \in Conns |-> <<>>]
  /\ text = [k \in Chunks |-> "none"] /\ saved = {} /\ output = FALSE

-----------------------------------------------------------------------------
(* The run of the file and its workers.                                    *)

\* translateFile up to its workers: chunks saved for this very work are kept.
Start ==
  /\ phase = "off" /\ ~output /\ phase' = "work" /\ Blank
  /\ saved' \in {saved} \cup (IF "rekey" \in Features THEN {{}} ELSE {})
  /\ text' = [k \in Chunks |-> IF k \in saved' THEN "whole" ELSE "none"]
  /\ todo' = Chunks \ saved' /\ UNCHANGED output

\* It is over without an output: a worker threw, or the process died.
GivesUp == /\ phase' = "off" /\ Blank /\ todo' = {}
           /\ text' = [k \in Chunks |-> "none"] /\ UNCHANGED <<saved, output>>

\* worker: the next chunk in the order of the file.
Picks ==
  /\ FreeWorkers > 0 /\ todo # {}
  /\ LET k == CHOOSE k \in todo : \A l \in todo : k <= l
     IN  /\ todo' = todo \ {k}
         /\ \E usable \in SUBSET Conns : \E new \in Onward(k, Fresh(usable), limit) :
              att' = [att EXCEPT ![Original(k)] = new] /\ OnConnection(k, new)
  /\ UNCHANGED <<runVars, tried, winner, gateVars, file>>

\* runIdleLoop, sendDuplicate.
SendsDuplicate ==
  /\ FreeWorkers > 0 /\ todo = {} /\ ~aborted
  /\ \E k \in Chunks : MayDuplicate(k) /\ \E c \in Targets(k) :
       /\ tried' = [tried EXCEPT ![k] = @ \cup {c}]
       /\ att' = [att EXCEPT ![Duplicate(k)] = [Off EXCEPT !.stage = "ready", !.conn = c]]
  /\ UNCHANGED <<runVars, todo, last, winner, gateVars, file>>

\* Promise.all: no worker has a chunk left, or one threw, and its siblings are
\* aborted as it did.
WorkersEnd ==
  /\ phase = "work"
  /\ \/ failed /\ GivesUp
     \/ /\ ~failed /\ todo = {} /\ \A a \in Attempts : ~Racing(a)
        /\ phase' = "sweep"
        /\ UNCHANGED <<aborted, failed, todo, att, record, gateVars, file>>

\* The sweep over what is left, where a line that fails keeps its source text,
\* and the final write and rename, which may throw.  A stop ends it only while
\* lines are left, and only through a connection that is still in use.
Missing == {k \in Chunks : text[k] # "whole"}
Finishes ==
  /\ phase = "sweep"
  /\ \/ ((aborted /\ Missing # {}) \/ "faults" \in Features) /\ GivesUp
     \/ /\ phase' = "done" /\ output' = TRUE /\ saved' = {}
        /\ text' = [k \in Chunks |-> "whole"]
        /\ UNCHANGED <<aborted, failed, todo, att, record, gateVars>>

-----------------------------------------------------------------------------
(* The steps of one attempt.                                               *)

OnlyAttempts == UNCHANGED <<runVars, todo, tried, winner, limit, file>>

\* ConcurrencyGate.acquire, once the connection has been probed.
HasRoom(c) == running[c] < limit[c]
TakesSlot(a) ==
  LET c == att[a].conn
  IN  /\ att[a].stage \in {"ready", "woken"} /\ ~Ended(a)
      /\ IF HasRoom(c)
           THEN /\ running' = [running EXCEPT ![c] = @ + 1] /\ UNCHANGED waiters
                /\ att' = [att EXCEPT ![a].stage = "call", ![a].crowded =
                             InFlight(c, a) # {}]
           ELSE /\ waiters' = [waiters EXCEPT ![c] = Append(@, a)]
                /\ att' = [att EXCEPT ![a].stage = "gate"] /\ UNCHANGED running
      /\ UNCHANGED last /\ OnlyAttempts

\* The call, or the probe before it, fails: an original goes on to its next
\* connection.
Failing(a) == ~Ended(a) /\ att[a].stage \in {"ready", "call"}
GivesSlotBack(a, new) ==
  IF att[a].stage = "call" THEN Releases(a, new)
  ELSE att' = [att EXCEPT ![a] = new] /\ UNCHANGED <<running, waiters>>
CallFails(k) ==
  LET a == Original(k)
  IN  /\ Failing(a)
      /\ \E new \in Onward(k, att[a], limit) :
           GivesSlotBack(a, new) /\ OnConnection(k, new)
      /\ OnlyAttempts

\* It answers in full.
CallAnswers(a) == /\ att[a].stage = "call" /\ ~Ended(a) /\ Releases(a, Answered(att[a]))
                  /\ UNCHANGED last /\ OnlyAttempts

\* A ContextOverflowError while the server had another chunk in flight.
Overflows(k) ==
  LET a == Original(k)
  IN  /\ att[a].stage = "call" /\ ~Ended(a)
      /\ att[a].crowded \/ InFlight(att[a].conn, a) # {}
      /\ Releases(a, [att[a] EXCEPT !.stage = "full", !.crowded = FALSE, !.left = {}])
      /\ UNCHANGED last /\ OnlyAttempts

-----------------------------------------------------------------------------
(* The end of an attempt.                                                  *)

\* The record of a chunk goes with the last attempt that holds it (finish).
Forgets(a) ==
  IF Racing(Other(a)) THEN UNCHANGED record
  ELSE /\ last' = [last EXCEPT ![a[1]] = NoConn]
       /\ tried' = [tried EXCEPT ![a[1]] = {}]
       /\ winner' = [winner EXCEPT ![a[1]] = Nobody]
Quits(a) == att' = [att EXCEPT ![a] = Off] /\ Forgets(a) /\ UNCHANGED <<aborted, failed>>

\* worker, the catch: the job's signal ends its siblings.
Throws == failed' = TRUE /\ aborted' = TRUE

\* onAbort, in the line of c's gate.
Splice(line, i) == SubSeq(line, 1, i - 1) \o SubSeq(line, i + 1, Len(line))
LeavesLine(a, c) ==
  \E i \in 1 .. Len(waiters[c]) :
    waiters[c][i] = a /\ waiters' = [waiters EXCEPT ![c] = Splice(@, i)]

\* The attempt has been aborted: before its slot, in line, in its call, or in the
\* refinement of its answer.  A loser ends quietly, and so does a duplicate; an
\* original of a job that was aborted throws.
Stops(a) ==
  LET c == att[a].conn
  IN  /\ att[a].stage \in {"ready", "gate", "woken", "call", "claim"} /\ Ended(a)
      /\ IF a[2] = "original" /\ aborted THEN Throws /\ UNCHANGED record
         ELSE Forgets(a) /\ UNCHANGED <<aborted, failed>>
      /\ \/ att[a].stage = "call" /\ Releases(a, Off)
         \/ /\ att[a].stage = "claim" /\ "refine" \in Features
            /\ att' = [att EXCEPT ![a] = Off] /\ UNCHANGED <<running, waiters>>
         \/ /\ att[a].stage = "gate" /\ LeavesLine(a, c)
            /\ att' = [att EXCEPT ![a] = Off] /\ UNCHANGED running
         \/ /\ att[a].stage \in {"ready", "woken"} /\ UNCHANGED running
            /\ IF HasRoom(c)
                 THEN att' = [Woken(att, c) EXCEPT ![a] = Off] /\ Wakes(c)
                 ELSE att' = [att EXCEPT ![a] = Off] /\ UNCHANGED waiters
      /\ UNCHANGED <<phase, todo, limit, file>>

\* A duplicate that fails, in any way, is over.
DuplicateFails(k) ==
  LET a == Duplicate(k)
  IN  /\ Failing(a) /\ GivesSlotBack(a, Off) /\ Forgets(a)
      /\ UNCHANGED <<runVars, todo, limit, file>>

\* shrinkAfterOverflow, halveFrom; the chunk then runs again at once, unless its
\* duplicate has won meanwhile.  Mutants: the limit of now is halved, with no
\* floor; it stays; the chunk does not run again.
HalvedAgain(k) == limit[last[k]] \div 2
HalvedNever(k) == att[Original(k)].seen
Halved(k) == LET half == att[Original(k)].seen \div 2
             IN  IF half > 1 THEN half ELSE 1
RunsAgainNever(k) == FALSE
RunsAgain(k) == winner[k] = Nobody
Requeues(k) ==
  LET a == Original(k)
  IN  /\ att[a].stage = "full"
      /\ limit' = [limit EXCEPT ![last[k]] = IF Halved(k) < @ THEN Halved(k) ELSE @]
      /\ IF RunsAgain(k)
           THEN /\ \E usable \in SUBSET Conns :
                     \E new \in Onward(k, Fresh(usable), limit') :
                       att' = [att EXCEPT ![a] = new] /\ OnConnection(k, new)
                /\ UNCHANGED <<aborted, failed, tried, winner>>
           ELSE Quits(a)
      /\ UNCHANGED <<phase, todo, running, waiters, file>>

\* Every connection failed: the duplicate is heard out, then line by line.  The
\* lines end with all of them, with some or none, or in an error after three that
\* failed on end.  An abort is such an error; a cancel is one more line that
\* failed, and a short chunk ends without an error.
Hears(k) ==
  LET a == Original(k)
  IN  /\ att[a].stage = "hear" /\ DuplicateIsOver(k)
      /\ IF winner[k] # Nobody THEN Quits(a)
         ELSE /\ \E st \in IF aborted THEN {"part", "lost"} ELSE {"claim", "part", "lost"} :
                   att' = [att EXCEPT ![a].stage = st]
              /\ UNCHANGED <<aborted, failed, record>>
      /\ UNCHANGED <<phase, todo, gateVars, file>>

\* claimWin.  Mutant: a later claim wins too.
MayAlwaysWin(k) == TRUE
MayWin(k) == winner[k] = Nobody
HasAnswer(a) == \/ att[a].stage = "claim"
                \/ att[a].stage = "part" /\ DuplicateIsOver(a[1])
Lines(a) == IF att[a].stage = "claim" THEN "whole" ELSE "part"

\* The write: the chunks translated so far are saved, best effort, or the
\* callback that records the progress throws.  Mutant: the file is replaced by
\* what is new since it was last written.
ProgressSince(new) == {k \in Chunks : new[k] = "whole" /\ k \notin saved}
Progress(new) == {k \in Chunks : new[k] = "whole"}
Wins(a) == winner' = [winner EXCEPT ![a[1]] = a[2]] /\ UNCHANGED <<last, tried>>
Writes(a) ==
  /\ text' = [text EXCEPT ![a[1]] = Lines(a)]
  /\ att' = [att EXCEPT ![a] = Off, ![Other(a)].ended = Racing(Other(a))]
  /\ \/ /\ saved' \in {Progress(text')} \cup (IF "faults" \in Features
                                                THEN {saved} ELSE {})
        /\ UNCHANGED <<aborted, failed>>
        /\ IF Racing(Other(a)) THEN Wins(a) ELSE Forgets(a)
     \/ /\ aborted \/ "faults" \in Features
        /\ Throws /\ Wins(a) /\ UNCHANGED saved
Claims(a) ==
  /\ HasAnswer(a)
  /\ IF MayWin(a[1]) THEN Writes(a) ELSE Quits(a) /\ UNCHANGED <<text, saved>>
  /\ UNCHANGED <<phase, todo, gateVars, output>>

\* runOriginal, the catch: the duplicate can still save the chunk, and ends this
\* attempt as it does.  Mutant: it is not waited for.
IsLostAtOnce(k) == TRUE
IsLost(k) == DuplicateIsOver(k)
Loses(k) ==
  LET a == Original(k)
      fails == att' = [att EXCEPT ![a] = Off] /\ Throws /\ UNCHANGED record
  IN  /\ att[a].stage = "lost"
      /\ \/ aborted /\ fails
         \/ ~aborted /\ att[a].ended /\ Quits(a)
         \/ ~aborted /\ ~att[a].ended /\ IsLost(k) /\ fails
      /\ UNCHANGED <<phase, todo, gateVars, file>>

-----------------------------------------------------------------------------
(* The user, and the process.                                              *)

Stop ==
  /\ "stop" \in Features /\ phase \in {"work", "sweep"} /\ ~aborted
  /\ aborted' = TRUE
  /\ UNCHANGED <<phase, failed, todo, att, record, gateVars, file>>
Crash == "crash" \in Features /\ phase \in {"work", "sweep"} /\ GivesUp

-----------------------------------------------------------------------------
AttemptStep(a) ==
  \/ TakesSlot(a) \/ CallAnswers(a) \/ Stops(a) \/ Claims(a)
  \/ IF a[2] = "duplicate" THEN DuplicateFails(a[1])
     ELSE \/ CallFails(a[1]) \/ Overflows(a[1]) \/ Requeues(a[1])
          \/ Hears(a[1]) \/ Loses(a[1])
Runs == Picks \/ WorkersEnd \/ Finishes \/ \E a \in Attempts : AttemptStep(a)
Next == Start \/ Runs \/ SendsDuplicate \/ Stop \/ Crash

Spec == Init /\ [][Next]_vars

\* The event loop goes on, and every call and probe has a timeout; which of the
\* steps that can be taken comes next is not assumed.
Fairness == WF_vars(Runs)
FairSpec == Spec /\ Fairness

-----------------------------------------------------------------------------
(* Properties.                                                             *)

\* The shape of every variable.
AttemptStates == [stage : Stages, conn : Conns \cup {NoConn},
                  left : SUBSET Conns, crowded : BOOLEAN, seen : Nat,
                  ended : BOOLEAN]
RaceOK == /\ att \in [Attempts -> AttemptStates]
          /\ last \in [Chunks -> Conns \cup {NoConn}]
          /\ tried \in [Chunks -> SUBSET Conns]
          /\ winner \in [Chunks -> Kinds \cup {Nobody}]
GatesOK == /\ limit \in [Conns -> Nat] /\ running \in [Conns -> Nat]
           /\ waiters \in [Conns -> Seq(Attempts)]
           /\ \A c \in Conns : limit[c] \in 1 .. Limit[c]
FileOK == /\ phase \in {"off", "work", "sweep", "done"} /\ todo \subseteq Chunks
          /\ aborted \in BOOLEAN /\ failed \in BOOLEAN
          /\ text \in [Chunks -> {"none", "part", "whole"}]
          /\ saved \subseteq Chunks /\ output \in BOOLEAN
TypeOK == RaceOK /\ GatesOK /\ FileOK

\* A gate counts the calls at its server, and nobody sleeps in its line while
\* there is room: a slot that a shrinking limit, an abort or a lost race gives
\* back wakes the next in line, or somebody who will (concurrency-gate.ts).
Calling(c) == {a \in Attempts : att[a].stage = "call" /\ att[a].conn = c}
Waking(c) == {a \in Attempts : att[a].stage = "woken" /\ att[a].conn = c}
GateCountsCalls ==
  \A c \in Conns :
    /\ running[c] = Cardinality(Calling(c))
    /\ waiters[c] # <<>> /\ HasRoom(c) => Waking(c) # {}

\* The two attempts at a chunk never ask one connection for it, not even from the
\* line of its gate ("must not send a second request to its
\* duplicate's host", split-file.test.ts).
NeverTwiceOnOne ==
  \A k \in Chunks :
    LET o == att[Original(k)]
        d == att[Duplicate(k)]
    IN  Racing(Duplicate(k)) /\ o.stage \in {"ready", "gate", "woken", "call"}
          => o.conn # d.conn

\* A chunk is written once in a run, and some of its lines only when no
\* duplicate is left that could answer all of them (engine.ts, "The first
\* complete answer wins").
WrittenOnce ==
  [][phase = "work" /\ phase' = "work" =>
       \A k \in Chunks : text'[k] # text[k] =>
         /\ text[k] = "none"
         /\ text'[k] = "part" => DuplicateIsOver(k)]_vars

\* A job that nobody stopped fails only by a chunk that has no winner and no
\* duplicate left ("a duplicate can save a chunk whose original fails
\* outright", split-file.test.ts), or by a winner whose write threw.
FailsOnlyWhenLost ==
  [][~aborted /\ failed' =>
       \E k \in Chunks :
         \/ winner[k] = Nobody /\ winner'[k] # Nobody
         \/ /\ winner[k] = Nobody /\ DuplicateIsOver(k)
            /\ Racing(Original(k)) /\ ~Racing(Original(k))']_vars

\* An output is put in place only with every chunk written, and what was saved
\* of a run stays saved until then, also over the runs that resume it
\* ("continue from their finished chunks", HANDOFF.md).
OutputIsComplete ==
  [][/\ ~output /\ output' => \A k \in Chunks : text[k] # "none"
     /\ phase = "work" => saved \subseteq saved']_vars

\* Every run of the file comes to an end: no worker waits forever for a slot, a
\* duplicate or a chunk, and no chunk overflows forever.
FileEnds == phase = "work" ~> phase \in {"off", "done"}
=============================================================================
