-------------------------- MODULE SplitFileProofs --------------------------
(***************************************************************************)
(* For any number of chunks, any connections and limits: each server's     *)
(* gate counts the calls at it and loses no wake-up, two attempts never    *)
(* ask one connection, a chunk is written once, a chunk that can be saved  *)
(* fails no file, and an output is complete.                               *)
(* The types come first.  The gates' invariant and the race's are proved   *)
(* apart; both look at a step as the change of one attempt.                *)
(***************************************************************************)
EXTENDS SplitFile, FiniteSetTheorems, SequenceTheorems, WellFoundedInduction, TLAPS

-----------------------------------------------------------------------------
(* States of an attempt.                                                   *)

LEMMA AttemptPairs ==
  /\ \A k \in Chunks : Original(k) \in Attempts /\ Duplicate(k) \in Attempts
  /\ \A a \in Attempts : /\ a[1] \in Chunks /\ Other(a) \in Attempts
                         /\ Other(a) # a /\ Other(Other(a)) = a
                         /\ a \in {Original(a[1]), Duplicate(a[1])}
                         /\ Other(a)[1] = a[1]
  /\ \A k \in Chunks : /\ Other(Original(k)) = Duplicate(k)
                       /\ Other(Duplicate(k)) = Original(k)
                       /\ Original(k) # Duplicate(k)
                       /\ Original(k)[1] = k /\ Duplicate(k)[1] = k
                       /\ Original(k)[2] = "original"
                       /\ Duplicate(k)[2] = "duplicate"
BY DEF Attempts, Kinds, Original, Duplicate, Other

LEMMA OffState == Off \in AttemptStates /\ Off.stage = "off" /\ ~Off.ended
BY DEF Off, AttemptStates, Stages

LEMMA FreshState ==
  ASSUME NEW usable \in SUBSET Conns
  PROVE  Fresh(usable) \in AttemptStates /\ ~Fresh(usable).ended
BY OffState DEF Fresh, Off, AttemptStates, Stages

LEMMA AnsweredState ==
  ASSUME NEW x \in AttemptStates
  PROVE  /\ Answered(x) \in AttemptStates /\ Answered(x).stage = "claim"
         /\ Answered(x).ended = x.ended /\ Answered(x).conn = x.conn
BY DEF Answered, Off, AttemptStates, Stages

\* Where a cascade goes on: another connection than the duplicate's, or none.
LEMMA OnwardState ==
  ASSUME NEW k, NEW x \in AttemptStates, NEW limits \in [Conns -> Nat],
         NEW new \in Onward(k, x, limits)
  PROVE  /\ new \in AttemptStates /\ new.ended = x.ended
         /\ new.stage \in {"hear", "ready"}
         /\ new.stage = "ready" => /\ new.conn \in Conns
                                   /\ new.conn # att[Duplicate(k)].conn
<1>1. CASE Tries(k, x) = {}
  <2>1. new = [Off EXCEPT !.stage = "hear", !.ended = x.ended]
    BY <1>1 DEF Onward
  <2>2. x.ended \in BOOLEAN
    BY DEF AttemptStates
  <2>3. new = [stage |-> "hear", conn |-> NoConn, left |-> {},
               crowded |-> FALSE, seen |-> 0, ended |-> x.ended]
    BY <2>1 DEF Off
  <2> QED
    BY <2>2, <2>3 DEF AttemptStates, Stages
<1>2. CASE Tries(k, x) # {}
  <2>1. PICK c \in Tries(k, x) :
          new = [x EXCEPT !.stage = "ready", !.conn = c, !.left = @ \ {c},
                          !.crowded = FALSE, !.seen = limits[c]]
    BY <1>2 DEF Onward
  <2>2. c \in Conns /\ c # att[Duplicate(k)].conn
    BY DEF Tries, AttemptStates
  <2>3. limits[c] \in Nat /\ x.left \ {c} \in SUBSET Conns
    BY <2>2 DEF AttemptStates
  <2> QED
    BY <2>1, <2>2, <2>3 DEF AttemptStates, Stages
<1> QED
  BY <1>1, <1>2

-----------------------------------------------------------------------------
(* A slot given back, and who is woken.                                    *)

LEMMA LineHeads ==
  ASSUME GatesOK, NEW c \in Conns
  PROVE  /\ NextInLine(c) \subseteq Attempts
         /\ waiters[c] = <<>> => NextInLine(c) = {}
         /\ waiters[c] # <<>> => /\ NextInLine(c) = {waiters[c][1]}
                                 /\ waiters[c][1] \in Attempts
                                 /\ Tail(waiters[c]) \in Seq(Attempts)
<1>1. waiters[c] \in Seq(Attempts)
  BY DEF GatesOK
<1>2. waiters[c] # <<>> => /\ Head(waiters[c]) = waiters[c][1]
                           /\ Head(waiters[c]) \in Attempts
                           /\ Tail(waiters[c]) \in Seq(Attempts)
  BY <1>1, HeadTailProperties
<1> QED
  BY <1>2 DEF NextInLine

\* Wakes takes the head out of the line.
LEMMA WakesLine ==
  ASSUME GatesOK, NEW c \in Conns, Wakes(c)
  PROVE  /\ waiters' \in [Conns -> Seq(Attempts)]
         /\ waiters'[c] = IF waiters[c] = <<>> THEN <<>> ELSE Tail(waiters[c])
         /\ \A d \in Conns \ {c} : waiters'[d] = waiters[d]
BY LineHeads DEF Wakes, GatesOK

LEMMA WokenStates ==
  ASSUME RaceOK, GatesOK, NEW c \in Conns
  PROVE  /\ Woken(att, c) \in [Attempts -> AttemptStates]
         /\ \A b \in Attempts :
              Woken(att, c)[b] = IF b \in NextInLine(c)
                                 THEN [att[b] EXCEPT !.stage = "woken"] ELSE att[b]
<1>1. \A b \in Attempts : [att[b] EXCEPT !.stage = "woken"] \in AttemptStates
  BY DEF RaceOK, AttemptStates, Stages
<1> QED
  BY <1>1 DEF Woken, RaceOK

LEMMA ReleasesState ==
  ASSUME RaceOK, GatesOK, NEW a \in Attempts, att[a].conn \in Conns,
         NEW new \in AttemptStates, Releases(a, new)
  PROVE  LET c == att[a].conn IN
         /\ att' \in [Attempts -> AttemptStates] /\ att'[a] = new
         /\ \A b \in Attempts \ {a} :
              att'[b] = IF b \in NextInLine(c)
                        THEN [att[b] EXCEPT !.stage = "woken"] ELSE att[b]
         /\ running'[c] = running[c] - 1
         /\ \A d \in Conns \ {c} : running'[d] = running[d]
         /\ running' = [running EXCEPT ![c] = @ - 1] /\ Wakes(c)
<1> DEFINE c == att[a].conn
<1>1. /\ running' = [running EXCEPT ![c] = @ - 1]
      /\ att' = [Woken(att, c) EXCEPT ![a] = new] /\ Wakes(c)
  BY DEF Releases
<1>2. running \in [Conns -> Nat]
  BY DEF GatesOK
<1> QED
  BY <1>1, <1>2, WokenStates

-----------------------------------------------------------------------------
(* The gates.                                                              *)

Asks == {"ready", "gate", "woken", "call"}
AtGate == {"gate", "woken", "call"}

\* Who asks, asks a connection.
AskersHaveOne == \A a \in Attempts : att[a].stage \in Asks => att[a].conn \in Conns

\* A line holds attempts that wait in it, each once.
LinesAreWaiters ==
  \A c \in Conns : \A i \in 1 .. Len(waiters[c]) :
    /\ att[waiters[c][i]].stage = "gate" /\ att[waiters[c][i]].conn = c
    /\ \A j \in 1 .. Len(waiters[c]) : waiters[c][j] = waiters[c][i] => j = i

\* Calls are counted.
CallsAreCounted == \A c \in Conns : running[c] = Cardinality(Calling(c))

\* While somebody waits, every slot is taken, or somebody is woken for it.
SlotsAreSpokenFor ==
  \A c \in Conns : waiters[c] # <<>> =>
    running[c] + Cardinality(Waking(c)) >= limit[c]

GateInv == /\ RaceOK /\ GatesOK /\ AskersHaveOne /\ LinesAreWaiters
           /\ CallsAreCounted /\ SlotsAreSpokenFor

LEMMA AttemptsFinite ==
  /\ IsFiniteSet(Attempts)
  /\ \A c : /\ IsFiniteSet(Calling(c)) /\ Cardinality(Calling(c)) \in Nat
            /\ IsFiniteSet(Waking(c)) /\ Cardinality(Waking(c)) \in Nat
<1>1. IsFiniteSet(Chunks)
  BY SplitAssumption, FS_Interval DEF Chunks
<1>2. Kinds = {"original"} \cup {"duplicate"}
  BY DEF Kinds
<1>3. IsFiniteSet(Kinds)
  BY <1>2, FS_Singleton, FS_AddElement
<1>4. IsFiniteSet(Attempts)
  BY <1>1, <1>3, FS_Product DEF Attempts
<1>5. \A c : Calling(c) \subseteq Attempts /\ Waking(c) \subseteq Attempts
  BY DEF Calling, Waking
<1> QED
  BY <1>4, <1>5, FS_Subset, FS_CardinalityType

\* GateCountsCalls says what the code promises of a gate.
LEMMA GatesImply ==
  ASSUME GateInv
  PROVE  GateCountsCalls
<1> SUFFICES ASSUME NEW c \in Conns
             PROVE  /\ running[c] = Cardinality(Calling(c))
                    /\ waiters[c] # <<>> /\ HasRoom(c) => Waking(c) # {}
  BY DEF GateCountsCalls
<1>1. running[c] = Cardinality(Calling(c))
  BY DEF GateInv, CallsAreCounted
<1>2. ASSUME waiters[c] # <<>>, HasRoom(c), Waking(c) = {}
      PROVE  FALSE
  <2>1. running[c] + 0 >= limit[c]
    BY <1>2, FS_EmptySet DEF GateInv, SlotsAreSpokenFor
  <2>2. running[c] \in Nat /\ limit[c] \in Nat
    BY DEF GateInv, GatesOK
  <2> QED
    BY <1>2, <2>1, <2>2 DEF HasRoom
<1> QED
  BY <1>1, <1>2

\* A step that leaves an attempt where it is at a gate.
Steady(b) ==
  /\ \A s \in AtGate : att'[b].stage = s <=> att[b].stage = s
  /\ att[b].stage \in AtGate => att'[b].conn = att[b].conn

LEMMA SteadySets ==
  ASSUME NEW S \in SUBSET Attempts, NEW c, \A b \in Attempts \ S : Steady(b)
  PROVE  /\ Calling(c)' \ S = Calling(c) \ S /\ Waking(c)' \ S = Waking(c) \ S
         /\ \A b \in Attempts \ S :
              att[b].stage = "gate" => /\ att'[b].stage = "gate"
                                       /\ att'[b].conn = att[b].conn
BY DEF Steady, AtGate, Calling, Waking

\* Nothing happens at the gates, but that a limit may shrink.
LEMMA QuietGates ==
  ASSUME GateInv, RaceOK', AskersHaveOne', UNCHANGED <<running, waiters>>,
         limit' \in [Conns -> Nat], \A c \in Conns : limit'[c] \in 1 .. limit[c],
         \A b \in Attempts : Steady(b)
  PROVE  GateInv'
<1> USE DEF GateInv
<1>1. GatesOK'
  BY SplitAssumption DEF GatesOK
<1>2. \A c : Calling(c)' = Calling(c) /\ Waking(c)' = Waking(c)
  BY DEF Steady, AtGate, Calling, Waking
<1>3. LinesAreWaiters'
  <2>1. \A c \in Conns : \A i \in 1 .. Len(waiters[c]) : waiters[c][i] \in Attempts
    BY DEF GatesOK
  <2> QED
    BY <2>1 DEF LinesAreWaiters, Steady, AtGate
<1>4. CallsAreCounted'
  BY <1>2 DEF CallsAreCounted
<1>5. SlotsAreSpokenFor'
  <2> SUFFICES ASSUME NEW c \in Conns, waiters[c] # <<>>
               PROVE  running[c] + Cardinality(Waking(c)) >= limit'[c]
    BY <1>2 DEF SlotsAreSpokenFor
  <2>1. running[c] + Cardinality(Waking(c)) >= limit[c]
    BY DEF SlotsAreSpokenFor
  <2>2. running[c] \in Nat /\ limit[c] \in Nat /\ limit'[c] \in 1 .. limit[c]
    BY DEF GatesOK
  <2> QED
    BY <2>1, <2>2, AttemptsFinite
<1> QED
  BY <1>1, <1>3, <1>4, <1>5

\* Somebody leaves the gate of c, and the first in its line is woken.
LEMMA LineMoves ==
  ASSUME GateInv, NEW a \in Attempts, NEW c \in Conns, att[a].conn = c,
         att[a].stage # "gate", att'[a].stage \notin AtGate, Wakes(c),
         \A b \in Attempts \ {a} :
           IF b \in NextInLine(c)
           THEN att'[b].stage = "woken" /\ att'[b].conn = att[b].conn
           ELSE att'[b].stage = att[b].stage /\ att'[b].conn = att[b].conn
  PROVE  /\ LinesAreWaiters'
         /\ \A d \in Conns : Calling(d)' = Calling(d) \ {a}
         /\ \A d \in Conns \ {c} : Waking(d)' = Waking(d)
         /\ Waking(c)' = (Waking(c) \ {a}) \cup NextInLine(c)
         /\ NextInLine(c) \cap Waking(c) = {}
<1> USE DEF GateInv
<1>1. \A d \in Conns : \A i \in 1 .. Len(waiters[d]) : waiters[d][i] \in Attempts
  BY DEF GatesOK
<1>2. \A b \in NextInLine(c) : /\ b \in Attempts /\ b # a /\ waiters[c] # <<>>
                               /\ b = waiters[c][1]
                               /\ att[b].stage = "gate" /\ att[b].conn = c
  <2> SUFFICES ASSUME NEW b \in NextInLine(c)
               PROVE  /\ b \in Attempts /\ b # a /\ waiters[c] # <<>>
                      /\ b = waiters[c][1]
                      /\ att[b].stage = "gate" /\ att[b].conn = c
    OBVIOUS
  <2>1. waiters[c] # <<>> /\ b = waiters[c][1] /\ b \in Attempts
    BY LineHeads
  <2>2. 1 \in 1 .. Len(waiters[c])
    BY <2>1, EmptySeq DEF GatesOK
  <2> QED
    BY <2>1, <2>2 DEF LinesAreWaiters
<1>3. ASSUME NEW d \in Conns, NEW i \in 1 .. Len(waiters'[d])
      PROVE  /\ att'[waiters'[d][i]].stage = "gate" /\ att'[waiters'[d][i]].conn = d
             /\ \A j \in 1 .. Len(waiters'[d]) :
                  waiters'[d][j] = waiters'[d][i] => j = i
  <2>1. CASE d # c
    <3>1. waiters'[d] = waiters[d]
      BY <2>1, WakesLine
    <3>2. att[waiters[d][i]].stage = "gate" /\ att[waiters[d][i]].conn = d
      BY <3>1, <1>3 DEF LinesAreWaiters
    <3>3. waiters[d][i] \in Attempts \ {a} /\ waiters[d][i] \notin NextInLine(c)
      BY <3>1, <3>2, <1>1, <1>2, <1>3, <2>1
    <3> QED
      BY <3>1, <3>2, <3>3, <1>3 DEF LinesAreWaiters
  <2>2. CASE d = c
    <3>1. waiters[c] # <<>> /\ waiters'[c] = Tail(waiters[c])
      BY <2>2, <1>3, WakesLine
    <3>2. /\ Len(waiters'[c]) = Len(waiters[c]) - 1 /\ Len(waiters[c]) \in Nat
          /\ \A j \in 1 .. Len(waiters'[c]) : waiters'[c][j] = waiters[c][j + 1]
      BY <3>1, HeadTailProperties DEF GatesOK
    <3>3. /\ i \in 1 .. Len(waiters'[c]) /\ i + 1 \in 1 .. Len(waiters[c])
          /\ 1 \in 1 .. Len(waiters[c]) /\ i + 1 # 1
      BY <2>2, <1>3, <3>2
    <3>4. /\ att[waiters[c][i + 1]].stage = "gate" /\ att[waiters[c][i + 1]].conn = c
          /\ waiters[c][i + 1] # waiters[c][1]
      BY <3>3 DEF LinesAreWaiters
    <3>5. waiters[c][i + 1] \in Attempts \ {a} /\ waiters[c][i + 1] \notin NextInLine(c)
      BY <3>3, <3>4, <1>1, <1>2
    <3>6. /\ att'[waiters'[c][i]].stage = "gate" /\ att'[waiters'[c][i]].conn = c
      BY <3>2, <3>3, <3>4, <3>5
    <3>7. ASSUME NEW j \in 1 .. Len(waiters'[c]), waiters'[c][j] = waiters'[c][i]
          PROVE  j = i
      <4>1. j + 1 \in 1 .. Len(waiters[c]) /\ waiters[c][j + 1] = waiters[c][i + 1]
        BY <3>7, <3>2, <3>3
      <4>2. j + 1 = i + 1
        BY <4>1, <3>3 DEF LinesAreWaiters
      <4> QED
        BY <4>2, <3>3
    <3> QED
      BY <2>2, <3>6, <3>7
  <2> QED
    BY <2>1, <2>2
<1>4. LinesAreWaiters'
  BY <1>3 DEF LinesAreWaiters
<1>5. \A d \in Conns : Calling(d)' = Calling(d) \ {a}
  BY <1>2 DEF Calling, AtGate
<1>6. \A d \in Conns \ {c} : Waking(d)' = Waking(d)
  BY <1>2 DEF Waking, AtGate
<1>7. Waking(c)' = (Waking(c) \ {a}) \cup NextInLine(c)
  BY <1>2 DEF Waking, AtGate
<1>8. NextInLine(c) \cap Waking(c) = {}
  BY <1>2 DEF Waking
<1> QED
  BY <1>4, <1>5, <1>6, <1>7, <1>8

\* A call ends, and gives its slot back.
LEMMA ReleaseGates ==
  ASSUME GateInv, NEW a \in Attempts, att[a].stage = "call",
         NEW new \in AttemptStates, new.stage \notin AtGate, Releases(a, new),
         RaceOK', AskersHaveOne', UNCHANGED limit
  PROVE  GateInv'
<1> USE DEF GateInv
<1>1. PICK c \in Conns : att[a].conn = c
  BY DEF AskersHaveOne, Asks
<1>2. /\ att'[a] = new /\ Wakes(c)
      /\ \A b \in Attempts \ {a} :
           att'[b] = IF b \in NextInLine(c)
                     THEN [att[b] EXCEPT !.stage = "woken"] ELSE att[b]
      /\ running'[c] = running[c] - 1
      /\ \A d \in Conns \ {c} : running'[d] = running[d]
      /\ running' = [running EXCEPT ![c] = @ - 1]
  BY <1>1, ReleasesState
<1>3. \A b \in Attempts \ {a} :
        IF b \in NextInLine(c)
        THEN att'[b].stage = "woken" /\ att'[b].conn = att[b].conn
        ELSE att'[b].stage = att[b].stage /\ att'[b].conn = att[b].conn
  BY <1>2 DEF RaceOK, AttemptStates
<1>4. /\ LinesAreWaiters'
      /\ \A d \in Conns : Calling(d)' = Calling(d) \ {a}
      /\ \A d \in Conns \ {c} : Waking(d)' = Waking(d)
      /\ Waking(c)' = (Waking(c) \ {a}) \cup NextInLine(c)
      /\ NextInLine(c) \cap Waking(c) = {}
  BY <1>1, <1>2, <1>3, LineMoves
<1>5. a \in Calling(c) /\ a \notin Waking(c)
      /\ \A d \in Conns \ {c} : a \notin Calling(d)
  BY <1>1 DEF Calling, Waking
<1>6. running \in [Conns -> Nat] /\ limit \in [Conns -> Nat]
  BY DEF GatesOK
<1>7. Cardinality(Calling(c)) > 0
  BY <1>5, AttemptsFinite, FS_EmptySet
<1>8. running'[c] \in Nat /\ running' \in [Conns -> Nat]
  BY <1>1, <1>2, <1>6, <1>7 DEF CallsAreCounted
<1>9. GatesOK'
  BY <1>1, <1>2, <1>8, WakesLine DEF GatesOK
<1>10. CallsAreCounted'
  <2>1. Cardinality(Calling(c)') = Cardinality(Calling(c)) - 1
    BY <1>1, <1>4, <1>5, AttemptsFinite, FS_RemoveElement
  <2>2. \A d \in Conns \ {c} : Calling(d)' = Calling(d)
    BY <1>4, <1>5
  <2> QED
    BY <1>2, <2>1, <2>2 DEF CallsAreCounted
<1>11. SlotsAreSpokenFor'
  <2> SUFFICES ASSUME NEW d \in Conns, waiters'[d] # <<>>
               PROVE  running'[d] + Cardinality(Waking(d)') >= limit[d]
    BY DEF SlotsAreSpokenFor
  <2>1. CASE d # c
    BY <2>1, <1>2, <1>4, WakesLine, <1>1 DEF SlotsAreSpokenFor
  <2>2. CASE d = c
    <3>1. waiters[c] # <<>>
      BY <2>2, <1>1, <1>2, WakesLine
    <3>2. PICK h : NextInLine(c) = {h} /\ h \notin Waking(c)
      BY <3>1, <1>1, <1>4, LineHeads
    <3>3. Waking(c)' = Waking(c) \cup {h}
      BY <1>4, <1>5, <3>2
    <3>4. Cardinality(Waking(c)') = Cardinality(Waking(c)) + 1
      BY <3>2, <3>3, AttemptsFinite, FS_AddElement
    <3>5. running[c] + Cardinality(Waking(c)) >= limit[c]
      BY <3>1, <1>1 DEF SlotsAreSpokenFor
    <3>6. running[c] \in Nat /\ limit[c] \in Nat /\ Cardinality(Waking(c)) \in Nat
      BY <1>1, <1>6, AttemptsFinite
    <3> QED
      BY <2>2, <3>4, <3>5, <3>6, <1>2
  <2> QED
    BY <2>1, <2>2
<1> QED
  BY <1>4, <1>9, <1>10, <1>11

\* Who is woken, waited in that line.
LEMMA WokenWereInLine ==
  ASSUME GatesOK, LinesAreWaiters, NEW c \in Conns, NEW b \in NextInLine(c)
  PROVE  att[b].stage = "gate" /\ att[b].conn = c
<1>1. waiters[c] # <<>> /\ b = waiters[c][1]
  BY LineHeads
<1>2. 1 \in 1 .. Len(waiters[c])
  BY <1>1, EmptySeq DEF GatesOK
<1> QED
  BY <1>1, <1>2 DEF LinesAreWaiters

\* The same, where what the release leaves is known to fit.
LEMMA ReleaseFits ==
  ASSUME GateInv, NEW a \in Attempts, att[a].stage = "call",
         NEW new \in AttemptStates, new.stage \notin AtGate,
         new.stage = "ready" => new.conn \in Conns, Releases(a, new),
         last' \in [Chunks -> Conns \cup {NoConn}],
         tried' \in [Chunks -> SUBSET Conns],
         winner' \in [Chunks -> Kinds \cup {Nobody}], UNCHANGED limit
  PROVE  GateInv'
<1>1. RaceOK /\ GatesOK /\ AskersHaveOne /\ LinesAreWaiters
  BY DEF GateInv
<1>2. PICK c \in Conns : att[a].conn = c
  BY <1>1 DEF AskersHaveOne, Asks
<1>3. /\ att' \in [Attempts -> AttemptStates] /\ att'[a] = new
      /\ \A b \in Attempts \ {a} :
           att'[b] = IF b \in NextInLine(c)
                     THEN [att[b] EXCEPT !.stage = "woken"] ELSE att[b]
  BY <1>1, <1>2, ReleasesState
<1>4. RaceOK'
  BY <1>3 DEF RaceOK
<1>5. \A b \in NextInLine(c) : att[b].conn = c
  BY <1>1, WokenWereInLine
<1>6. \A b \in Attempts \ {a} : /\ att'[b].conn = att[b].conn
                                /\ b \notin NextInLine(c) => att'[b].stage = att[b].stage
  BY <1>1, <1>3 DEF RaceOK, AttemptStates
<1>7. AskersHaveOne'
  BY <1>1, <1>3, <1>5, <1>6 DEF AskersHaveOne, Asks, AtGate
<1> QED
  BY <1>4, <1>7, ReleaseGates

\* An attempt with a connection takes a slot of its gate, or a place in line.
LEMMA TakesGates ==
  ASSUME GateInv, NEW a \in Attempts, TakesSlot(a)
  PROVE  GateInv'
<1> USE DEF GateInv
<1>1. PICK c \in Conns : att[a].conn = c
  BY DEF AskersHaveOne, Asks, TakesSlot
<1>2. /\ att[a].stage \in {"ready", "woken"}
      /\ UNCHANGED <<last, tried, winner, limit>>
  BY DEF TakesSlot, OnlyAttempts
<1>3. running \in [Conns -> Nat] /\ limit \in [Conns -> Nat]
      /\ waiters \in [Conns -> Seq(Attempts)]
  BY DEF GatesOK
<1>4. \A d \in Conns : \A i \in 1 .. Len(waiters[d]) :
        waiters[d][i] \in Attempts /\ waiters[d][i] # a
  BY <1>2, <1>3 DEF LinesAreWaiters
<1>5. \A d \in Conns \ {c} : a \notin Calling(d) /\ a \notin Waking(d)
  BY <1>1 DEF Calling, Waking
<1>6. a \notin Calling(c)
  BY <1>2 DEF Calling
<1>7. CASE HasRoom(c)
  <2>1. PICK m \in BOOLEAN :
          /\ running' = [running EXCEPT ![c] = @ + 1] /\ waiters' = waiters
          /\ att' = [att EXCEPT ![a].stage = "call", ![a].crowded = m]
    BY <1>1, <1>7 DEF TakesSlot
  <2>2. DEFINE new == [att[a] EXCEPT !.stage = "call", !.crowded = m]
  <2>3. /\ att'[a] = new /\ \A b \in Attempts \ {a} : att'[b] = att[b]
        /\ att' = [att EXCEPT ![a] = new]
    BY <2>1 DEF RaceOK
  <2>4. new \in AttemptStates /\ new.stage = "call" /\ new.conn = att[a].conn
    BY DEF RaceOK, AttemptStates, Stages
  <2>5. /\ att' \in [Attempts -> AttemptStates]
        /\ att'[a].stage = "call" /\ att'[a].conn = c
    BY <2>3, <2>4, <1>1 DEF RaceOK
  <2>6. RaceOK' /\ AskersHaveOne'
    BY <1>1, <1>2, <2>3, <2>5 DEF RaceOK, AskersHaveOne
  <2>7. GatesOK'
    BY <1>2, <1>3, <2>1 DEF GatesOK
  <2>8. LinesAreWaiters'
    <3> HIDE DEF new
    <3>0. waiters' = waiters
      BY <2>1
    <3> SUFFICES ASSUME NEW d \in Conns, NEW i \in 1 .. Len(waiters[d])
                 PROVE  /\ att'[waiters[d][i]].stage = "gate"
                        /\ att'[waiters[d][i]].conn = d
                        /\ \A j \in 1 .. Len(waiters[d]) :
                             waiters[d][j] = waiters[d][i] => j = i
      BY <3>0 DEF LinesAreWaiters
    <3>1. att'[waiters[d][i]] = att[waiters[d][i]]
      BY <2>3, <1>4
    <3> QED
      BY <3>1 DEF LinesAreWaiters
  <2>9. /\ Calling(c)' = Calling(c) \cup {a} /\ Waking(c)' = Waking(c) \ {a}
        /\ \A d \in Conns \ {c} : Calling(d)' = Calling(d) /\ Waking(d)' = Waking(d)
    BY <2>3, <2>5, <1>5 DEF Calling, Waking
  <2>10. CallsAreCounted'
    <3>1. Cardinality(Calling(c)') = Cardinality(Calling(c)) + 1
      BY <2>9, <1>6, AttemptsFinite, FS_AddElement
    <3> QED
      BY <3>1, <2>1, <2>9, <1>3 DEF CallsAreCounted
  <2>11. SlotsAreSpokenFor'
    <3>0. IsFiniteSet(Waking(c)) /\ Cardinality(Waking(c)) \in Nat
      BY AttemptsFinite
    <3>1. /\ IsFiniteSet(Waking(c)')
          /\ Cardinality(Waking(c)') \in {Cardinality(Waking(c)),
                                          Cardinality(Waking(c)) - 1}
      BY <3>0, <2>9, FS_RemoveElement
    <3>2. /\ Cardinality(Waking(c)') \in Nat
          /\ running'[c] = running[c] + 1
      BY <3>1, <2>1, <1>3, FS_CardinalityType
    <3>3. running[c] \in Nat /\ limit[c] \in Nat
      BY <1>3
    <3>4. waiters[c] # <<>> => running'[c] + Cardinality(Waking(c)') >= limit[c]
      BY <3>0, <3>1, <3>2, <3>3 DEF SlotsAreSpokenFor
    <3> QED
      BY <3>4, <2>1, <2>9, <1>2, <1>3 DEF SlotsAreSpokenFor
  <2> QED
    BY <2>6, <2>7, <2>8, <2>10, <2>11
<1>8. CASE ~HasRoom(c)
  <2>1. /\ waiters' = [waiters EXCEPT ![c] = Append(@, a)] /\ running' = running
        /\ att' = [att EXCEPT ![a].stage = "gate"]
    BY <1>1, <1>8 DEF TakesSlot
  <2>2. PICK new : new = [att[a] EXCEPT !.stage = "gate"]
    OBVIOUS
  <2>3. new \in AttemptStates /\ new.stage = "gate" /\ new.conn = c
    BY <2>2, <1>1 DEF RaceOK, AttemptStates, Stages
  <2>4. att' = [att EXCEPT ![a] = new]
    BY <2>1, <2>2 DEF RaceOK
  <2>5. /\ att'[a] = new /\ att' \in [Attempts -> AttemptStates]
        /\ \A b \in Attempts \ {a} : att'[b] = att[b]
    BY <2>3, <2>4 DEF RaceOK
  <2>6. att'[a].stage = "gate" /\ att'[a].conn = c
    BY <2>5, <2>3
  <2>7. RaceOK' /\ AskersHaveOne'
    BY <1>1, <1>2, <2>5, <2>6 DEF RaceOK, AskersHaveOne
  <2>8. GatesOK'
    BY <1>2, <1>3, <2>1 DEF GatesOK
  <2>9. /\ Len(waiters[c]) \in Nat /\ Len(waiters'[c]) = Len(waiters[c]) + 1
        /\ waiters'[c][Len(waiters[c]) + 1] = a
        /\ \A i \in 1 .. Len(waiters[c]) : waiters'[c][i] = waiters[c][i]
        /\ \A d \in Conns \ {c} : waiters'[d] = waiters[d]
    BY <1>3, <2>1, AppendProperties
  <2>10. LinesAreWaiters'
    <3> SUFFICES ASSUME NEW d \in Conns, NEW i \in 1 .. Len(waiters'[d])
                 PROVE  /\ att'[waiters'[d][i]].stage = "gate"
                        /\ att'[waiters'[d][i]].conn = d
                        /\ \A j \in 1 .. Len(waiters'[d]) :
                             waiters'[d][j] = waiters'[d][i] => j = i
      BY DEF LinesAreWaiters
    <3>1. CASE d # c
      BY <3>1, <2>9, <2>5, <1>4 DEF LinesAreWaiters
    <3>2. CASE d = c
      <4>1. \A j \in 1 .. Len(waiters'[c]) :
              j \in 1 .. Len(waiters[c]) \/ j = Len(waiters[c]) + 1
        BY <2>9
      <4>2. CASE i = Len(waiters[c]) + 1
        BY <3>2, <4>1, <4>2, <2>6, <2>9, <1>4
      <4>3. CASE i \in 1 .. Len(waiters[c])
        <5>1. att[waiters[c][i]].stage = "gate" /\ att[waiters[c][i]].conn = c
              /\ \A j \in 1 .. Len(waiters[c]) : waiters[c][j] = waiters[c][i] => j = i
          BY <4>3 DEF LinesAreWaiters
        <5>2. waiters'[c][i] = waiters[c][i] /\ waiters[c][i] \in Attempts \ {a}
          BY <4>3, <2>9, <1>4
        <5> QED
          BY <3>2, <4>1, <5>1, <5>2, <2>5, <2>9
      <4> QED
        BY <3>2, <4>1, <4>2, <4>3
    <3> QED
      BY <3>1, <3>2
  <2>11. Calling(c)' = Calling(c)
    BY <2>5, <2>6, <1>6 DEF Calling
  <2>12. ASSUME NEW d \in Conns \ {c}
         PROVE  Calling(d)' = Calling(d) /\ Waking(d)' = Waking(d)
    BY <2>5, <2>6, <1>5 DEF Calling, Waking
  <2>13. Waking(c)' \subseteq Attempts
    BY DEF Waking
  <2>14. /\ Calling(c)' = Calling(c)
        /\ \A d \in Conns \ {c} : Calling(d)' = Calling(d) /\ Waking(d)' = Waking(d)
        /\ Waking(c)' \subseteq Attempts
    BY <2>11, <2>12, <2>13
  <2>15. CallsAreCounted'
    BY <2>1, <2>14 DEF CallsAreCounted
  <2>16. Cardinality(Waking(c)') \in Nat
    BY <2>13, AttemptsFinite, FS_Subset, FS_CardinalityType
  <2>17. SlotsAreSpokenFor'
    <3>1. running[c] >= limit[c] /\ running[c] \in Nat /\ limit[c] \in Nat
      BY <1>3, <1>8 DEF HasRoom
    <3>2. running[c] + Cardinality(Waking(c)') >= limit[c]
      BY <2>16, <3>1
    <3>3. ASSUME NEW d \in Conns, waiters'[d] # <<>>
          PROVE  running[d] + Cardinality(Waking(d)') >= limit[d]
      <4>1. CASE d = c
        BY <3>2, <4>1
      <4>2. CASE d # c
        BY <3>3, <4>2, <2>9, <2>14 DEF SlotsAreSpokenFor
      <4> QED
        BY <4>1, <4>2
    <3> QED
      BY <3>3, <2>1, <1>2 DEF SlotsAreSpokenFor
  <2> QED
    BY <2>7, <2>8, <2>10, <2>15, <2>17
<1> QED
  BY <1>7, <1>8

\* A step that changes one attempt, not from or to a call or a place in line,
\* and leaves the gates.
LEMMA QuietAttempt ==
  ASSUME GateInv, NEW a \in Attempts, NEW new \in AttemptStates,
         new.stage \notin AtGate, att[a].stage \notin AtGate,
         new.stage = "ready" => new.conn \in Conns,
         \A b \in Attempts : IF b = a THEN att'[b] = new
                             ELSE \E e \in BOOLEAN : att'[b] = [att[b] EXCEPT !.ended = e],
         att' \in [Attempts -> AttemptStates],
         last' \in [Chunks -> Conns \cup {NoConn}],
         tried' \in [Chunks -> SUBSET Conns],
         winner' \in [Chunks -> Kinds \cup {Nobody}],
         UNCHANGED <<running, waiters>>,
         limit' \in [Conns -> Nat], \A c \in Conns : limit'[c] \in 1 .. limit[c]
  PROVE  GateInv'
<1>1. RaceOK'
  BY DEF RaceOK
<1>2. \A b \in Attempts \ {a} : att'[b].stage = att[b].stage /\ att'[b].conn = att[b].conn
  BY DEF GateInv, RaceOK, AttemptStates
<1>3. AskersHaveOne'
  BY <1>2 DEF GateInv, AskersHaveOne, Asks, AtGate
<1>4. \A b \in Attempts : Steady(b)
  BY <1>2 DEF Steady, AtGate
<1> QED
  BY <1>1, <1>3, <1>4, QuietGates

\* A line without one of those that wait in it.
LEMMA Spliced ==
  ASSUME NEW T, NEW s \in Seq(T), NEW i \in 1 .. Len(s)
  PROVE  /\ Splice(s, i) \in Seq(T) /\ Len(Splice(s, i)) = Len(s) - 1
         /\ \A j \in 1 .. Len(s) - 1 :
              Splice(s, i)[j] = s[IF j < i THEN j ELSE j + 1]
<1> DEFINE h == SubSeq(s, 1, i - 1)
           t == SubSeq(s, i + 1, Len(s))
<1>1. Len(s) \in Nat /\ i \in Nat /\ \A j \in 1 .. Len(s) : s[j] \in T
  BY LenProperties
<1>2. /\ h \in Seq(T) /\ Len(h) = i - 1
      /\ \A j \in 1 .. i - 1 : h[j] = s[j]
  BY <1>1, SubSeqProperties
<1>3. /\ t \in Seq(T) /\ Len(t) = Len(s) - i
      /\ \A j \in 1 .. Len(s) - i : t[j] = s[i + j]
  BY <1>1, SubSeqProperties
<1>4. Splice(s, i) = h \o t
  BY DEF Splice
<1> HIDE DEF h, t
<1>5. /\ h \o t \in Seq(T) /\ Len(h \o t) = Len(h) + Len(t)
      /\ \A j \in 1 .. Len(h) + Len(t) :
           (h \o t)[j] = IF j <= Len(h) THEN h[j] ELSE t[j - Len(h)]
  BY <1>2, <1>3, ConcatProperties
<1>6. Len(h \o t) = Len(s) - 1
  BY <1>1, <1>2, <1>3, <1>5
<1>7. ASSUME NEW j \in 1 .. Len(s) - 1
      PROVE  (h \o t)[j] = s[IF j < i THEN j ELSE j + 1]
  <2>1. j \in 1 .. Len(h) + Len(t) /\ j \in Nat
    BY <1>1, <1>2, <1>3
  <2>2. CASE j < i
    <3>1. (h \o t)[j] = h[j] /\ j \in 1 .. i - 1
      BY <2>1, <2>2, <1>1, <1>2, <1>5
    <3> QED
      BY <2>2, <3>1, <1>2
  <2>3. CASE ~(j < i)
    <3>1. (h \o t)[j] = t[j - (i - 1)] /\ j - (i - 1) \in 1 .. Len(s) - i
      BY <2>1, <2>3, <1>1, <1>2, <1>5
    <3>2. i + (j - (i - 1)) = j + 1
      BY <2>1, <1>1
    <3> QED
      BY <2>3, <3>1, <3>2, <1>3
  <2> QED
    BY <2>2, <2>3
<1> QED
  BY <1>4, <1>5, <1>6, <1>7

LEMMA LeavesGates ==
  ASSUME GateInv, NEW a \in Attempts, att[a].stage = "gate",
         NEW c, att[a].conn = c, LeavesLine(a, c), att' = [att EXCEPT ![a] = Off],
         UNCHANGED <<running, limit>>,
         last' \in [Chunks -> Conns \cup {NoConn}],
         tried' \in [Chunks -> SUBSET Conns],
         winner' \in [Chunks -> Kinds \cup {Nobody}]
  PROVE  GateInv'
<1> USE DEF GateInv
<1>1. c \in Conns
  BY DEF AskersHaveOne, Asks
<1>2. PICK i \in 1 .. Len(waiters[c]) :
        waiters[c][i] = a /\ waiters' = [waiters EXCEPT ![c] = Splice(@, i)]
  BY DEF LeavesLine
<1>3. /\ att' \in [Attempts -> AttemptStates] /\ att'[a] = Off
      /\ \A b \in Attempts \ {a} : att'[b] = att[b]
  BY OffState DEF RaceOK
<1>4. RaceOK' /\ AskersHaveOne'
  BY <1>3, OffState DEF RaceOK, AskersHaveOne, Asks
<1>5. waiters \in [Conns -> Seq(Attempts)] /\ waiters[c] \in Seq(Attempts)
  BY <1>1 DEF GatesOK
<1>6. waiters'[c] = Splice(waiters[c], i)
  BY <1>1, <1>2, <1>5
<1>7. /\ waiters'[c] \in Seq(Attempts) /\ Len(waiters'[c]) = Len(waiters[c]) - 1
      /\ \A j \in 1 .. Len(waiters[c]) - 1 :
           waiters'[c][j] = waiters[c][IF j < i THEN j ELSE j + 1]
  BY <1>5, <1>6, Spliced
<1>8. \A d \in Conns \ {c} : waiters'[d] = waiters[d]
  BY <1>2, <1>5
<1>9. waiters' \in [Conns -> Seq(Attempts)]
  BY <1>2, <1>5, <1>6, <1>7
<1>10. GatesOK'
  BY <1>9 DEF GatesOK
<1>11. \A d : Calling(d)' = Calling(d) /\ Waking(d)' = Waking(d)
  BY <1>3, OffState DEF Calling, Waking
<1>12. Len(waiters[c]) \in Nat /\ waiters[c] # <<>>
  BY <1>2, <1>5, LenProperties, EmptySeq
<1>13. CallsAreCounted' /\ SlotsAreSpokenFor'
  BY <1>8, <1>11, <1>12 DEF CallsAreCounted, SlotsAreSpokenFor
<1>14. ASSUME NEW d \in Conns, NEW j \in 1 .. Len(waiters'[d])
       PROVE  /\ att'[waiters'[d][j]].stage = "gate" /\ att'[waiters'[d][j]].conn = d
              /\ \A l \in 1 .. Len(waiters'[d]) :
                   waiters'[d][l] = waiters'[d][j] => l = j
  <2>1. CASE d # c
    <3>1. waiters'[d] = waiters[d] /\ att[waiters[d][j]].conn = d
          /\ att[waiters[d][j]].stage = "gate"
      BY <2>1, <1>8, <1>14 DEF LinesAreWaiters
    <3>2. waiters[d][j] \in Attempts \ {a}
      BY <2>1, <3>1, <1>14, <1>5
    <3> QED
      BY <3>1, <3>2, <1>3, <1>14 DEF LinesAreWaiters
  <2>2. CASE d = c
    <3> DEFINE at(l) == IF l < i THEN l ELSE l + 1
    <3>1. \A l \in 1 .. Len(waiters'[c]) : at(l) \in 1 .. Len(waiters[c]) /\ at(l) # i
      BY <1>7, <1>12
    <3>2. \A l, m \in 1 .. Len(waiters'[c]) : at(l) = at(m) => l = m
      BY <1>7, <1>12
    <3>3. \A l \in 1 .. Len(waiters'[c]) : waiters'[c][l] = waiters[c][at(l)]
      BY <1>7
    <3> HIDE DEF at
    <3>4. \A l, m \in 1 .. Len(waiters[c]) : waiters[c][l] = waiters[c][m] => l = m
      BY <1>1 DEF LinesAreWaiters
    <3>5. \A l \in 1 .. Len(waiters[c]) :
            l # i => /\ waiters[c][l] \in Attempts \ {a}
                     /\ att[waiters[c][l]].stage = "gate" /\ att[waiters[c][l]].conn = c
      BY <1>1, <1>2, <1>5, <3>4 DEF LinesAreWaiters
    <3>6. att'[waiters'[c][j]].stage = "gate" /\ att'[waiters'[c][j]].conn = c
      BY <2>2, <3>1, <3>3, <3>5, <1>3, <1>14
    <3>7. ASSUME NEW l \in 1 .. Len(waiters'[c]), waiters'[c][l] = waiters'[c][j]
          PROVE  l = j
      <4>1. j \in 1 .. Len(waiters'[c])
        BY <2>2, <1>14
      <4>2. waiters[c][at(l)] = waiters[c][at(j)]
        BY <3>3, <3>7, <4>1
      <4>3. at(l) = at(j)
        BY <3>1, <3>4, <4>1, <4>2
      <4> QED
        BY <3>2, <4>1, <4>3
    <3> QED
      BY <2>2, <3>6, <3>7
  <2> QED
    BY <2>1, <2>2
<1>15. LinesAreWaiters'
  BY <1>14 DEF LinesAreWaiters
<1> QED
  BY <1>4, <1>10, <1>13, <1>15

\* An aborted attempt that has no slot yet: with room it takes one and gives it
\* back, and without it leaves.
LEMMA LateGates ==
  ASSUME GateInv, NEW a \in Attempts, att[a].stage \in {"ready", "woken"},
         NEW c, att[a].conn = c,
         IF HasRoom(c)
         THEN att' = [Woken(att, c) EXCEPT ![a] = Off] /\ Wakes(c)
         ELSE att' = [att EXCEPT ![a] = Off] /\ UNCHANGED waiters,
         UNCHANGED <<running, limit>>,
         last' \in [Chunks -> Conns \cup {NoConn}],
         tried' \in [Chunks -> SUBSET Conns],
         winner' \in [Chunks -> Kinds \cup {Nobody}]
  PROVE  GateInv'
<1> USE DEF GateInv
<1>1. c \in Conns
  BY DEF AskersHaveOne, Asks
<1>2. running \in [Conns -> Nat] /\ limit \in [Conns -> Nat]
  BY DEF GatesOK
<1>3. CASE HasRoom(c)
  <2>1. /\ att' \in [Attempts -> AttemptStates] /\ att'[a] = Off
        /\ \A b \in Attempts \ {a} :
             att'[b] = IF b \in NextInLine(c)
                       THEN [att[b] EXCEPT !.stage = "woken"] ELSE att[b]
    BY <1>1, <1>3, OffState, WokenStates
  <2>2. \A b \in Attempts \ {a} :
          IF b \in NextInLine(c)
          THEN att'[b].stage = "woken" /\ att'[b].conn = att[b].conn
          ELSE att'[b].stage = att[b].stage /\ att'[b].conn = att[b].conn
    BY <2>1 DEF RaceOK, AttemptStates
  <2>3. att'[a].stage \notin AtGate
    BY <2>1, OffState DEF AtGate
  <2>4. /\ LinesAreWaiters'
        /\ \A d \in Conns : Calling(d)' = Calling(d) \ {a}
        /\ \A d \in Conns \ {c} : Waking(d)' = Waking(d)
        /\ Waking(c)' = (Waking(c) \ {a}) \cup NextInLine(c)
        /\ NextInLine(c) \cap Waking(c) = {}
    BY <1>1, <1>3, <2>2, <2>3, LineMoves
  <2>5. \A d \in Conns : Calling(d)' = Calling(d)
    BY <2>4 DEF Calling
  <2>6. waiters[c] # <<>> => \E h : NextInLine(c) = {h} /\ att[h].stage = "gate"
    <3>1. waiters[c] # <<>> => /\ NextInLine(c) = {waiters[c][1]}
                               /\ 1 \in 1 .. Len(waiters[c])
      BY <1>1, LineHeads, EmptySeq DEF GatesOK
    <3> QED
      BY <3>1, <1>1 DEF LinesAreWaiters
  <2>7. RaceOK' /\ GatesOK'
    BY <1>1, <1>3, <2>1, WakesLine DEF RaceOK, GatesOK
  <2>8. AskersHaveOne'
    <3> SUFFICES ASSUME NEW b \in Attempts, att'[b].stage \in Asks
                 PROVE  att'[b].conn \in Conns
      BY DEF AskersHaveOne
    <3>1. b # a
      BY <2>1, OffState DEF Asks
    <3>2. att[b].stage \in Asks
      <4>1. CASE b \in NextInLine(c)
        BY <4>1, <2>6, LineHeads, <1>1 DEF Asks
      <4>2. CASE b \notin NextInLine(c)
        BY <4>2, <3>1, <2>2
      <4> QED
        BY <4>1, <4>2
    <3> QED
      BY <3>1, <3>2, <2>2 DEF AskersHaveOne
  <2>9. CallsAreCounted'
    BY <2>5 DEF CallsAreCounted
  <2>10. SlotsAreSpokenFor'
    <3> SUFFICES ASSUME NEW d \in Conns, waiters'[d] # <<>>
                 PROVE  running[d] + Cardinality(Waking(d)') >= limit[d]
      BY DEF SlotsAreSpokenFor
    <3>1. CASE d # c
      BY <3>1, <1>1, <1>3, <2>4, WakesLine DEF SlotsAreSpokenFor
    <3>2. CASE d = c
      <4>1. waiters[c] # <<>>
        BY <3>2, <1>1, <1>3, WakesLine
      <4>2. PICK h : NextInLine(c) = {h} /\ h \notin Waking(c)
        BY <4>1, <2>4, <2>6
      <4>3. IsFiniteSet(Waking(c)) /\ Cardinality(Waking(c)) \in Nat
        BY AttemptsFinite
      <4>4. PICK S : S = Waking(c) \ {a}
        OBVIOUS
      <4>5. /\ IsFiniteSet(S)
            /\ Cardinality(S) = IF a \in Waking(c) THEN Cardinality(Waking(c)) - 1
                                ELSE Cardinality(Waking(c))
        BY <4>3, <4>4, FS_RemoveElement
      <4>6. Waking(c)' = S \cup {h} /\ h \notin S
        BY <4>2, <4>4, <2>4
      <4>7. Cardinality(S \cup {h}) = Cardinality(S) + 1
        BY <4>5, <4>6, FS_AddElement
      <4>8. running[c] + Cardinality(Waking(c)) >= limit[c]
        BY <4>1, <1>1 DEF SlotsAreSpokenFor
      <4>9. running[c] \in Nat /\ limit[c] \in Nat /\ Cardinality(Waking(c)) \in Nat
        BY <1>1, <1>2, AttemptsFinite
      <4> QED
        BY <3>2, <4>3, <4>5, <4>6, <4>8, <4>9, <4>7
    <3> QED
      BY <3>1, <3>2
  <2> QED
    BY <2>4, <2>7, <2>8, <2>9, <2>10
<1>4. CASE ~HasRoom(c)
  <2>1. /\ att' \in [Attempts -> AttemptStates] /\ att'[a] = Off
        /\ \A b \in Attempts \ {a} : att'[b] = att[b]
        /\ waiters' = waiters
    BY <1>4, OffState DEF RaceOK
  <2>2. RaceOK' /\ AskersHaveOne' /\ GatesOK'
    BY <2>1, OffState DEF RaceOK, AskersHaveOne, GatesOK, Asks
  <2>3. LinesAreWaiters'
    <3>0. waiters' = waiters
      BY <2>1
    <3> SUFFICES ASSUME NEW d \in Conns, NEW i \in 1 .. Len(waiters[d])
                 PROVE  /\ att'[waiters[d][i]].stage = "gate"
                        /\ att'[waiters[d][i]].conn = d
                        /\ \A j \in 1 .. Len(waiters[d]) :
                             waiters[d][j] = waiters[d][i] => j = i
      BY <3>0 DEF LinesAreWaiters
    <3>1. waiters[d][i] \in Attempts /\ att[waiters[d][i]].stage = "gate"
      BY DEF GatesOK, LinesAreWaiters
    <3>2. att'[waiters[d][i]] = att[waiters[d][i]]
      BY <2>1, <3>1
    <3> QED
      BY <3>2 DEF LinesAreWaiters
  <2>4. /\ \A d : Calling(d)' = Calling(d)
        /\ \A d \in Conns \ {c} : Waking(d)' = Waking(d)
        /\ Waking(c)' \subseteq Attempts
    BY <2>1, OffState DEF Calling, Waking
  <2>5. CallsAreCounted'
    BY <2>4 DEF CallsAreCounted
  <2>6. SlotsAreSpokenFor'
    <3>1. Cardinality(Waking(c)') \in Nat
      BY <2>4, AttemptsFinite, FS_Subset, FS_CardinalityType
    <3>2. running[c] >= limit[c]
      BY <1>1, <1>2, <1>4 DEF HasRoom
    <3>3. running[c] + Cardinality(Waking(c)') >= limit[c]
      BY <1>1, <1>2, <3>1, <3>2
    <3> QED
      BY <2>1, <2>4, <3>3 DEF SlotsAreSpokenFor
  <2> QED
    BY <2>2, <2>3, <2>5, <2>6
<1> QED
  BY <1>3, <1>4
-----------------------------------------------------------------------------
(* The race for a chunk.                                                   *)

\* Attempts run while the workers do.
OnlyWhileWorking == phase # "work" => todo = {} /\ \A a \in Attempts : ~Racing(a)

\* A chunk nobody took yet has no trace of an attempt.
TodoIsFresh ==
  \A k \in todo : /\ ~Racing(Original(k)) /\ ~Racing(Duplicate(k))
                  /\ winner[k] = Nobody /\ text[k] = "none"

\* The record of a chunk knows where its original asks.
RecordKnowsConn ==
  \A k \in Chunks : att[Original(k)].stage \in Asks =>
    last[k] = att[Original(k)].conn

\* Who wins, has written; who still runs after that, is told so.
WinnersWrote ==
  /\ \A k \in Chunks : winner[k] # Nobody => text[k] # "none"
  /\ \A a \in Attempts : Racing(a) /\ text[a[1]] # "none" => winner[a[1]] # Nobody
LosersAreTold ==
  \A a \in Attempts : Racing(a) =>
    /\ att[a].ended => text[a[1]] # "none"
    /\ winner[a[1]] # Nobody /\ ~aborted => att[a].ended

\* Without a failure a chunk is to be taken, being translated, or written.
ChunksAreHeld ==
  phase \in {"work", "sweep"} /\ ~failed =>
    \A k \in Chunks : k \in todo \/ Racing(Original(k)) \/ text[k] # "none"
FailureAborts == failed => aborted /\ phase = "work"
SavedIsWritten == phase = "work" => \A k \in saved : text[k] = "whole"

RaceInv == /\ FileOK /\ OnlyWhileWorking /\ TodoIsFresh /\ RecordKnowsConn
           /\ NeverTwiceOnOne /\ WinnersWrote /\ LosersAreTold
           /\ ChunksAreHeld /\ FailureAborts /\ SavedIsWritten
Inv == GateInv /\ RaceInv

-----------------------------------------------------------------------------
(* Every step keeps the gates.                                             *)

LEMMA BlankGates ==
  ASSUME /\ att = [a \in Attempts |-> Off] /\ last = [k \in Chunks |-> NoConn]
         /\ tried = [k \in Chunks |-> {}] /\ winner = [k \in Chunks |-> Nobody]
         /\ limit = Limit /\ running = [c \in Conns |-> 0]
         /\ waiters = [c \in Conns |-> <<>>]
  PROVE  GateInv
<1>1. RaceOK
  BY OffState DEF RaceOK
<1>2. GatesOK
  BY SplitAssumption DEF GatesOK
<1>3. \A c : Calling(c) = {} /\ Waking(c) = {}
  BY OffState DEF Calling, Waking
<1>4. CallsAreCounted
  BY <1>3, FS_EmptySet DEF CallsAreCounted
<1>5. LinesAreWaiters /\ SlotsAreSpokenFor
  BY DEF LinesAreWaiters, SlotsAreSpokenFor
<1>6. AskersHaveOne
  BY OffState DEF AskersHaveOne, Asks
<1> QED
  BY <1>1, <1>2, <1>4, <1>5, <1>6 DEF GateInv

LEMMA BlankGatesNext ==
  ASSUME Blank
  PROVE  GateInv'
<1>1. RaceOK'
  BY OffState DEF RaceOK, Blank
<1>2. GatesOK'
  BY SplitAssumption DEF GatesOK, Blank
<1>3. \A c : Calling(c)' = {} /\ Waking(c)' = {}
  BY OffState DEF Calling, Waking, Blank
<1>4. CallsAreCounted'
  BY <1>3, FS_EmptySet DEF CallsAreCounted, Blank
<1>5. LinesAreWaiters' /\ SlotsAreSpokenFor'
  BY DEF LinesAreWaiters, SlotsAreSpokenFor, Blank
<1>6. AskersHaveOne'
  BY OffState DEF AskersHaveOne, Asks, Blank
<1> QED
  BY <1>1, <1>2, <1>4, <1>5, <1>6 DEF GateInv

\* An attempt at a call or none yet is replaced, and its slot given back.
LEMMA GivesBackGates ==
  ASSUME GateInv, NEW a \in Attempts, att[a].stage \in {"ready", "call"},
         NEW new \in AttemptStates, new.stage \notin AtGate,
         new.stage = "ready" => new.conn \in Conns, GivesSlotBack(a, new),
         last' \in [Chunks -> Conns \cup {NoConn}],
         tried' \in [Chunks -> SUBSET Conns],
         winner' \in [Chunks -> Kinds \cup {Nobody}], UNCHANGED limit
  PROVE  GateInv'
<1>1. GatesOK /\ RaceOK /\ AskersHaveOne
  BY DEF GateInv
<1>2. CASE att[a].stage = "call"
  <2>1. Releases(a, new)
    BY <1>2 DEF GivesSlotBack
  <2> QED
    BY <2>1, <1>2, ReleaseFits DEF AtGate
<1>3. CASE att[a].stage # "call"
  <2>1. att' = [att EXCEPT ![a] = new] /\ UNCHANGED <<running, waiters>>
    BY <1>3 DEF GivesSlotBack
  <2>2. /\ att' \in [Attempts -> AttemptStates] /\ att'[a] = new
        /\ \A b \in Attempts \ {a} : att'[b] = att[b]
    BY <2>1, <1>1 DEF RaceOK
  <2>3. \A b \in Attempts : att[b].ended \in BOOLEAN
                            /\ att[b] = [att[b] EXCEPT !.ended = att[b].ended]
    BY <1>1 DEF RaceOK, AttemptStates
  <2>4. limit' \in [Conns -> Nat] /\ \A c \in Conns : limit'[c] \in 1 .. limit[c]
    BY <1>1 DEF GatesOK
  <2>5. att[a].stage \notin AtGate
    BY <1>3 DEF AtGate
  <2> QED
    BY <2>1, <2>2, <2>3, <2>4, <2>5, QuietAttempt
<1> QED
  BY <1>2, <1>3

\* What a record becomes with the end of an attempt.
LEMMA RecordFits ==
  ASSUME RaceOK, NEW a \in Attempts, Forgets(a) \/ UNCHANGED record
  PROVE  /\ last' \in [Chunks -> Conns \cup {NoConn}]
         /\ tried' \in [Chunks -> SUBSET Conns]
         /\ winner' \in [Chunks -> Kinds \cup {Nobody}]
BY DEF Forgets, record, RaceOK

LEMMA LastFits ==
  ASSUME RaceOK, NEW k \in Chunks, NEW new \in AttemptStates,
         new.stage = "ready" => new.conn \in Conns, OnConnection(k, new)
  PROVE  last' \in [Chunks -> Conns \cup {NoConn}]
BY DEF OnConnection, RaceOK

\* One attempt that is at no gate changes, and nothing else does at the gates.
LEMMA AloneGates ==
  ASSUME GateInv, NEW a \in Attempts, NEW new \in AttemptStates,
         new.stage \notin AtGate, att[a].stage \notin AtGate,
         new.stage = "ready" => new.conn \in Conns,
         att' = [att EXCEPT ![a] = new], UNCHANGED gateVars,
         last' \in [Chunks -> Conns \cup {NoConn}],
         tried' \in [Chunks -> SUBSET Conns],
         winner' \in [Chunks -> Kinds \cup {Nobody}]
  PROVE  GateInv'
<1>1. RaceOK /\ GatesOK
  BY DEF GateInv
<1>2. /\ att' \in [Attempts -> AttemptStates] /\ att'[a] = new
      /\ \A b \in Attempts \ {a} : att'[b] = att[b]
  BY <1>1 DEF RaceOK
<1>3. \A b \in Attempts : att[b].ended \in BOOLEAN
                          /\ att[b] = [att[b] EXCEPT !.ended = att[b].ended]
  BY <1>1 DEF RaceOK, AttemptStates
<1>4. /\ limit' \in [Conns -> Nat] /\ \A c \in Conns : limit'[c] \in 1 .. limit[c]
      /\ UNCHANGED <<running, waiters>>
  BY <1>1 DEF GatesOK, gateVars
<1> QED
  BY <1>2, <1>3, <1>4, QuietAttempt

\* Among chunks there is a first.
LEMMA FirstOfChunks ==
  ASSUME NEW T \in SUBSET Nat, T # {}
  PROVE  \E m \in T : \A l \in T : m <= l
<1>1. PICK R : R = OpToRel(<, Nat)
  OBVIOUS
<1>2. PICK m \in T : \A l \in T : ~(<<l, m>> \in R)
  BY <1>1, NatLessThanWellFounded, WFMin
<1>3. \A l, n \in Nat : l < n => <<l, n>> \in R
  BY <1>1, Zenon DEF OpToRel
<1>4. \A l \in T : ~(l < m)
  BY <1>2, <1>3
<1>5. \A l \in T : m <= l
  BY <1>4
<1> QED
  BY <1>5

\* The next chunk in the order of the file is one.
LEMMA PicksOne ==
  ASSUME FileOK, Picks
  PROVE  \E k \in todo, usable \in SUBSET Conns :
           /\ todo' = todo \ {k}
           /\ \E new \in Onward(k, Fresh(usable), limit) :
                att' = [att EXCEPT ![Original(k)] = new] /\ OnConnection(k, new)
<1> DEFINE k == CHOOSE k \in todo : \A l \in todo : k <= l
<1>1. todo # {} /\ todo \in SUBSET Nat
  BY SplitAssumption DEF Picks, FileOK, Chunks
<1>2. \E m \in todo : \A l \in todo : m <= l
  BY <1>1, FirstOfChunks
<1>3. k \in todo
  BY <1>2
<1> QED
  BY <1>3 DEF Picks

LEMMA PicksGates ==
  ASSUME Inv, Picks
  PROVE  GateInv'
<1> USE DEF Inv, GateInv, RaceInv
<1>1. PICK k \in todo, usable \in SUBSET Conns :
        \E new \in Onward(k, Fresh(usable), limit) :
          att' = [att EXCEPT ![Original(k)] = new] /\ OnConnection(k, new)
  BY PicksOne
<1>2. PICK new \in Onward(k, Fresh(usable), limit) :
        att' = [att EXCEPT ![Original(k)] = new] /\ OnConnection(k, new)
  BY <1>1
<1>3. UNCHANGED <<tried, winner, gateVars>>
  BY DEF Picks
<1>4. k \in Chunks /\ Original(k) \in Attempts /\ ~Racing(Original(k))
  BY AttemptPairs DEF FileOK, TodoIsFresh
<1>5. /\ new \in AttemptStates /\ new.stage \notin AtGate
      /\ new.stage = "ready" => new.conn \in Conns
  BY FreshState, OnwardState DEF GatesOK, AtGate
<1>6. last' \in [Chunks -> Conns \cup {NoConn}]
  BY <1>2, <1>4, <1>5, LastFits
<1>7. tried' \in [Chunks -> SUBSET Conns] /\ winner' \in [Chunks -> Kinds \cup {Nobody}]
  BY <1>3 DEF RaceOK
<1>8. att[Original(k)].stage \notin AtGate
  BY <1>4 DEF Racing, AtGate
<1> QED
  BY <1>2, <1>3, <1>4, <1>5, <1>6, <1>7, <1>8, AloneGates

LEMMA SendsGates ==
  ASSUME Inv, SendsDuplicate
  PROVE  GateInv'
<1> USE DEF Inv, GateInv
<1>1. PICK k \in Chunks, c \in Conns :
        /\ MayDuplicate(k) /\ c \in Targets(k)
        /\ tried' = [tried EXCEPT ![k] = @ \cup {c}]
        /\ att' = [att EXCEPT ![Duplicate(k)] = [Off EXCEPT !.stage = "ready", !.conn = c]]
  BY DEF SendsDuplicate, Targets
<1>2. UNCHANGED <<last, winner, gateVars>>
  BY DEF SendsDuplicate
<1>3. PICK new : new = [Off EXCEPT !.stage = "ready", !.conn = c]
  OBVIOUS
<1>4. new \in AttemptStates /\ new.stage = "ready" /\ new.conn = c
  BY <1>3 DEF Off, AttemptStates, Stages
<1>5. Duplicate(k) \in Attempts /\ att[Duplicate(k)].stage \notin AtGate
  BY <1>1, AttemptPairs DEF MayDuplicate, DuplicateIsOver, Racing, AtGate
<1>6. /\ last' \in [Chunks -> Conns \cup {NoConn}]
      /\ tried' \in [Chunks -> SUBSET Conns]
      /\ winner' \in [Chunks -> Kinds \cup {Nobody}]
  BY <1>1, <1>2 DEF RaceOK
<1> QED
  BY <1>1, <1>2, <1>3, <1>4, <1>5, <1>6, AloneGates DEF AtGate

LEMMA StopsGates ==
  ASSUME GateInv, NEW a \in Attempts, Stops(a)
  PROVE  GateInv'
<1> USE DEF GateInv
<1>1. Forgets(a) \/ UNCHANGED record
  BY DEF Stops
<1>2. UNCHANGED limit
  BY DEF Stops
<1>3. /\ last' \in [Chunks -> Conns \cup {NoConn}]
      /\ tried' \in [Chunks -> SUBSET Conns]
      /\ winner' \in [Chunks -> Kinds \cup {Nobody}]
  BY <1>1, RecordFits
<1>4. Off \in AttemptStates /\ Off.stage \notin AtGate /\ Off.stage # "ready"
  BY OffState DEF AtGate
<1>5. CASE att[a].stage = "call"
  <2>1. Releases(a, Off)
    BY <1>5 DEF Stops
  <2> QED
    BY <2>1, <1>2, <1>3, <1>4, <1>5, ReleaseFits
<1>6. CASE att[a].stage = "claim"
  <2>1. att' = [att EXCEPT ![a] = Off] /\ UNCHANGED gateVars
    BY <1>2, <1>6 DEF Stops, gateVars
  <2>2. att[a].stage \notin AtGate
    BY <1>6 DEF AtGate
  <2> QED
    BY <2>1, <2>2, <1>3, <1>4, AloneGates
<1>7. CASE att[a].stage = "gate"
  <2>1. PICK c : att[a].conn = c
    OBVIOUS
  <2>2. LeavesLine(a, c) /\ att' = [att EXCEPT ![a] = Off] /\ UNCHANGED running
    BY <1>7, <2>1 DEF Stops
  <2> QED
    BY <2>1, <2>2, <1>2, <1>3, <1>7, LeavesGates
<1>8. CASE att[a].stage \in {"ready", "woken"}
  <2>1. PICK c : att[a].conn = c
    OBVIOUS
  <2>2. /\ UNCHANGED running
        /\ IF HasRoom(c)
           THEN att' = [Woken(att, c) EXCEPT ![a] = Off] /\ Wakes(c)
           ELSE att' = [att EXCEPT ![a] = Off] /\ UNCHANGED waiters
    BY <1>8, <2>1 DEF Stops
  <2> QED
    BY <2>1, <2>2, <1>2, <1>3, <1>8, LateGates
<1> QED
  BY <1>5, <1>6, <1>7, <1>8 DEF Stops

LEMMA FailsGates ==
  ASSUME GateInv, NEW k \in Chunks, CallFails(k) \/ DuplicateFails(k)
  PROVE  GateInv'
<1> USE DEF GateInv
<1>1. CASE CallFails(k)
  <2>1. PICK a \in Attempts : a = Original(k)
    BY AttemptPairs
  <2>2. PICK new \in Onward(k, att[a], limit) :
          GivesSlotBack(a, new) /\ OnConnection(k, new)
    BY <1>1, <2>1 DEF CallFails
  <2>3. att[a].stage \in {"ready", "call"} /\ UNCHANGED <<tried, winner, limit>>
    BY <1>1, <2>1 DEF CallFails, Failing, OnlyAttempts
  <2>4. att[a] \in AttemptStates /\ limit \in [Conns -> Nat]
    BY DEF RaceOK, GatesOK
  <2>5. /\ new \in AttemptStates /\ new.stage \notin AtGate
        /\ new.stage = "ready" => new.conn \in Conns
    BY <2>4, OnwardState DEF AtGate
  <2>6. last' \in [Chunks -> Conns \cup {NoConn}]
    BY <2>2, <2>5, LastFits
  <2>7. /\ tried' \in [Chunks -> SUBSET Conns]
        /\ winner' \in [Chunks -> Kinds \cup {Nobody}]
    BY <2>3 DEF RaceOK
  <2> QED
    BY <2>2, <2>3, <2>5, <2>6, <2>7, GivesBackGates
<1>2. CASE DuplicateFails(k)
  <2>1. PICK a \in Attempts : a = Duplicate(k)
    BY AttemptPairs
  <2>2. /\ att[a].stage \in {"ready", "call"} /\ GivesSlotBack(a, Off) /\ Forgets(a)
        /\ UNCHANGED limit
    BY <1>2, <2>1 DEF DuplicateFails, Failing
  <2>3. /\ last' \in [Chunks -> Conns \cup {NoConn}]
        /\ tried' \in [Chunks -> SUBSET Conns]
        /\ winner' \in [Chunks -> Kinds \cup {Nobody}]
    BY <2>2, RecordFits
  <2>4. Off \in AttemptStates /\ Off.stage \notin AtGate /\ Off.stage # "ready"
    BY OffState DEF AtGate
  <2> QED
    BY <2>2, <2>3, <2>4, GivesBackGates
<1> QED
  BY <1>1, <1>2

\* A call that ends in an answer, or with a context that overflowed.
LEMMA AnswersGates ==
  ASSUME GateInv, NEW a \in Attempts,
         CallAnswers(a) \/ \E k \in Chunks : a = Original(k) /\ Overflows(k)
  PROVE  GateInv'
<1> USE DEF GateInv
<1>1. att[a] \in AttemptStates
  BY DEF RaceOK
<1>2. PICK new : /\ new \in {Answered(att[a]), [att[a] EXCEPT !.stage = "full",
                                                 !.crowded = FALSE, !.left = {}]}
                 /\ Releases(a, new)
  BY DEF CallAnswers, Overflows
<1>3. /\ att[a].stage = "call" /\ UNCHANGED <<last, tried, winner, limit>>
  BY DEF CallAnswers, Overflows, OnlyAttempts
<1>4. new \in AttemptStates /\ new.stage \in {"claim", "full"}
  <2>1. CASE new = Answered(att[a])
    BY <1>1, <2>1, AnsweredState
  <2>2. CASE new = [att[a] EXCEPT !.stage = "full", !.crowded = FALSE, !.left = {}]
    BY <1>1, <2>2 DEF AttemptStates, Stages
  <2> QED
    BY <1>2, <2>1, <2>2
<1>5. /\ last' \in [Chunks -> Conns \cup {NoConn}]
      /\ tried' \in [Chunks -> SUBSET Conns]
      /\ winner' \in [Chunks -> Kinds \cup {Nobody}]
  BY <1>3 DEF RaceOK
<1> QED
  BY <1>2, <1>3, <1>4, <1>5, ReleaseFits DEF AtGate

\* A server that overflowed takes fewer requests at a time, but one at least.
LEMMA LimitShrinks ==
  ASSUME RaceOK, GatesOK, NEW k \in Chunks,
         limit' = [limit EXCEPT ![last[k]] = IF Halved(k) < @ THEN Halved(k) ELSE @]
  PROVE  limit' \in [Conns -> Nat] /\ \A c \in Conns : limit'[c] \in 1 .. limit[c]
<1>1. limit \in [Conns -> Nat] /\ \A c \in Conns : limit[c] \in 1 .. limit[c]
  BY DEF GatesOK
<1>2. att[Original(k)].seen \in Nat
  BY AttemptPairs DEF RaceOK, AttemptStates
<1>3. PICK h : h = Halved(k)
  OBVIOUS
<1>4. h \in Nat /\ h >= 1
  BY <1>2, <1>3 DEF Halved
<1>5. limit' = [limit EXCEPT ![last[k]] = IF h < @ THEN h ELSE @]
  BY <1>3
<1>6. \A c \in Conns : limit'[c] \in {limit[c]} \cup {n \in {h} : h < limit[c]}
  BY <1>1, <1>5
<1>7. \A c \in Conns : limit'[c] \in Nat /\ limit'[c] \in 1 .. limit[c]
  BY <1>1, <1>4, <1>6
<1> QED
  BY <1>1, <1>5, <1>7

LEMMA RequeuesGates ==
  ASSUME GateInv, NEW k \in Chunks, Requeues(k)
  PROVE  GateInv'
<1> USE DEF GateInv
<1>1. PICK a \in Attempts : a = Original(k)
  BY AttemptPairs
<1>2. att[a].stage = "full" /\ UNCHANGED <<running, waiters>>
  BY <1>1 DEF Requeues
<1>3. limit' \in [Conns -> Nat] /\ \A c \in Conns : limit'[c] \in 1 .. limit[c]
  BY LimitShrinks DEF Requeues
<1>4. PICK new \in AttemptStates :
        /\ att' = [att EXCEPT ![a] = new] /\ new.stage \notin AtGate
        /\ new.stage = "ready" => new.conn \in Conns
        /\ \/ OnConnection(k, new) /\ UNCHANGED <<tried, winner>>
           \/ Forgets(a)
  <2>1. CASE RunsAgain(k)
    <3>1. PICK usable \in SUBSET Conns :
            \E x \in Onward(k, Fresh(usable), limit') :
              att' = [att EXCEPT ![a] = x] /\ OnConnection(k, x)
      BY <2>1, <1>1 DEF Requeues
    <3>2. PICK x \in Onward(k, Fresh(usable), limit') :
            att' = [att EXCEPT ![a] = x] /\ OnConnection(k, x)
      BY <3>1
    <3>3. x \in AttemptStates /\ x.stage \notin AtGate
          /\ (x.stage = "ready" => x.conn \in Conns)
      BY <1>3, FreshState, OnwardState DEF AtGate
    <3>4. UNCHANGED <<tried, winner>>
      BY <2>1 DEF Requeues
    <3> QED
      BY <3>2, <3>3, <3>4
  <2>2. CASE ~RunsAgain(k)
    <3>1. att' = [att EXCEPT ![a] = Off] /\ Forgets(a)
      BY <2>2, <1>1 DEF Requeues, Quits
    <3> QED
      BY <3>1, OffState DEF AtGate
  <2> QED
    BY <2>1, <2>2
<1>5. /\ last' \in [Chunks -> Conns \cup {NoConn}]
      /\ tried' \in [Chunks -> SUBSET Conns]
      /\ winner' \in [Chunks -> Kinds \cup {Nobody}]
  <2>1. CASE Forgets(a)
    BY <2>1, RecordFits
  <2>2. CASE OnConnection(k, new) /\ UNCHANGED <<tried, winner>>
    BY <2>2, <1>4, LastFits DEF RaceOK
  <2> QED
    BY <1>4, <2>1, <2>2
<1>6. /\ att' \in [Attempts -> AttemptStates] /\ att'[a] = new
      /\ \A b \in Attempts \ {a} : att'[b] = att[b]
  BY <1>4 DEF RaceOK
<1>7. \A b \in Attempts : att[b].ended \in BOOLEAN
                          /\ att[b] = [att[b] EXCEPT !.ended = att[b].ended]
  BY DEF RaceOK, AttemptStates
<1>8. att[a].stage \notin AtGate
  BY <1>2 DEF AtGate
<1>9. \A b \in Attempts : IF b = a THEN att'[b] = new
                          ELSE \E e \in BOOLEAN : att'[b] = [att[b] EXCEPT !.ended = e]
  BY <1>6, <1>7
<1> HIDE DEF GateInv
<1> QED
  BY <1>2, <1>3, <1>4, <1>5, <1>6, <1>8, <1>9, QuietAttempt

\* The end of an attempt that is at no gate.
LEMMA EndsGates ==
  ASSUME GateInv, NEW a \in Attempts, att[a].stage \notin AtGate,
         att' = [att EXCEPT ![a] = Off], Forgets(a) \/ UNCHANGED record,
         UNCHANGED gateVars
  PROVE  GateInv'
<1>1. /\ last' \in [Chunks -> Conns \cup {NoConn}]
      /\ tried' \in [Chunks -> SUBSET Conns]
      /\ winner' \in [Chunks -> Kinds \cup {Nobody}]
  BY RecordFits DEF GateInv
<1>2. Off \in AttemptStates /\ Off.stage \notin AtGate /\ Off.stage # "ready"
  BY OffState DEF AtGate
<1> QED
  BY <1>1, <1>2, AloneGates

LEMMA HearsGates ==
  ASSUME GateInv, NEW k \in Chunks, Hears(k)
  PROVE  GateInv'
<1> USE DEF GateInv
<1>1. PICK a \in Attempts : a = Original(k)
  BY AttemptPairs
<1>2. att[a].stage = "hear" /\ UNCHANGED gateVars /\ att[a].stage \notin AtGate
  BY <1>1 DEF Hears, AtGate
<1>3. CASE winner[k] # Nobody
  <2>1. att' = [att EXCEPT ![a] = Off] /\ Forgets(a)
    BY <1>1, <1>3 DEF Hears, Quits
  <2> QED
    BY <2>1, <1>2, EndsGates
<1>4. CASE winner[k] = Nobody
  <2>1. PICK st \in {"claim", "part", "lost"} : att' = [att EXCEPT ![a].stage = st]
    BY <1>1, <1>4 DEF Hears
  <2>2. PICK new : new = [att[a] EXCEPT !.stage = st]
    OBVIOUS
  <2>3. /\ new \in AttemptStates /\ new.stage \notin AtGate
        /\ new.stage # "ready"
    BY <2>2 DEF RaceOK, AttemptStates, Stages, AtGate
  <2>4. att' = [att EXCEPT ![a] = new]
    BY <2>1, <2>2 DEF RaceOK
  <2>5. UNCHANGED record
    BY <1>4 DEF Hears
  <2>6. /\ last' \in [Chunks -> Conns \cup {NoConn}]
        /\ tried' \in [Chunks -> SUBSET Conns]
        /\ winner' \in [Chunks -> Kinds \cup {Nobody}]
    BY <2>5, RecordFits
  <2> QED
    BY <2>3, <2>4, <2>6, <1>2, AloneGates
<1> QED
  BY <1>3, <1>4

\* An attempt that has an answer, or part of one, is at no gate.
LEMMA AnswerIsOut ==
  ASSUME NEW a, HasAnswer(a)
  PROVE  att[a].stage \in {"claim", "part"} /\ att[a].stage \notin AtGate
BY DEF HasAnswer, AtGate

LEMMA WritesGates ==
  ASSUME GateInv, NEW a \in Attempts, HasAnswer(a), Writes(a), UNCHANGED gateVars
  PROVE  GateInv'
<1> USE DEF GateInv
<1>1. PICK e \in BOOLEAN :
        att' = [att EXCEPT ![a] = Off, ![Other(a)].ended = e]
  BY DEF Writes, Racing
<1>2. PICK o \in Attempts : o = Other(a) /\ o # a
  BY AttemptPairs
<1>3. PICK new : new = [att[o] EXCEPT !.ended = e]
  OBVIOUS
<1>4. new \in AttemptStates
  BY <1>3 DEF RaceOK, AttemptStates
<1>5. att' = [[att EXCEPT ![a] = Off] EXCEPT ![o] = new]
  BY <1>1, <1>2, <1>3 DEF RaceOK
<1>6. /\ att' \in [Attempts -> AttemptStates] /\ att'[a] = Off /\ att'[o] = new
      /\ \A b \in Attempts \ {a, o} : att'[b] = att[b]
  BY <1>2, <1>4, <1>5, OffState DEF RaceOK
<1>7. \A b \in Attempts : att[b].ended \in BOOLEAN
                          /\ att[b] = [att[b] EXCEPT !.ended = att[b].ended]
  BY DEF RaceOK, AttemptStates
<1>8. \A b \in Attempts : IF b = a THEN att'[b] = Off
                          ELSE \E f \in BOOLEAN : att'[b] = [att[b] EXCEPT !.ended = f]
  BY <1>2, <1>3, <1>6, <1>7
<1>9. /\ last' \in [Chunks -> Conns \cup {NoConn}]
      /\ tried' \in [Chunks -> SUBSET Conns]
      /\ winner' \in [Chunks -> Kinds \cup {Nobody}]
  <2>1. CASE Wins(a)
    BY <2>1 DEF Wins, RaceOK, Attempts
  <2>2. CASE Forgets(a)
    BY <2>2, RecordFits
  <2> QED
    BY <2>1, <2>2 DEF Writes
<1>10. /\ limit' \in [Conns -> Nat] /\ \A c \in Conns : limit'[c] \in 1 .. limit[c]
       /\ UNCHANGED <<running, waiters>>
  BY DEF GatesOK, gateVars
<1>11. Off \in AttemptStates /\ Off.stage \notin AtGate /\ Off.stage # "ready"
  BY OffState DEF AtGate
<1> QED
  BY <1>6, <1>8, <1>9, <1>10, <1>11, AnswerIsOut, QuietAttempt

LEMMA LastStepsGates ==
  ASSUME GateInv, NEW a \in Attempts,
         Claims(a) \/ \E k \in Chunks : a = Original(k) /\ Loses(k)
  PROVE  GateInv'
<1>1. CASE Claims(a)
  <2>1. HasAnswer(a) /\ UNCHANGED gateVars /\ att[a].stage \notin AtGate
    BY <1>1, AnswerIsOut DEF Claims
  <2>2. CASE MayWin(a[1])
    BY <1>1, <2>1, <2>2, WritesGates DEF Claims
  <2>3. CASE ~MayWin(a[1])
    <3>1. att' = [att EXCEPT ![a] = Off] /\ Forgets(a)
      BY <1>1, <2>3 DEF Claims, Quits
    <3> QED
      BY <3>1, <2>1, EndsGates
  <2> QED
    BY <2>2, <2>3
<1>2. CASE \E k \in Chunks : a = Original(k) /\ Loses(k)
  <2>1. PICK k \in Chunks : a = Original(k) /\ Loses(k)
    BY <1>2
  <2>2. /\ UNCHANGED gateVars /\ att[a].stage \notin AtGate
        /\ att' = [att EXCEPT ![a] = Off]
        /\ Forgets(a) \/ UNCHANGED record
    BY <2>1 DEF Loses, Quits, AtGate
  <2> QED
    BY <2>2, EndsGates
<1> QED
  BY <1>1, <1>2

\* What does not touch an attempt or a gate.
LEMMA ApartGates ==
  ASSUME GateInv, UNCHANGED <<att, record, gateVars>>
  PROVE  GateInv'
<1>1. /\ att' = att /\ last' = last /\ tried' = tried /\ winner' = winner
      /\ limit' = limit /\ running' = running /\ waiters' = waiters
  BY DEF record, gateVars
<1>2. RaceOK' /\ GatesOK' /\ AskersHaveOne'
  BY <1>1 DEF GateInv, RaceOK, GatesOK, AskersHaveOne
<1>3. LinesAreWaiters'
  BY <1>1 DEF GateInv, LinesAreWaiters
<1>4. CallsAreCounted' /\ SlotsAreSpokenFor'
  BY <1>1 DEF GateInv, CallsAreCounted, SlotsAreSpokenFor, Calling, Waking
<1> QED
  BY <1>2, <1>3, <1>4 DEF GateInv

LEMMA AttemptGates ==
  ASSUME GateInv, NEW a \in Attempts, AttemptStep(a)
  PROVE  GateInv'
<1>1. a[1] \in Chunks /\ a \in {Original(a[1]), Duplicate(a[1])}
  BY AttemptPairs
<1>2. CASE a[2] = "duplicate"
  <2>1. TakesSlot(a) \/ CallAnswers(a) \/ Stops(a) \/ Claims(a) \/ DuplicateFails(a[1])
    BY <1>2 DEF AttemptStep
  <2> QED
    BY <2>1, <1>1, TakesGates, AnswersGates, StopsGates, LastStepsGates, FailsGates
<1>3. CASE a[2] # "duplicate"
  <2>1. a = Original(a[1])
    BY <1>1, <1>3, AttemptPairs
  <2>2. \/ TakesSlot(a) \/ CallAnswers(a) \/ Stops(a) \/ Claims(a)
        \/ CallFails(a[1]) \/ Overflows(a[1]) \/ Requeues(a[1])
        \/ Hears(a[1]) \/ Loses(a[1])
    BY <1>3 DEF AttemptStep
  <2>3. CASE TakesSlot(a) \/ Stops(a) \/ CallFails(a[1])
    BY <2>3, <1>1, TakesGates, StopsGates, FailsGates
  <2>4. CASE CallAnswers(a) \/ Overflows(a[1])
    BY <2>4, <2>1, <1>1, AnswersGates
  <2>5. CASE Requeues(a[1]) \/ Hears(a[1])
    BY <2>5, <1>1, RequeuesGates, HearsGates
  <2>6. CASE Claims(a) \/ Loses(a[1])
    BY <2>6, <2>1, <1>1, LastStepsGates
  <2> QED
    BY <2>2, <2>3, <2>4, <2>5, <2>6
<1> QED
  BY <1>2, <1>3

LEMMA GateStep ==
  ASSUME Inv, [Next]_vars
  PROVE  GateInv'
<1>0. GateInv
  BY DEF Inv
<1>1. CASE Picks
  BY <1>1, PicksGates
<1>2. CASE SendsDuplicate
  BY <1>2, SendsGates
<1>3. CASE \E a \in Attempts : AttemptStep(a)
  BY <1>0, <1>3, AttemptGates
<1>4. CASE Blank
  BY <1>4, BlankGatesNext
<1>5. CASE UNCHANGED <<att, record, gateVars>>
  BY <1>0, <1>5, ApartGates
<1>6. CASE WorkersEnd \/ Finishes
  BY <1>4, <1>5, <1>6 DEF WorkersEnd, Finishes, GivesUp
<1>7. CASE Start \/ Stop \/ Crash
  BY <1>4, <1>5, <1>7 DEF Start, Stop, Crash, GivesUp
<1>8. CASE UNCHANGED vars
  BY <1>5, <1>8 DEF vars, record, gateVars
<1> QED
  BY <1>1, <1>2, <1>3, <1>6, <1>7, <1>8 DEF Next, Runs

-----------------------------------------------------------------------------
(* Every step keeps the race.                                              *)

\* The other attempts stay where they are, or are woken from their line.
KeepsOthers(a) ==
  \A b \in Attempts \ {a} :
    /\ att'[b].conn = att[b].conn /\ att'[b].ended = att[b].ended
    /\ \/ att'[b].stage = att[b].stage
       \/ att[b].stage = "gate" /\ att'[b].stage = "woken"

LEMMA OthersRace ==
  ASSUME NEW a, KeepsOthers(a)
  PROVE  \A b \in Attempts \ {a} :
           /\ Racing(b)' <=> Racing(b)
           /\ att'[b].stage \in Asks <=> att[b].stage \in Asks
           /\ att'[b].conn = att[b].conn /\ att'[b].ended = att[b].ended
BY DEF KeepsOthers, Racing, Asks

LEMMA ReleaseKeeps ==
  ASSUME GateInv, NEW a \in Attempts, att[a].stage = "call",
         NEW new \in AttemptStates, Releases(a, new)
  PROVE  att'[a] = new /\ KeepsOthers(a)
<1>1. RaceOK /\ GatesOK /\ AskersHaveOne /\ LinesAreWaiters
  BY DEF GateInv
<1>2. PICK c \in Conns : att[a].conn = c
  BY <1>1 DEF AskersHaveOne, Asks
<1>3. /\ att'[a] = new
      /\ \A b \in Attempts \ {a} :
           att'[b] = IF b \in NextInLine(c)
                     THEN [att[b] EXCEPT !.stage = "woken"] ELSE att[b]
  BY <1>1, <1>2, ReleasesState
<1>4. \A b \in NextInLine(c) : att[b].stage = "gate"
  BY <1>1, WokenWereInLine
<1>5. ASSUME NEW b \in Attempts \ {a}
      PROVE  /\ att'[b].conn = att[b].conn /\ att'[b].ended = att[b].ended
             /\ \/ att'[b].stage = att[b].stage
                \/ att[b].stage = "gate" /\ att'[b].stage = "woken"
  <2>1. att'[b] = IF b \in NextInLine(c)
                  THEN [att[b] EXCEPT !.stage = "woken"] ELSE att[b]
    BY <1>3
  <2>2. att[b] \in AttemptStates
    BY <1>1 DEF RaceOK
  <2> QED
    BY <2>1, <2>2, <1>4 DEF AttemptStates
<1> QED
  BY <1>3, <1>5 DEF KeepsOthers

LEMMA AloneKeeps ==
  ASSUME RaceOK, NEW a \in Attempts, NEW new, att' = [att EXCEPT ![a] = new]
  PROVE  att'[a] = new /\ KeepsOthers(a)
BY DEF KeepsOthers, RaceOK

LEMMA BackKeeps ==
  ASSUME GateInv, NEW a \in Attempts, NEW new \in AttemptStates,
         GivesSlotBack(a, new)
  PROVE  att'[a] = new /\ KeepsOthers(a)
BY ReleaseKeeps, AloneKeeps DEF GivesSlotBack, GateInv

\* An attempt goes on: at most its connection changes.
LEMMA GoesOn ==
  ASSUME RaceInv, NEW a \in Attempts, Racing(a), Racing(a)', KeepsOthers(a),
         UNCHANGED <<runVars, todo, winner, file>>,
         \/ att'[a].ended = att[a].ended
         \/ winner[a[1]] = Nobody /\ ~att'[a].ended,
         \A k \in Chunks \ {a[1]} : last'[k] = last[k],
         \/ /\ a = Duplicate(a[1]) /\ last' = last /\ att'[a].conn = att[a].conn
         \/ /\ a = Original(a[1])
            /\ att'[a].stage \in Asks =>
                 /\ last'[a[1]] = att'[a].conn
                 /\ Racing(Duplicate(a[1])) => att'[a].conn # att[Duplicate(a[1])].conn
  PROVE  RaceInv'
<1> USE DEF RaceInv
<1>1. \A b \in Attempts : Racing(b)' <=> Racing(b)
  BY OthersRace
<1>2. /\ phase' = phase /\ aborted' = aborted /\ failed' = failed /\ todo' = todo
      /\ winner' = winner /\ text' = text /\ saved' = saved /\ output' = output
  BY DEF runVars, file
<1>3. FileOK'
  BY <1>2 DEF FileOK
<1>4. OnlyWhileWorking'
  BY <1>1, <1>2 DEF OnlyWhileWorking
<1>5. TodoIsFresh'
  BY <1>1, <1>2, AttemptPairs DEF TodoIsFresh, FileOK
<1>6. ASSUME NEW k \in Chunks, k # a[1]
      PROVE  /\ att'[Original(k)].stage \in Asks <=> att[Original(k)].stage \in Asks
             /\ att'[Original(k)].conn = att[Original(k)].conn
             /\ att'[Duplicate(k)].conn = att[Duplicate(k)].conn
             /\ last'[k] = last[k]
  <2>1. Original(k) \in Attempts \ {a} /\ Duplicate(k) \in Attempts \ {a}
    BY <1>6, AttemptPairs
  <2> QED
    BY <2>1, <1>6, OthersRace
<1>7. /\ att'[Original(a[1])].stage \in Asks =>
           last'[a[1]] = att'[Original(a[1])].conn
      /\ att'[Original(a[1])].stage \in Asks /\ Racing(Duplicate(a[1])) =>
           att'[Original(a[1])].conn # att'[Duplicate(a[1])].conn
  <2>0. a[1] \in Chunks
    BY AttemptPairs
  <2>1. CASE a = Duplicate(a[1])
    <3>1. /\ Original(a[1]) \in Attempts \ {a} /\ last' = last
          /\ att'[a].conn = att[a].conn
      BY <2>1, AttemptPairs
    <3>2. /\ att'[Original(a[1])].stage \in Asks <=> att[Original(a[1])].stage \in Asks
          /\ att'[Original(a[1])].conn = att[Original(a[1])].conn
      BY <3>1, OthersRace
    <3>3. att'[Duplicate(a[1])].conn = att[Duplicate(a[1])].conn
      BY <2>1, <3>1
    <3> QED
      BY <2>0, <3>1, <3>2, <3>3 DEF RecordKnowsConn, NeverTwiceOnOne, Asks
  <2>2. CASE a = Original(a[1])
    <3>1. Duplicate(a[1]) \in Attempts \ {a} /\ a # Duplicate(a[1])
      BY <2>2, AttemptPairs
    <3>2. att'[Duplicate(a[1])].conn = att[Duplicate(a[1])].conn
      BY <3>1, OthersRace
    <3>3. att'[a].stage \in Asks =>
            /\ last'[a[1]] = att'[a].conn
            /\ Racing(Duplicate(a[1])) => att'[a].conn # att[Duplicate(a[1])].conn
      BY <3>1
    <3> QED
      BY <2>2, <3>2, <3>3
  <2> QED
    BY <2>1, <2>2
<1>8. RecordKnowsConn'
  <2> SUFFICES ASSUME NEW k \in Chunks, att'[Original(k)].stage \in Asks
               PROVE  last'[k] = att'[Original(k)].conn
    BY DEF RecordKnowsConn
  <2>1. CASE k = a[1]
    BY <2>1, <1>7
  <2>2. CASE k # a[1]
    BY <2>2, <1>6 DEF RecordKnowsConn
  <2> QED
    BY <2>1, <2>2
<1>9. NeverTwiceOnOne'
  <2> SUFFICES ASSUME NEW k \in Chunks, Racing(Duplicate(k))',
                      att'[Original(k)].stage \in Asks
               PROVE  att'[Original(k)].conn # att'[Duplicate(k)].conn
    BY DEF NeverTwiceOnOne, Asks
  <2>0. Racing(Duplicate(k))
    BY <1>1, AttemptPairs
  <2>1. CASE k = a[1]
    BY <2>0, <2>1, <1>7
  <2>2. CASE k # a[1]
    <3>1. att[Original(k)].stage \in Asks
      BY <2>2, <1>6
    <3>2. att[Original(k)].conn # att[Duplicate(k)].conn
      BY <2>0, <3>1 DEF NeverTwiceOnOne, Asks
    <3> QED
      BY <2>2, <3>2, <1>6
  <2> QED
    BY <2>1, <2>2
<1>10. WinnersWrote'
  BY <1>1, <1>2 DEF WinnersWrote
<1>11. LosersAreTold'
  <2> SUFFICES ASSUME NEW b \in Attempts, Racing(b)
               PROVE  /\ att'[b].ended => text[b[1]] # "none"
                      /\ winner[b[1]] # Nobody /\ ~aborted => att'[b].ended
    BY <1>1, <1>2 DEF LosersAreTold
  <2>1. CASE att'[b].ended = att[b].ended
    BY <2>1 DEF LosersAreTold
  <2>2. CASE att'[b].ended # att[b].ended
    <3>1. b = a
      BY <2>2, OthersRace
    <3> QED
      BY <2>2, <3>1
  <2> QED
    BY <2>1, <2>2
<1>12. ChunksAreHeld'
  BY <1>1, <1>2, AttemptPairs DEF ChunksAreHeld
<1>13. FailureAborts' /\ SavedIsWritten'
  BY <1>2 DEF FailureAborts, SavedIsWritten
<1> QED
  BY <1>3, <1>4, <1>5, <1>8, <1>9, <1>10, <1>11, <1>12, <1>13

\* An attempt leaves: its chunk is written, or was only a duplicate's, or the
\* worker throws.
LEMMA Leaves ==
  ASSUME RaceInv, NEW a \in Attempts, Racing(a), att'[a] = Off, KeepsOthers(a),
         UNCHANGED <<phase, todo, file>>,
         \/ /\ Forgets(a) /\ UNCHANGED <<aborted, failed>>
            /\ a = Original(a[1]) => text[a[1]] # "none"
         \/ Throws /\ UNCHANGED record,
         RaceOK
  PROVE  RaceInv'
<1> USE DEF RaceInv
<1>0. a[1] \in Chunks /\ ~Racing(a)'
  BY AttemptPairs, OffState DEF Racing
<1>1. \A b \in Attempts \ {a} : /\ Racing(b)' <=> Racing(b)
                                /\ att'[b].stage \in Asks <=> att[b].stage \in Asks
                                /\ att'[b].conn = att[b].conn
                                /\ att'[b].ended = att[b].ended
  BY OthersRace
<1>2. /\ phase' = phase /\ todo' = todo /\ text' = text /\ saved' = saved
      /\ output' = output
  BY DEF file
<1>3. /\ \A k \in Chunks \ {a[1]} : last'[k] = last[k] /\ winner'[k] = winner[k]
      /\ \/ last'[a[1]] = last[a[1]] /\ winner'[a[1]] = winner[a[1]]
         \/ ~Racing(Other(a)) /\ winner'[a[1]] = Nobody
  BY <1>0 DEF Forgets, record, RaceOK
<1>4. phase = "work" /\ a[1] \notin todo
  BY <1>0, AttemptPairs DEF OnlyWhileWorking, TodoIsFresh
<1>5. \/ aborted' = aborted /\ failed' = failed
      \/ aborted' /\ failed'
  BY DEF Throws
<1>6. FileOK'
  BY <1>2, <1>5 DEF FileOK, Throws
<1>7. OnlyWhileWorking'
  BY <1>2, <1>4 DEF OnlyWhileWorking
<1>8. TodoIsFresh'
  <2> SUFFICES ASSUME NEW k \in todo
               PROVE  /\ ~Racing(Original(k))' /\ ~Racing(Duplicate(k))'
                      /\ winner'[k] = Nobody /\ text[k] = "none"
    BY <1>2 DEF TodoIsFresh
  <2>1. k \in Chunks /\ k # a[1]
    BY <1>4 DEF FileOK
  <2>2. Original(k) \in Attempts \ {a} /\ Duplicate(k) \in Attempts \ {a}
    BY <2>1, AttemptPairs
  <2> QED
    BY <2>1, <2>2, <1>1, <1>3 DEF TodoIsFresh
<1>9. \A k \in Chunks : Original(k) = a \/ Duplicate(k) = a <=> k = a[1]
  BY AttemptPairs
<1>10. \A k \in Chunks : Racing(Original(k))' => /\ Racing(Original(k))
                                                 /\ last'[k] = last[k]
  <2> SUFFICES ASSUME NEW k \in Chunks, Racing(Original(k))'
               PROVE  Racing(Original(k)) /\ last'[k] = last[k]
    OBVIOUS
  <2>1. Original(k) \in Attempts \ {a} /\ Racing(Original(k))
    BY <1>0, <1>1, AttemptPairs
  <2>2. k = a[1] => Other(a) = Original(k)
    BY <2>1, AttemptPairs
  <2> QED
    BY <2>1, <2>2, <1>3
<1>11. RecordKnowsConn'
  <2> SUFFICES ASSUME NEW k \in Chunks, att'[Original(k)].stage \in Asks
               PROVE  last'[k] = att'[Original(k)].conn
    BY DEF RecordKnowsConn
  <2>1. Racing(Original(k))'
    BY DEF Racing, Asks
  <2>2. Original(k) \in Attempts \ {a} /\ last'[k] = last[k]
    BY <2>1, <1>0, <1>10, AttemptPairs
  <2> QED
    BY <2>2, <1>1 DEF RecordKnowsConn
<1>12. NeverTwiceOnOne'
  <2> SUFFICES ASSUME NEW k \in Chunks, Racing(Duplicate(k))',
                      att'[Original(k)].stage \in Asks
               PROVE  att'[Original(k)].conn # att'[Duplicate(k)].conn
    BY DEF NeverTwiceOnOne, Asks
  <2>1. Racing(Original(k))'
    BY DEF Racing, Asks
  <2>2. Original(k) \in Attempts \ {a} /\ Duplicate(k) \in Attempts \ {a}
    BY <2>1, <1>0, AttemptPairs
  <2>3. Racing(Duplicate(k)) /\ att[Original(k)].stage \in Asks
    BY <2>2, <1>1
  <2>4. att[Original(k)].conn # att[Duplicate(k)].conn
    BY <2>3 DEF NeverTwiceOnOne, Asks
  <2> QED
    BY <2>2, <2>4, <1>1
<1>13. ASSUME NEW b \in Attempts, Racing(b)'
       PROVE  /\ b # a /\ Racing(b) /\ b[1] \in Chunks
              /\ winner'[b[1]] = winner[b[1]] /\ att'[b].ended = att[b].ended
  <2>1. b # a /\ Racing(b) /\ att'[b].ended = att[b].ended
    BY <1>13, <1>0, <1>1
  <2>2. b[1] \in Chunks /\ (b[1] = a[1] => Other(a) = b)
    BY <2>1, AttemptPairs
  <2> QED
    BY <2>1, <2>2, <1>3
<1>14. WinnersWrote'
  BY <1>2, <1>3, <1>13 DEF WinnersWrote
<1>15. LosersAreTold'
  BY <1>2, <1>5, <1>13 DEF LosersAreTold
<1>16. ChunksAreHeld'
  <2> SUFFICES ASSUME ~failed', NEW k \in Chunks, k \notin todo, text[k] = "none"
               PROVE  Racing(Original(k))'
    BY <1>2, <1>4 DEF ChunksAreHeld
  <2>1. /\ failed' = failed
        /\ a = Original(a[1]) => text[a[1]] # "none"
    BY DEF Throws
  <2>2. Racing(Original(k))
    BY <2>1, <1>4 DEF ChunksAreHeld
  <2>3. Original(k) \in Attempts \ {a}
    BY <2>1, AttemptPairs
  <2> QED
    BY <2>2, <2>3, <1>1
<1>17. FailureAborts' /\ SavedIsWritten'
  BY <1>2, <1>4, <1>5 DEF FailureAborts, SavedIsWritten
<1> QED
  BY <1>6, <1>7, <1>8, <1>11, <1>12, <1>14, <1>15, <1>16, <1>17

LEMMA TakesRace ==
  ASSUME Inv, NEW a \in Attempts, TakesSlot(a)
  PROVE  RaceInv'
<1> USE DEF Inv
<1>1. att[a].stage \in {"ready", "woken"} /\ UNCHANGED <<runVars, todo, winner, file, last>>
  BY DEF TakesSlot, OnlyAttempts
<1>2. PICK new : /\ att' = [att EXCEPT ![a] = new]
                 /\ new.stage # "off" /\ new.conn = att[a].conn
                 /\ new.ended = att[a].ended
  <2>1. RaceOK
    BY DEF GateInv
  <2>2. CASE HasRoom(att[a].conn)
    <3>1. PICK m : att' = [att EXCEPT ![a].stage = "call", ![a].crowded = m]
      BY <2>2 DEF TakesSlot
    <3>2. PICK new : new = [att[a] EXCEPT !.stage = "call", !.crowded = m]
      OBVIOUS
    <3>3. att' = [att EXCEPT ![a] = new]
      BY <2>1, <3>1, <3>2 DEF RaceOK
    <3>4. new.stage = "call" /\ new.conn = att[a].conn /\ new.ended = att[a].ended
      BY <2>1, <3>2 DEF RaceOK, AttemptStates
    <3> QED
      BY <3>3, <3>4
  <2>3. CASE ~HasRoom(att[a].conn)
    <3>1. att' = [att EXCEPT ![a].stage = "gate"]
      BY <2>3 DEF TakesSlot
    <3>2. PICK new : new = [att[a] EXCEPT !.stage = "gate"]
      OBVIOUS
    <3>3. att' = [att EXCEPT ![a] = new]
      BY <2>1, <3>1, <3>2 DEF RaceOK
    <3>4. new.stage = "gate" /\ new.conn = att[a].conn /\ new.ended = att[a].ended
      BY <2>1, <3>2 DEF RaceOK, AttemptStates
    <3> QED
      BY <3>3, <3>4
  <2> QED
    BY <2>2, <2>3
<1>3. att'[a] = new /\ KeepsOthers(a)
  BY <1>2, AloneKeeps DEF GateInv
<1>4. Racing(a) /\ Racing(a)' /\ att[a].stage \in Asks
  BY <1>1, <1>2, <1>3 DEF Racing, Asks
<1>5. a[1] \in Chunks /\ a \in {Original(a[1]), Duplicate(a[1])}
  BY AttemptPairs
<1>6. a = Original(a[1]) =>
        /\ last[a[1]] = att[a].conn
        /\ Racing(Duplicate(a[1])) => att[a].conn # att[Duplicate(a[1])].conn
  BY <1>4, <1>5 DEF RaceInv, RecordKnowsConn, NeverTwiceOnOne, Asks
<1> QED
  BY <1>1, <1>2, <1>3, <1>4, <1>5, <1>6, GoesOn

LEMMA AnswersRace ==
  ASSUME Inv, NEW a \in Attempts,
         CallAnswers(a) \/ \E k \in Chunks : a = Original(k) /\ Overflows(k)
  PROVE  RaceInv'
<1> USE DEF Inv
<1>1. att[a] \in AttemptStates /\ RaceOK
  BY DEF GateInv, RaceOK
<1>2. /\ att[a].stage = "call" /\ UNCHANGED <<runVars, todo, winner, file, last>>
  BY DEF CallAnswers, Overflows, OnlyAttempts
<1>3. a[1] \in Chunks /\ a \in {Original(a[1]), Duplicate(a[1])}
  BY AttemptPairs
<1>4. PICK new \in AttemptStates :
        /\ Releases(a, new) /\ new.conn = att[a].conn /\ new.ended = att[a].ended
        /\ new.stage \in {"claim", "full"}
  <2>1. CASE CallAnswers(a)
    BY <1>1, <2>1, AnsweredState DEF CallAnswers
  <2>2. CASE \E k \in Chunks : a = Original(k) /\ Overflows(k)
    <3>1. PICK new : new = [att[a] EXCEPT !.stage = "full", !.crowded = FALSE, !.left = {}]
      OBVIOUS
    <3>2. Releases(a, new)
      BY <2>2, <3>1 DEF Overflows
    <3>3. /\ new \in AttemptStates /\ new.stage = "full"
          /\ new.conn = att[a].conn /\ new.ended = att[a].ended
      BY <1>1, <3>1 DEF AttemptStates, Stages
    <3> QED
      BY <3>2, <3>3
  <2> QED
    BY <2>1, <2>2
<1>5. att'[a] = new /\ KeepsOthers(a)
  BY <1>2, <1>4, ReleaseKeeps
<1>6. Racing(a) /\ Racing(a)' /\ att'[a].stage \notin Asks
  BY <1>2, <1>4, <1>5 DEF Racing, Asks
<1> QED
  BY <1>2, <1>3, <1>4, <1>5, <1>6, GoesOn

LEMMA CallFailsRace ==
  ASSUME Inv, NEW k \in Chunks, CallFails(k)
  PROVE  RaceInv'
<1> USE DEF Inv
<1>1. PICK a \in Attempts : a = Original(k) /\ a[1] = k
  BY AttemptPairs
<1>2. PICK new \in Onward(k, att[a], limit) :
        GivesSlotBack(a, new) /\ OnConnection(k, new)
  BY <1>1 DEF CallFails
<1>3. att[a].stage \in {"ready", "call"} /\ UNCHANGED <<runVars, todo, winner, file>>
  BY <1>1 DEF CallFails, Failing, OnlyAttempts
<1>4. att[a] \in AttemptStates /\ limit \in [Conns -> Nat] /\ RaceOK
  BY DEF GateInv, RaceOK, GatesOK
<1>5. /\ new \in AttemptStates /\ new.ended = att[a].ended
      /\ new.stage \in {"hear", "ready"}
      /\ new.stage = "ready" => new.conn # att[Duplicate(k)].conn
  BY <1>4, OnwardState
<1>6. att'[a] = new /\ KeepsOthers(a)
  BY <1>2, <1>5, BackKeeps
<1>7. Racing(a) /\ Racing(a)'
  BY <1>3, <1>5, <1>6 DEF Racing
<1>8. /\ \A l \in Chunks \ {k} : last'[l] = last[l]
      /\ new.stage = "ready" => last'[k] = new.conn
  BY <1>2, <1>4 DEF OnConnection, RaceOK
<1> QED
  BY <1>1, <1>3, <1>5, <1>6, <1>7, <1>8, GoesOn DEF Asks

LEMMA StopsRace ==
  ASSUME Inv, NEW a \in Attempts, Stops(a)
  PROVE  RaceInv'
<1> USE DEF Inv
<1>1. /\ att[a].stage \in {"ready", "gate", "woken", "call", "claim"} /\ Ended(a)
      /\ UNCHANGED <<phase, todo, file>>
      /\ \/ Throws /\ UNCHANGED record
         \/ /\ Forgets(a) /\ UNCHANGED <<aborted, failed>>
            /\ ~(a[2] = "original" /\ aborted)
  BY DEF Stops
<1>2. GateInv /\ RaceOK /\ GatesOK /\ AskersHaveOne /\ LinesAreWaiters
  BY DEF GateInv
<1>3. Racing(a)
  BY <1>1 DEF Racing
<1>4. att'[a] = Off /\ KeepsOthers(a)
  <2>1. CASE att[a].stage = "call"
    <3>1. Releases(a, Off)
      BY <2>1 DEF Stops
    <3> QED
      BY <2>1, <3>1, <1>2, OffState, ReleaseKeeps
  <2>2. CASE att' = [att EXCEPT ![a] = Off]
    BY <2>2, <1>2, AloneKeeps
  <2>3. CASE /\ att[a].stage \in {"ready", "woken"}
             /\ att' = [Woken(att, att[a].conn) EXCEPT ![a] = Off]
    <3>1. PICK c \in Conns : c = att[a].conn
      BY <2>3, <1>2 DEF AskersHaveOne, Asks
    <3>2. /\ att'[a] = Off
          /\ \A b \in Attempts \ {a} :
               att'[b] = IF b \in NextInLine(c)
                         THEN [att[b] EXCEPT !.stage = "woken"] ELSE att[b]
      BY <2>3, <3>1, <1>2, WokenStates
    <3>3. \A b \in NextInLine(c) : att[b].stage = "gate"
      BY <1>2, WokenWereInLine
    <3>4. ASSUME NEW b \in Attempts \ {a}
          PROVE  /\ att'[b].conn = att[b].conn /\ att'[b].ended = att[b].ended
                 /\ \/ att'[b].stage = att[b].stage
                    \/ b \in NextInLine(c) /\ att'[b].stage = "woken"
      BY <3>2, <1>2 DEF RaceOK, AttemptStates
    <3> QED
      BY <3>2, <3>3, <3>4 DEF KeepsOthers
  <2> QED
    BY <2>1, <2>2, <2>3 DEF Stops
<1>5. a = Original(a[1]) /\ ~aborted => text[a[1]] # "none"
  BY <1>1, <1>3 DEF Ended, RaceInv, LosersAreTold
<1>6. a = Original(a[1]) => a[2] = "original"
  BY AttemptPairs
<1> QED
  BY <1>1, <1>2, <1>3, <1>4, <1>5, <1>6, Leaves

LEMMA DuplicateFailsRace ==
  ASSUME Inv, NEW k \in Chunks, DuplicateFails(k)
  PROVE  RaceInv'
<1> USE DEF Inv
<1>1. PICK a \in Attempts : a = Duplicate(k) /\ a # Original(a[1])
  BY AttemptPairs
<1>2. /\ att[a].stage \in {"ready", "call"} /\ GivesSlotBack(a, Off) /\ Forgets(a)
      /\ UNCHANGED <<runVars, todo, file>>
  BY <1>1 DEF DuplicateFails, Failing
<1>3. att'[a] = Off /\ KeepsOthers(a)
  BY <1>2, OffState, BackKeeps
<1>4. Racing(a) /\ RaceOK
  BY <1>2 DEF Racing, GateInv
<1>5. UNCHANGED <<phase, aborted, failed>>
  BY <1>2 DEF runVars
<1> QED
  BY <1>1, <1>2, <1>3, <1>4, <1>5, Leaves

\* An attempt that finds its chunk won, quits.
LEMMA QuitsRace ==
  ASSUME Inv, NEW a \in Attempts, Racing(a), Quits(a), winner[a[1]] # Nobody,
         UNCHANGED <<phase, todo, file>>
  PROVE  RaceInv'
<1> USE DEF Inv
<1>1. RaceOK /\ a[1] \in Chunks
  BY AttemptPairs DEF GateInv
<1>2. att'[a] = Off /\ KeepsOthers(a) /\ Forgets(a) /\ UNCHANGED <<aborted, failed>>
  BY <1>1, AloneKeeps DEF Quits
<1>3. text[a[1]] # "none"
  BY <1>1 DEF RaceInv, WinnersWrote
<1> QED
  BY <1>1, <1>2, <1>3, Leaves

LEMMA RequeuesRace ==
  ASSUME Inv, NEW k \in Chunks, Requeues(k)
  PROVE  RaceInv'
<1> USE DEF Inv
<1>1. PICK a \in Attempts : a = Original(k) /\ a[1] = k
  BY AttemptPairs
<1>2. att[a].stage = "full" /\ UNCHANGED <<phase, todo, file>> /\ Racing(a)
  BY <1>1 DEF Requeues, Racing
<1>3. RaceOK /\ GatesOK
  BY DEF GateInv
<1>4. limit' \in [Conns -> Nat]
  BY <1>3, LimitShrinks DEF Requeues
<1>5. CASE RunsAgain(k)
  <2>1. PICK usable \in SUBSET Conns :
          \E new \in Onward(k, Fresh(usable), limit') :
            att' = [att EXCEPT ![a] = new] /\ OnConnection(k, new)
    BY <1>1, <1>5 DEF Requeues
  <2>2. PICK new \in Onward(k, Fresh(usable), limit') :
          att' = [att EXCEPT ![a] = new] /\ OnConnection(k, new)
    BY <2>1
  <2>3. PICK x \in AttemptStates : x = Fresh(usable) /\ ~x.ended
    BY FreshState
  <2>4. PICK limits \in [Conns -> Nat] : limits = limit'
    BY <1>4
  <2>5. new \in Onward(k, x, limits)
    BY <2>2, <2>3, <2>4
  <2>6. /\ new.ended = x.ended /\ new.stage \in {"hear", "ready"}
        /\ new.stage = "ready" => new.conn # att[Duplicate(k)].conn
    BY <2>5, OnwardState
  <2>7. att'[a] = new /\ KeepsOthers(a)
    BY <1>3, <2>2, AloneKeeps
  <2>8. Racing(a)'
    BY <2>7, <2>6 DEF Racing
  <2>9. /\ \A l \in Chunks \ {k} : last'[l] = last[l]
        /\ new.stage = "ready" => last'[k] = new.conn
    BY <1>3, <2>2 DEF OnConnection, RaceOK
  <2>10. winner[k] = Nobody /\ UNCHANGED <<runVars, winner>>
    BY <1>2, <1>5 DEF Requeues, RunsAgain, runVars
  <2> QED
    BY <1>1, <1>2, <2>3, <2>7, <2>8, <2>9, <2>10, <2>6, GoesOn DEF Asks
<1>6. CASE ~RunsAgain(k)
  <2>1. Quits(a) /\ winner[a[1]] # Nobody
    BY <1>1, <1>6 DEF Requeues, RunsAgain
  <2> QED
    BY <1>2, <2>1, QuitsRace
<1> QED
  BY <1>5, <1>6

LEMMA HearsRace ==
  ASSUME Inv, NEW k \in Chunks, Hears(k)
  PROVE  RaceInv'
<1> USE DEF Inv
<1>1. PICK a \in Attempts : a = Original(k) /\ a[1] = k
  BY AttemptPairs
<1>2. att[a].stage = "hear" /\ UNCHANGED <<phase, todo, file>> /\ Racing(a)
  BY <1>1 DEF Hears, Racing
<1>3. CASE winner[k] # Nobody
  BY <1>1, <1>2, <1>3, QuitsRace DEF Hears
<1>4. CASE winner[k] = Nobody
  <2>1. PICK st \in {"claim", "part", "lost"} : att' = [att EXCEPT ![a].stage = st]
    BY <1>1, <1>4 DEF Hears
  <2>2. PICK new : new = [att[a] EXCEPT !.stage = st]
    OBVIOUS
  <2>3. RaceOK
    BY DEF GateInv
  <2>4. new.stage = st /\ new.ended = att[a].ended
    BY <2>2, <2>3 DEF RaceOK, AttemptStates
  <2>5. att' = [att EXCEPT ![a] = new]
    BY <2>1, <2>2, <2>3 DEF RaceOK
  <2>6. att'[a] = new /\ KeepsOthers(a)
    BY <2>3, <2>5, AloneKeeps
  <2>7. UNCHANGED <<aborted, failed, record>>
    BY <1>4 DEF Hears
  <2>8. UNCHANGED <<runVars, winner, last>>
    BY <1>2, <2>7 DEF runVars, record
  <2>9. Racing(a)' /\ att'[a].stage \notin Asks
    BY <2>4, <2>6 DEF Racing, Asks
  <2> QED
    BY <1>1, <1>2, <2>4, <2>6, <2>8, <2>9, GoesOn
<1> QED
  BY <1>3, <1>4

LEMMA LosesRace ==
  ASSUME Inv, NEW k \in Chunks, Loses(k)
  PROVE  RaceInv'
<1> USE DEF Inv
<1>1. PICK a \in Attempts : a = Original(k) /\ a[1] = k
  BY AttemptPairs
<1>2. att[a].stage = "lost" /\ UNCHANGED <<phase, todo, file>> /\ Racing(a) /\ RaceOK
  BY <1>1 DEF Loses, Racing, GateInv
<1>3. \/ att' = [att EXCEPT ![a] = Off] /\ Throws /\ UNCHANGED record
      \/ att[a].ended /\ Quits(a)
  BY <1>1 DEF Loses
<1>4. att[a].ended => text[a[1]] # "none"
  BY <1>2 DEF RaceInv, LosersAreTold
<1>5. att'[a] = Off /\ KeepsOthers(a)
  BY <1>2, <1>3, AloneKeeps DEF Quits
<1> QED
  BY <1>2, <1>3, <1>4, <1>5, Leaves DEF Quits

\* The write of an answer: the chunk has a winner, and the other attempt at it is
\* told, or there is none.
LEMMA WritesRace ==
  ASSUME Inv, NEW a \in Attempts, Claims(a), MayWin(a[1])
  PROVE  RaceInv'
<1> USE DEF Inv, RaceInv
<1>1. RaceOK /\ HasAnswer(a) /\ Writes(a) /\ UNCHANGED <<phase, todo, output>>
  BY DEF Claims, GateInv
<1>2. PICK k \in Chunks, o \in Attempts :
        k = a[1] /\ o = Other(a) /\ o # a /\ o[1] = k
  BY AttemptPairs
<1>3. \A b \in Attempts : b[1] = k => b \in {a, o}
  BY <1>2, AttemptPairs
<1>4. \A l \in Chunks : /\ Original(l) \in Attempts /\ Original(l)[1] = l
                        /\ Duplicate(l) \in Attempts /\ Duplicate(l)[1] = l
  BY AttemptPairs
<1>5. Racing(a) /\ phase = "work" /\ winner[k] = Nobody /\ text[k] = "none" /\ k \notin todo
  <2>1. Racing(a) /\ winner[k] = Nobody
    BY <1>1, <1>2, AnswerIsOut DEF Racing, MayWin
  <2>2. phase = "work" /\ text[k] = "none"
    BY <2>1, <1>2 DEF OnlyWhileWorking, WinnersWrote
  <2>3. k \notin todo
    BY <2>1, <1>2, AttemptPairs DEF TodoIsFresh
  <2> QED
    BY <2>1, <2>2, <2>3
<1>6. PICK w \in {"whole", "part"} : text' = [text EXCEPT ![k] = w]
  BY <1>1, <1>2 DEF Writes, Lines
<1>7. /\ text'[k] # "none" /\ \A l \in Chunks \ {k} : text'[l] = text[l]
      /\ text' \in [Chunks -> {"none", "part", "whole"}]
  BY <1>6 DEF FileOK
<1>8. PICK e \in BOOLEAN : /\ e <=> Racing(o)
                           /\ att' = [att EXCEPT ![a] = Off, ![o].ended = e]
  BY <1>1, <1>2 DEF Writes, Racing
<1>9. /\ att'[a] = Off /\ att'[o] = [att[o] EXCEPT !.ended = e]
      /\ \A b \in Attempts \ {a, o} : att'[b] = att[b]
  <2>1. PICK new : new = [att[o] EXCEPT !.ended = e]
    OBVIOUS
  <2>2. att' = [[att EXCEPT ![a] = Off] EXCEPT ![o] = new]
    BY <1>1, <1>2, <1>8, <2>1 DEF RaceOK
  <2> QED
    BY <2>1, <2>2, <1>1, <1>2 DEF RaceOK
<1>10. /\ att'[o].stage = att[o].stage /\ att'[o].conn = att[o].conn
       /\ Racing(o) => att'[o].ended
  <2>1. att[o] \in AttemptStates
    BY <1>1 DEF RaceOK
  <2>2. att'[o].stage = att[o].stage /\ att'[o].conn = att[o].conn /\ att'[o].ended = e
    BY <1>9, <2>1 DEF AttemptStates
  <2> QED
    BY <2>2, <1>8
<1>11. /\ ~Racing(a)' /\ Off.stage = "off"
       /\ \A b \in Attempts \ {a} : /\ Racing(b)' <=> Racing(b)
                                    /\ att'[b].stage = att[b].stage
                                    /\ att'[b].conn = att[b].conn
  BY <1>9, <1>10, OffState DEF Racing
<1>12. /\ \A l \in Chunks \ {k} : winner'[l] = winner[l] /\ last'[l] = last[l]
       /\ \/ winner'[k] # Nobody /\ last'[k] = last[k]
          \/ ~Racing(o) /\ winner'[k] = Nobody
  <2>1. CASE Wins(a)
    BY <2>1, <1>1, <1>2, SplitAssumption DEF Wins, RaceOK, Attempts
  <2>2. CASE Forgets(a) /\ ~Racing(o)
    BY <2>2, <1>1, <1>2 DEF Forgets, RaceOK
  <2> QED
    BY <2>1, <2>2, <1>1, <1>2 DEF Writes
<1>13. \/ aborted' = aborted /\ failed' = failed
       \/ aborted' = TRUE /\ failed' = TRUE
  BY <1>1 DEF Writes, Throws
<1>14. /\ saved' \subseteq Chunks
       /\ \A l \in saved' : text'[l] = "whole"
  <2>1. saved' \in {saved, Progress(text')}
    BY <1>1 DEF Writes
  <2>2. \A l \in saved : l \in Chunks /\ text[l] = "whole" /\ l # k
    BY <1>5 DEF SavedIsWritten, FileOK
  <2> QED
    BY <2>1, <2>2, <1>7 DEF Progress
<1>15. FileOK'
  BY <1>1, <1>7, <1>13, <1>14 DEF FileOK
<1>16. OnlyWhileWorking' /\ SavedIsWritten'
  BY <1>1, <1>5, <1>14 DEF OnlyWhileWorking, SavedIsWritten
<1>17. FailureAborts'
  <2>1. phase' = "work"
    BY <1>1, <1>5
  <2> QED
    BY <2>1, <1>13 DEF FailureAborts
<1>18. TodoIsFresh'
  <2> SUFFICES ASSUME NEW l \in todo
               PROVE  /\ ~Racing(Original(l))' /\ ~Racing(Duplicate(l))'
                      /\ winner'[l] = Nobody /\ text'[l] = "none"
    BY <1>1 DEF TodoIsFresh
  <2>1. l \in Chunks \ {k}
    BY <1>5 DEF FileOK
  <2>2. Original(l) \in Attempts \ {a} /\ Duplicate(l) \in Attempts \ {a}
    BY <2>1, <1>2, <1>4
  <2> QED
    BY <2>1, <2>2, <1>7, <1>11, <1>12 DEF TodoIsFresh
<1>19. \A l \in Chunks : Racing(Original(l))' => /\ Original(l) \in Attempts \ {a}
                                                 /\ last'[l] = last[l]
  <2> SUFFICES ASSUME NEW l \in Chunks, Racing(Original(l))'
               PROVE  Original(l) \in Attempts \ {a} /\ last'[l] = last[l]
    OBVIOUS
  <2>1. Original(l) \in Attempts \ {a} /\ Racing(Original(l))
    BY <1>4, <1>11
  <2>2. l = k => Original(l) = o
    BY <2>1, <1>3, <1>4
  <2> QED
    BY <2>1, <2>2, <1>12
<1>20. RecordKnowsConn'
  <2> SUFFICES ASSUME NEW l \in Chunks, att'[Original(l)].stage \in Asks
               PROVE  last'[l] = att'[Original(l)].conn
    BY DEF RecordKnowsConn
  <2>1. Racing(Original(l))'
    BY DEF Racing, Asks
  <2>2. Original(l) \in Attempts \ {a} /\ last'[l] = last[l]
    BY <2>1, <1>19
  <2> QED
    BY <2>2, <1>11 DEF RecordKnowsConn
<1>21. NeverTwiceOnOne'
  <2> SUFFICES ASSUME NEW l \in Chunks, Racing(Duplicate(l))',
                      att'[Original(l)].stage \in Asks
               PROVE  att'[Original(l)].conn # att'[Duplicate(l)].conn
    BY DEF NeverTwiceOnOne, Asks
  <2>1. Racing(Original(l))'
    BY DEF Racing, Asks
  <2>2. Original(l) \in Attempts \ {a} /\ Duplicate(l) \in Attempts \ {a}
    BY <2>1, <1>4, <1>11
  <2>3. Racing(Duplicate(l)) /\ att[Original(l)].stage \in Asks
    BY <2>2, <1>11
  <2>4. att[Original(l)].conn # att[Duplicate(l)].conn
    BY <2>3 DEF NeverTwiceOnOne, Asks
  <2> QED
    BY <2>2, <2>4, <1>11
<1>22. ASSUME NEW b \in Attempts, Racing(b)'
       PROVE  /\ b # a /\ Racing(b) /\ b[1] \in Chunks
              /\ b[1] = k => /\ b = o /\ winner'[k] # Nobody /\ att'[b].ended
              /\ b[1] # k => /\ winner'[b[1]] = winner[b[1]] /\ att'[b] = att[b]
                             /\ text'[b[1]] = text[b[1]]
  <2>1. b # a /\ Racing(b)
    BY <1>22, <1>11
  <2>2. b[1] \in Chunks
    BY AttemptPairs
  <2>3. b[1] = k => b = o /\ Racing(o)
    BY <2>1, <1>3
  <2>4. b[1] # k => b \in Attempts \ {a, o}
    BY <1>2
  <2> QED
    BY <2>1, <2>2, <2>3, <2>4, <1>7, <1>9, <1>10, <1>12
<1>23. WinnersWrote'
  <2>1. \A l \in Chunks : winner'[l] # Nobody => text'[l] # "none"
    BY <1>7, <1>12 DEF WinnersWrote
  <2>2. \A b \in Attempts : Racing(b)' /\ text'[b[1]] # "none" => winner'[b[1]] # Nobody
    BY <1>22 DEF WinnersWrote
  <2> QED
    BY <2>1, <2>2 DEF WinnersWrote
<1>24. LosersAreTold'
  <2> SUFFICES ASSUME NEW b \in Attempts, Racing(b)'
               PROVE  /\ att'[b].ended => text'[b[1]] # "none"
                      /\ winner'[b[1]] # Nobody /\ ~aborted' => att'[b].ended
    BY DEF LosersAreTold
  <2>1. CASE b[1] = k
    BY <2>1, <1>7, <1>22
  <2>2. CASE b[1] # k
    BY <2>2, <1>13, <1>22 DEF LosersAreTold
  <2> QED
    BY <2>1, <2>2
<1>25. ChunksAreHeld'
  <2> SUFFICES ASSUME ~failed', NEW l \in Chunks, l \notin todo, text'[l] = "none"
               PROVE  Racing(Original(l))'
    BY <1>1, <1>5 DEF ChunksAreHeld
  <2>1. ~failed /\ l # k /\ text[l] = "none"
    BY <1>7, <1>13
  <2>2. Racing(Original(l))
    BY <2>1, <1>5 DEF ChunksAreHeld
  <2>3. Original(l) \in Attempts \ {a}
    BY <2>1, <1>2, <1>4
  <2> QED
    BY <2>2, <2>3, <1>11
<1> QED
  BY <1>15, <1>16, <1>17, <1>18, <1>20, <1>21, <1>23, <1>24, <1>25

LEMMA ClaimsRace ==
  ASSUME Inv, NEW a \in Attempts, Claims(a)
  PROVE  RaceInv'
<1>1. CASE MayWin(a[1])
  BY <1>1, WritesRace
<1>2. CASE ~MayWin(a[1])
  <2>1. /\ Racing(a) /\ Quits(a) /\ winner[a[1]] # Nobody
        /\ UNCHANGED <<phase, todo, file>>
    BY <1>2, AnswerIsOut DEF Claims, MayWin, Racing, file
  <2> QED
    BY <2>1, QuitsRace
<1> QED
  BY <1>1, <1>2

\* An attempt joins, at a chunk that is not written.
LEMMA Joins ==
  ASSUME RaceInv, NEW a \in Attempts, ~Racing(a), Racing(a)', KeepsOthers(a),
         phase = "work", UNCHANGED <<runVars, winner, file>>, ~att'[a].ended,
         todo' = todo \ {a[1]}, a[1] \in todo => a = Original(a[1]),
         winner[a[1]] = Nobody, text[a[1]] = "none",
         \A k \in Chunks \ {a[1]} : last'[k] = last[k],
         \/ /\ a = Duplicate(a[1]) /\ last' = last
            /\ att[Original(a[1])].stage \in Asks =>
                 att[Original(a[1])].conn # att'[a].conn
         \/ /\ a = Original(a[1])
            /\ att'[a].stage \in Asks =>
                 /\ last'[a[1]] = att'[a].conn
                 /\ att'[a].conn # att[Duplicate(a[1])].conn
  PROVE  RaceInv'
<1> USE DEF RaceInv
<1>1. PICK k \in Chunks : k = a[1]
  BY AttemptPairs
<1>2. /\ phase' = phase /\ aborted' = aborted /\ failed' = failed
      /\ winner' = winner /\ text' = text /\ saved' = saved /\ output' = output
  BY DEF runVars, file
<1>3. \A b \in Attempts \ {a} : /\ Racing(b)' <=> Racing(b)
                                /\ att'[b].stage \in Asks <=> att[b].stage \in Asks
                                /\ att'[b].conn = att[b].conn
                                /\ att'[b].ended = att[b].ended
  BY OthersRace
<1>4. \A l \in Chunks \ {k} : Original(l) \in Attempts \ {a} /\ Duplicate(l) \in Attempts \ {a}
  BY <1>1, AttemptPairs
<1>5. FileOK'
  BY <1>2 DEF FileOK
<1>6. OnlyWhileWorking' /\ FailureAborts' /\ SavedIsWritten'
  BY <1>2 DEF OnlyWhileWorking, FailureAborts, SavedIsWritten
<1>7. TodoIsFresh'
  BY <1>1, <1>2, <1>3, <1>4 DEF TodoIsFresh, FileOK
<1>8. /\ att'[Original(k)].stage \in Asks => last'[k] = att'[Original(k)].conn
      /\ att'[Original(k)].stage \in Asks =>
           att'[Original(k)].conn # att'[Duplicate(k)].conn
  <2>1. CASE a = Duplicate(k)
    <3>1. /\ Original(k) \in Attempts \ {a} /\ last' = last
          /\ att[Original(k)].stage \in Asks => att[Original(k)].conn # att'[a].conn
      BY <2>1, <1>1, AttemptPairs
    <3> QED
      BY <2>1, <3>1, <1>3 DEF RecordKnowsConn
  <2>2. CASE a = Original(k)
    <3>1. Duplicate(k) \in Attempts \ {a} /\ a # Duplicate(k)
      BY <2>2, AttemptPairs
    <3> QED
      BY <2>2, <3>1, <1>1, <1>3
  <2> QED
    BY <2>1, <2>2, <1>1
<1>9. RecordKnowsConn'
  <2> SUFFICES ASSUME NEW l \in Chunks, att'[Original(l)].stage \in Asks
               PROVE  last'[l] = att'[Original(l)].conn
    BY DEF RecordKnowsConn
  <2>1. CASE l = k
    BY <2>1, <1>8
  <2>2. CASE l # k
    BY <2>2, <1>1, <1>3, <1>4 DEF RecordKnowsConn
  <2> QED
    BY <2>1, <2>2
<1>10. NeverTwiceOnOne'
  <2> SUFFICES ASSUME NEW l \in Chunks, Racing(Duplicate(l))',
                      att'[Original(l)].stage \in Asks
               PROVE  att'[Original(l)].conn # att'[Duplicate(l)].conn
    BY DEF NeverTwiceOnOne, Asks
  <2>1. CASE l = k
    BY <2>1, <1>8
  <2>2. CASE l # k
    <3>1. Racing(Duplicate(l)) /\ att[Original(l)].stage \in Asks
      BY <2>2, <1>3, <1>4
    <3>2. att[Original(l)].conn # att[Duplicate(l)].conn
      BY <3>1 DEF NeverTwiceOnOne, Asks
    <3> QED
      BY <2>2, <3>2, <1>3, <1>4
  <2> QED
    BY <2>1, <2>2
<1>11. WinnersWrote'
  BY <1>1, <1>2, <1>3 DEF WinnersWrote
<1>12. LosersAreTold'
  <2> SUFFICES ASSUME NEW b \in Attempts, Racing(b)'
               PROVE  /\ att'[b].ended => text[b[1]] # "none"
                      /\ winner[b[1]] # Nobody /\ ~aborted => att'[b].ended
    BY <1>2 DEF LosersAreTold
  <2>1. CASE b = a
    BY <2>1
  <2>2. CASE b # a
    BY <2>2, <1>3 DEF LosersAreTold
  <2> QED
    BY <2>1, <2>2
<1>13. ChunksAreHeld'
  <2> SUFFICES ASSUME ~failed, NEW l \in Chunks, l \notin todo', text[l] = "none",
                      ~Racing(Original(l))'
               PROVE  FALSE
    BY <1>2 DEF ChunksAreHeld
  <2>1. CASE l \in todo
    <3>1. a = Original(l)
      BY <2>1
    <3> QED
      BY <3>1
  <2>2. CASE l \notin todo
    <3>1. Racing(Original(l))
      BY <2>2 DEF ChunksAreHeld
    <3>2. Original(l) \in Attempts \ {a}
      BY <3>1, AttemptPairs
    <3> QED
      BY <3>1, <3>2, <1>3
  <2> QED
    BY <2>1, <2>2
<1> QED
  BY <1>5, <1>6, <1>7, <1>9, <1>10, <1>11, <1>12, <1>13

LEMMA PicksRace ==
  ASSUME Inv, Picks
  PROVE  RaceInv'
<1> USE DEF Inv
<1>1. RaceOK /\ GatesOK /\ FileOK
  BY DEF GateInv, RaceInv
<1>2. PICK k \in todo, usable \in SUBSET Conns :
        /\ todo' = todo \ {k}
        /\ \E new \in Onward(k, Fresh(usable), limit) :
             att' = [att EXCEPT ![Original(k)] = new] /\ OnConnection(k, new)
  BY <1>1, PicksOne
<1>3. PICK new \in Onward(k, Fresh(usable), limit) :
        att' = [att EXCEPT ![Original(k)] = new] /\ OnConnection(k, new)
  BY <1>2
<1>4. UNCHANGED <<runVars, winner, file>>
  BY DEF Picks
<1>5. PICK x \in AttemptStates : x = Fresh(usable) /\ ~x.ended
  BY FreshState
<1>6. limit \in [Conns -> Nat] /\ new \in Onward(k, x, limit)
  BY <1>1, <1>5 DEF GatesOK
<1>7. /\ new.ended = x.ended /\ new.stage \in {"hear", "ready"}
      /\ new.stage = "ready" => new.conn # att[Duplicate(k)].conn
  BY <1>6, OnwardState
<1>8. PICK a \in Attempts : a = Original(k) /\ a[1] = k /\ k \in Chunks
  BY <1>1, AttemptPairs DEF FileOK
<1>9. att'[a] = new /\ KeepsOthers(a)
  BY <1>1, <1>3, <1>8, AloneKeeps
<1>10. Racing(a)' /\ ~att'[a].ended
  BY <1>5, <1>7, <1>9 DEF Racing
<1>11. ~Racing(a) /\ winner[k] = Nobody /\ text[k] = "none" /\ phase = "work"
  BY <1>8 DEF RaceInv, TodoIsFresh, OnlyWhileWorking
<1>12. /\ \A l \in Chunks \ {k} : last'[l] = last[l]
       /\ new.stage = "ready" => last'[k] = new.conn
  BY <1>1, <1>3, <1>8 DEF OnConnection, RaceOK
<1>13. att'[a].stage \in Asks => /\ last'[k] = att'[a].conn
                                 /\ att'[a].conn # att[Duplicate(k)].conn
  BY <1>7, <1>9, <1>12 DEF Asks
<1> QED
  BY <1>2, <1>4, <1>8, <1>9, <1>10, <1>11, <1>12, <1>13, Joins DEF RaceInv

LEMMA SendsRace ==
  ASSUME Inv, SendsDuplicate
  PROVE  RaceInv'
<1> USE DEF Inv
<1>1. RaceOK /\ todo = {}
  BY DEF GateInv, SendsDuplicate
<1>2. PICK k \in Chunks, c \in Conns :
        /\ MayDuplicate(k) /\ c \in Targets(k)
        /\ att' = [att EXCEPT ![Duplicate(k)] = [Off EXCEPT !.stage = "ready", !.conn = c]]
  BY DEF SendsDuplicate, Targets
<1>3. UNCHANGED <<runVars, winner, file>> /\ todo' = todo /\ last' = last
  BY DEF SendsDuplicate
<1>4. PICK new : new = [Off EXCEPT !.stage = "ready", !.conn = c]
  OBVIOUS
<1>5. new.stage = "ready" /\ new.conn = c /\ ~new.ended
  BY <1>4 DEF Off
<1>6. PICK a \in Attempts : a = Duplicate(k) /\ a[1] = k
  BY AttemptPairs
<1>7. att'[a] = new /\ KeepsOthers(a)
  BY <1>1, <1>2, <1>4, <1>6, AloneKeeps
<1>8. Racing(Original(k)) /\ winner[k] = Nobody /\ ~Racing(a) /\ c # last[k]
  BY <1>2, <1>6 DEF MayDuplicate, DuplicateIsOver, Targets
<1>9. text[k] = "none" /\ phase = "work"
  BY <1>8, AttemptPairs DEF RaceInv, WinnersWrote, OnlyWhileWorking
<1>10. Racing(a)' /\ ~att'[a].ended /\ att'[a].conn = c
  BY <1>5, <1>7 DEF Racing
<1>11. att[Original(k)].stage \in Asks => att[Original(k)].conn # att'[a].conn
  BY <1>8, <1>10 DEF RaceInv, RecordKnowsConn
<1> QED
  BY <1>1, <1>3, <1>6, <1>7, <1>8, <1>9, <1>10, <1>11, Joins

\* A run that begins, or is over in memory.
LEMMA BlankRace ==
  ASSUME Blank, FileOK', phase' # "work" => todo' = {}, phase' # "sweep",
         \A k \in todo' : text'[k] = "none",
         phase' = "work" => \A k \in Chunks : k \in todo' \/ text'[k] = "whole",
         phase' = "work" => \A k \in saved' : text'[k] = "whole"
  PROVE  RaceInv'
<1>1. /\ aborted' = FALSE /\ failed' = FALSE
      /\ \A k \in Chunks : winner'[k] = Nobody
      /\ \A a \in Attempts : att'[a] = Off /\ ~Racing(a)' /\ att'[a].stage = "off"
  BY OffState DEF Blank, Racing
<1>2. todo' \subseteq Chunks
  BY DEF FileOK
<1>3. OnlyWhileWorking' /\ FailureAborts' /\ SavedIsWritten'
  BY <1>1 DEF OnlyWhileWorking, FailureAborts, SavedIsWritten
<1>4. TodoIsFresh'
  BY <1>1, <1>2, AttemptPairs DEF TodoIsFresh
<1>5. RecordKnowsConn' /\ NeverTwiceOnOne'
  BY <1>1, AttemptPairs DEF RecordKnowsConn, NeverTwiceOnOne, Asks
<1>6. WinnersWrote' /\ LosersAreTold'
  BY <1>1 DEF WinnersWrote, LosersAreTold
<1>7. ChunksAreHeld'
  BY DEF ChunksAreHeld
<1> QED
  BY <1>3, <1>4, <1>5, <1>6, <1>7 DEF RaceInv

LEMMA StartRace ==
  ASSUME Inv, Start
  PROVE  RaceInv'
<1>1. FileOK
  BY DEF Inv, RaceInv
<1>2. /\ phase' = "work" /\ Blank /\ saved' \in {saved, {}}
      /\ text' = [k \in Chunks |-> IF k \in saved' THEN "whole" ELSE "none"]
      /\ todo' = Chunks \ saved' /\ output' = output
  BY DEF Start
<1>3. FileOK'
  BY <1>1, <1>2 DEF FileOK, Blank
<1>4. \A k \in saved' : k \in Chunks /\ text'[k] = "whole"
  BY <1>1, <1>2 DEF FileOK
<1>5. \A k \in Chunks : text'[k] = IF k \in saved' THEN "whole" ELSE "none"
  BY <1>2
<1> QED
  BY <1>2, <1>3, <1>4, <1>5, BlankRace

LEMMA GivesUpRace ==
  ASSUME Inv, GivesUp
  PROVE  RaceInv'
<1>1. FileOK
  BY DEF Inv, RaceInv
<1>2. /\ phase' = "off" /\ Blank /\ todo' = {} /\ UNCHANGED <<saved, output>>
      /\ text' = [k \in Chunks |-> "none"]
  BY DEF GivesUp
<1>3. FileOK'
  BY <1>1, <1>2 DEF FileOK, Blank
<1> QED
  BY <1>2, <1>3, BlankRace

\* The end of the work, and of the sweep; a stop.
LEMMA PhaseRace ==
  ASSUME Inv, UNCHANGED <<failed, todo, att, record>>,
         \/ /\ phase = "work" /\ phase' = "sweep" /\ ~failed /\ todo = {}
            /\ \A a \in Attempts : ~Racing(a)
            /\ UNCHANGED <<aborted, file>>
         \/ /\ phase = "sweep" /\ phase' = "done" /\ output' = TRUE /\ saved' = {}
            /\ text' = [k \in Chunks |-> "whole"] /\ UNCHANGED aborted
         \/ aborted' = TRUE /\ UNCHANGED <<phase, file>>
  PROVE  RaceInv'
<1> USE DEF Inv, RaceInv
<1>1. /\ failed' = failed /\ todo' = todo /\ att' = att /\ last' = last
      /\ winner' = winner
  BY DEF record
<1>2. \A a \in Attempts : Racing(a)' <=> Racing(a)
  BY <1>1 DEF Racing
<1>3. FileOK'
  BY <1>1 DEF FileOK, file
<1>4. RecordKnowsConn' /\ NeverTwiceOnOne'
  BY <1>1 DEF RecordKnowsConn, NeverTwiceOnOne, Racing
<1>5. CASE UNCHANGED file
  <2>1. text' = text /\ saved' = saved
    BY <1>5 DEF file
  <2>2. TodoIsFresh' /\ WinnersWrote'
    BY <1>1, <2>1 DEF TodoIsFresh, WinnersWrote, Racing
  <2>3. OnlyWhileWorking' /\ SavedIsWritten'
    BY <1>1, <2>1 DEF OnlyWhileWorking, SavedIsWritten, Racing
  <2>4. LosersAreTold'
    BY <1>1, <2>1 DEF LosersAreTold, Racing
  <2>5. ChunksAreHeld'
    BY <1>1, <2>1 DEF ChunksAreHeld, Racing
  <2>6. FailureAborts'
    BY <1>1 DEF FailureAborts
  <2> QED
    BY <1>3, <1>4, <2>2, <2>3, <2>4, <2>5, <2>6
<1>6. CASE phase = "sweep" /\ phase' = "done" /\ text' = [k \in Chunks |-> "whole"]
           /\ UNCHANGED aborted
  <2>1. todo = {} /\ ~failed /\ \A a \in Attempts : ~Racing(a)
    BY <1>6 DEF OnlyWhileWorking, FailureAborts
  <2>2. \A k \in Chunks : text'[k] # "none"
    BY <1>6
  <2>3. TodoIsFresh' /\ WinnersWrote' /\ LosersAreTold'
    BY <1>1, <1>2, <2>1, <2>2 DEF TodoIsFresh, WinnersWrote, LosersAreTold
  <2>4. OnlyWhileWorking' /\ SavedIsWritten' /\ ChunksAreHeld' /\ FailureAborts'
    BY <1>1, <1>2, <1>6, <2>1
       DEF OnlyWhileWorking, SavedIsWritten, ChunksAreHeld, FailureAborts
  <2> QED
    BY <1>3, <1>4, <2>3, <2>4
<1> QED
  BY <1>5, <1>6 DEF file

LEMMA UnchangedRace ==
  ASSUME RaceInv, UNCHANGED vars
  PROVE  RaceInv'
<1>1. /\ phase' = phase /\ aborted' = aborted /\ failed' = failed /\ todo' = todo
      /\ att' = att /\ last' = last /\ winner' = winner /\ text' = text
      /\ saved' = saved /\ output' = output
  BY DEF vars, runVars, record, file
<1>2. FileOK' /\ OnlyWhileWorking' /\ TodoIsFresh'
  BY <1>1 DEF RaceInv, FileOK, OnlyWhileWorking, TodoIsFresh, Racing
<1>3. RecordKnowsConn' /\ NeverTwiceOnOne' /\ WinnersWrote'
  BY <1>1 DEF RaceInv, RecordKnowsConn, NeverTwiceOnOne, WinnersWrote, Racing
<1>4. LosersAreTold' /\ ChunksAreHeld' /\ FailureAborts' /\ SavedIsWritten'
  BY <1>1 DEF RaceInv, LosersAreTold, ChunksAreHeld, FailureAborts,
              SavedIsWritten, Racing
<1> QED
  BY <1>2, <1>3, <1>4 DEF RaceInv

LEMMA AttemptRace ==
  ASSUME Inv, NEW a \in Attempts, AttemptStep(a)
  PROVE  RaceInv'
<1>1. a[1] \in Chunks /\ a \in {Original(a[1]), Duplicate(a[1])}
  BY AttemptPairs
<1>2. CASE a[2] = "duplicate"
  <2>1. TakesSlot(a) \/ CallAnswers(a) \/ Stops(a) \/ Claims(a) \/ DuplicateFails(a[1])
    BY <1>2 DEF AttemptStep
  <2> QED
    BY <2>1, <1>1, TakesRace, AnswersRace, StopsRace, ClaimsRace, DuplicateFailsRace
<1>3. CASE a[2] # "duplicate"
  <2>1. a = Original(a[1])
    BY <1>1, <1>3, AttemptPairs
  <2>2. \/ TakesSlot(a) \/ CallAnswers(a) \/ Stops(a) \/ Claims(a)
        \/ CallFails(a[1]) \/ Overflows(a[1]) \/ Requeues(a[1])
        \/ Hears(a[1]) \/ Loses(a[1])
    BY <1>3 DEF AttemptStep
  <2>3. CASE TakesSlot(a) \/ Stops(a) \/ CallFails(a[1])
    BY <2>3, <1>1, TakesRace, StopsRace, CallFailsRace
  <2>4. CASE CallAnswers(a) \/ Overflows(a[1])
    BY <2>4, <2>1, <1>1, AnswersRace
  <2>5. CASE Requeues(a[1]) \/ Hears(a[1])
    BY <2>5, <1>1, RequeuesRace, HearsRace
  <2>6. CASE Claims(a) \/ Loses(a[1])
    BY <2>6, <1>1, ClaimsRace, LosesRace
  <2> QED
    BY <2>2, <2>3, <2>4, <2>5, <2>6
<1> QED
  BY <1>2, <1>3

LEMMA RaceStep ==
  ASSUME Inv, [Next]_vars
  PROVE  RaceInv'
<1>1. CASE Picks
  BY <1>1, PicksRace
<1>2. CASE SendsDuplicate
  BY <1>2, SendsRace
<1>3. CASE Start
  BY <1>3, StartRace
<1>4. CASE GivesUp
  BY <1>4, GivesUpRace
<1>5. CASE \E a \in Attempts : AttemptStep(a)
  BY <1>5, AttemptRace
<1>6. CASE WorkersEnd
  BY <1>4, <1>6, PhaseRace DEF WorkersEnd
<1>7. CASE Finishes
  BY <1>4, <1>7, PhaseRace DEF Finishes
<1>8. CASE Stop
  BY <1>8, PhaseRace DEF Stop
<1>9. CASE Crash
  BY <1>4, <1>9 DEF Crash
<1>10. CASE UNCHANGED vars
  BY <1>10, UnchangedRace DEF Inv
<1> QED
  BY <1>1, <1>2, <1>3, <1>5, <1>6, <1>7, <1>8, <1>9, <1>10 DEF Next, Runs

-----------------------------------------------------------------------------
(* The theorems.                                                           *)

LEMMA InitInv ==
  ASSUME Init
  PROVE  Inv
<1>1. GateInv
  BY BlankGates DEF Init
<1>2. /\ phase = "off" /\ aborted = FALSE /\ failed = FALSE /\ todo = {}
      /\ saved = {} /\ output = FALSE
      /\ \A k \in Chunks : text[k] = "none" /\ winner[k] = Nobody
      /\ \A a \in Attempts : ~Racing(a) /\ att[a].stage = "off"
  BY OffState DEF Init, Racing
<1>3. FileOK
  BY DEF Init, FileOK
<1>4. /\ OnlyWhileWorking /\ TodoIsFresh /\ WinnersWrote /\ LosersAreTold
      /\ ChunksAreHeld /\ FailureAborts /\ SavedIsWritten
  BY <1>2 DEF OnlyWhileWorking, TodoIsFresh, WinnersWrote, LosersAreTold,
              ChunksAreHeld, FailureAborts, SavedIsWritten
<1>5. RecordKnowsConn /\ NeverTwiceOnOne
  BY <1>2, AttemptPairs DEF RecordKnowsConn, NeverTwiceOnOne, Asks
<1> QED
  BY <1>1, <1>3, <1>4, <1>5 DEF Inv, RaceInv

LEMMA InvHolds == Spec => []Inv
<1>1. Inv /\ [Next]_vars => Inv'
  BY GateStep, RaceStep DEF Inv
<1> QED
  BY InitInv, <1>1, PTL DEF Spec

\* Every variable keeps its shape (TypeOK).
THEOREM TypeCorrect == Spec => []TypeOK
<1>1. Inv => TypeOK
  BY DEF Inv, GateInv, RaceInv, TypeOK
<1> QED
  BY InvHolds, <1>1, PTL

\* A gate counts the calls at its server, and nobody sleeps in its line while
\* there is room (concurrency-gate.ts).
THEOREM GatesCount == Spec => []GateCountsCalls
<1>1. Inv => GateCountsCalls
  BY GatesImply DEF Inv
<1> QED
  BY InvHolds, <1>1, PTL

\* The two attempts at a chunk never ask one connection for it (chunk-hedge.ts).
THEOREM RaceIsApart == Spec => []NeverTwiceOnOne
<1>1. Inv => NeverTwiceOnOne
  BY DEF Inv, RaceInv
<1> QED
  BY InvHolds, <1>1, PTL

\* What a step does to the file's texts, and to what is saved of them.
LEMMA StepWrites ==
  ASSUME Inv, [Next]_vars, phase = "work"
  PROVE  \/ phase' # "work" /\ saved' = saved
         \/ UNCHANGED <<text, saved>>
         \/ \E a \in Attempts : /\ Racing(a) /\ MayWin(a[1]) /\ HasAnswer(a)
                                /\ text' = [text EXCEPT ![a[1]] = Lines(a)]
                                /\ saved' \in {saved, Progress(text')}
<1>1. CASE \E a \in Attempts : AttemptStep(a)
  <2>1. PICK a \in Attempts : AttemptStep(a)
    BY <1>1
  <2>2. CASE Claims(a) /\ MayWin(a[1])
    BY <2>2, AnswerIsOut DEF Claims, Writes, Racing
  <2>3. CASE Claims(a) /\ ~MayWin(a[1])
    BY <2>3 DEF Claims
  <2>4. CASE \/ TakesSlot(a) \/ CallAnswers(a) \/ CallFails(a[1]) \/ Overflows(a[1])
    BY <2>4 DEF TakesSlot, CallAnswers, CallFails, Overflows, OnlyAttempts, file
  <2>5. CASE \/ Stops(a) \/ DuplicateFails(a[1]) \/ Requeues(a[1]) \/ Hears(a[1])
             \/ Loses(a[1])
    BY <2>5 DEF Stops, DuplicateFails, Requeues, Hears, Loses, file
  <2> QED
    BY <2>1, <2>2, <2>3, <2>4, <2>5 DEF AttemptStep
<1>2. CASE GivesUp
  BY <1>2 DEF GivesUp
<1>3. CASE Picks \/ SendsDuplicate \/ Stop \/ UNCHANGED vars
  BY <1>3 DEF Picks, SendsDuplicate, Stop, vars, file
<1>4. CASE WorkersEnd \/ Crash \/ Start \/ Finishes
  BY <1>2, <1>4 DEF WorkersEnd, Crash, Start, Finishes, file
<1> QED
  BY <1>1, <1>3, <1>4 DEF Next, Runs

\* A chunk is written once in a run, and some of its lines only when no
\* duplicate is left that could answer all of them (engine.ts).
THEOREM ChunksAreWrittenOnce == Spec => WrittenOnce
<1> DEFINE Once == phase = "work" /\ phase' = "work" =>
                     \A k \in Chunks : text'[k] # text[k] =>
                       /\ text[k] = "none"
                       /\ text'[k] = "part" => DuplicateIsOver(k)
<1>1. Inv /\ [Next]_vars => [Once]_vars
  <2> SUFFICES ASSUME Inv, [Next]_vars, phase = "work", phase' = "work",
                      NEW k \in Chunks, text'[k] # text[k]
               PROVE  /\ text[k] = "none"
                      /\ text'[k] = "part" => DuplicateIsOver(k)
    OBVIOUS
  <2>1. PICK a \in Attempts : /\ Racing(a) /\ MayWin(a[1]) /\ HasAnswer(a)
                              /\ text' = [text EXCEPT ![a[1]] = Lines(a)]
    BY StepWrites
  <2>2. k = a[1] /\ text'[k] = Lines(a)
    BY <2>1 DEF Inv, RaceInv, FileOK
  <2>3. text[k] = "none"
    BY <2>1, <2>2 DEF Inv, RaceInv, WinnersWrote, MayWin
  <2>4. text'[k] = "part" => DuplicateIsOver(k)
    BY <2>1, <2>2 DEF Lines, HasAnswer
  <2> QED
    BY <2>3, <2>4
<1> QED
  BY InvHolds, <1>1, PTL DEF Spec, WrittenOnce

\* A failure is an attempt's.
LEMMA OnlyAttemptsThrow ==
  ASSUME [Next]_vars, ~failed, failed'
  PROVE  \E a \in Attempts : AttemptStep(a) /\ Throws
<1>1. failed' # failed
  OBVIOUS
<1>2. ~Start /\ ~Picks /\ ~SendsDuplicate /\ ~WorkersEnd /\ ~Finishes /\ ~Stop /\ ~Crash
  BY <1>1 DEF Start, Picks, SendsDuplicate, WorkersEnd, Finishes, Stop, Crash,
              GivesUp, Blank, runVars
<1>3. ~UNCHANGED vars
  BY <1>1 DEF vars, runVars
<1>4. PICK a \in Attempts : AttemptStep(a)
  BY <1>2, <1>3 DEF Next, Runs
<1>5. Throws
  BY <1>1, <1>4 DEF AttemptStep, TakesSlot, CallAnswers, Stops, Claims, Writes,
                    DuplicateFails, CallFails, Overflows, Requeues, Hears, Loses,
                    Quits, OnlyAttempts, runVars
<1> QED
  BY <1>4, <1>5

\* The output comes with the end of the sweep.
LEMMA OnlyFinishesOutput ==
  ASSUME [Next]_vars, ~output, output'
  PROVE  phase = "sweep"
<1>1. output' # output
  OBVIOUS
<1>2. ~Start /\ ~Picks /\ ~SendsDuplicate /\ ~WorkersEnd /\ ~Stop /\ ~Crash
  BY <1>1 DEF Start, Picks, SendsDuplicate, WorkersEnd, Stop, Crash, GivesUp, file
<1>3. ~UNCHANGED vars
  BY <1>1 DEF vars, file
<1>4. \A a \in Attempts : ~AttemptStep(a)
  BY <1>1 DEF AttemptStep, TakesSlot, CallAnswers, Stops, Claims, DuplicateFails,
              CallFails, Overflows, Requeues, Hears, Loses, OnlyAttempts, file
<1> QED
  BY <1>2, <1>3, <1>4 DEF Next, Runs, Finishes

\* A job that nobody stopped fails only by a chunk that has no winner and no
\* duplicate left, or by a winner whose write threw (engine.ts, runOriginal).
THEOREM FailureIsEarned == Spec => FailsOnlyWhenLost
<1> DEFINE Earned == ~aborted /\ failed' =>
                       \E k \in Chunks :
                         \/ winner[k] = Nobody /\ winner'[k] # Nobody
                         \/ /\ winner[k] = Nobody /\ DuplicateIsOver(k)
                            /\ Racing(Original(k)) /\ ~Racing(Original(k))'
<1>1. Inv /\ [Next]_vars => [Earned]_vars
  <2> SUFFICES ASSUME Inv, [Next]_vars, ~aborted, failed'
               PROVE  \E k \in Chunks :
                        \/ winner[k] = Nobody /\ winner'[k] # Nobody
                        \/ /\ winner[k] = Nobody /\ DuplicateIsOver(k)
                           /\ Racing(Original(k)) /\ ~Racing(Original(k))'
    OBVIOUS
  <2>1. ~failed /\ RaceOK /\ LosersAreTold
    BY DEF Inv, RaceInv, GateInv, FailureAborts
  <2>2. PICK a \in Attempts : AttemptStep(a) /\ Throws
    BY <2>1, OnlyAttemptsThrow
  <2>3. a[1] \in Chunks /\ a \in {Original(a[1]), Duplicate(a[1])} /\ a[2] \in Kinds
    BY AttemptPairs DEF Attempts
  <2>4. CASE Claims(a) /\ MayWin(a[1])
    <3>1. Writes(a) /\ winner[a[1]] = Nobody
      BY <2>4 DEF Claims, MayWin
    <3>2. Wins(a)
      BY <2>1, <2>2, <3>1 DEF Writes, Throws
    <3>3. winner'[a[1]] = a[2] /\ a[2] # Nobody
      BY <2>1, <2>3, <3>2, SplitAssumption DEF Wins, RaceOK
    <3> QED
      BY <2>3, <3>1, <3>3
  <2>5. CASE a[2] # "duplicate" /\ Loses(a[1])
    <3>1. PICK k \in Chunks : a[1] = k /\ a = Original(k)
      BY <2>3, <2>5, AttemptPairs
    <3>2. /\ att[a].stage = "lost" /\ ~att[a].ended /\ IsLost(k)
          /\ att' = [att EXCEPT ![a] = Off]
      BY <2>1, <2>2, <2>5, <3>1 DEF Loses, Quits, Throws
    <3>3. Racing(a) /\ ~Racing(a)'
      BY <2>1, <3>2, OffState DEF Racing, RaceOK
    <3>4. winner[k] = Nobody
      BY <2>1, <3>1, <3>2, <3>3 DEF LosersAreTold
    <3> QED
      BY <3>1, <3>2, <3>3, <3>4 DEF IsLost
  <2>6. \/ Claims(a) /\ MayWin(a[1])
        \/ a[2] # "duplicate" /\ Loses(a[1])
    <3>1. CASE \/ TakesSlot(a) \/ CallAnswers(a) \/ CallFails(a[1]) \/ Overflows(a[1])
               \/ DuplicateFails(a[1])
      BY <2>1, <2>2, <3>1 DEF TakesSlot, CallAnswers, CallFails, Overflows,
                             DuplicateFails, OnlyAttempts, runVars, Throws
    <3>2. CASE \/ Stops(a) \/ Requeues(a[1]) \/ Hears(a[1])
               \/ Claims(a) /\ ~MayWin(a[1])
      BY <2>1, <2>2, <3>2 DEF Stops, Requeues, Hears, Claims, Quits, Throws
    <3> QED
      BY <2>2, <3>1, <3>2 DEF AttemptStep
  <2> QED
    BY <2>4, <2>5, <2>6
<1> QED
  BY InvHolds, <1>1, PTL DEF Spec, FailsOnlyWhenLost

\* An output is put in place only with every chunk written, and what was saved
\* of a run stays saved until then (cue-progress.ts, engine.ts).
THEOREM OutputsAreComplete == Spec => OutputIsComplete
<1> DEFINE Complete == /\ ~output /\ output' => \A k \in Chunks : text[k] # "none"
                       /\ phase = "work" => saved \subseteq saved'
<1>1. Inv /\ [Next]_vars => [Complete]_vars
  <2> SUFFICES ASSUME Inv, [Next]_vars
               PROVE  Complete
    OBVIOUS
  <2>1. ASSUME ~output, output', NEW k \in Chunks
        PROVE  text[k] # "none"
    <3>1. phase = "sweep"
      BY <2>1, OnlyFinishesOutput
    <3>2. k \notin todo /\ ~Racing(Original(k))
      BY <3>1, AttemptPairs DEF Inv, RaceInv, OnlyWhileWorking
    <3>3. ~failed
      BY <3>1 DEF Inv, RaceInv, FailureAborts
    <3> QED
      BY <3>1, <3>2, <3>3 DEF Inv, RaceInv, ChunksAreHeld
  <2>2. ASSUME phase = "work"
        PROVE  saved \subseteq saved'
    <3>1. CASE saved' = saved
      BY <3>1
    <3>2. CASE \E a \in Attempts : /\ Racing(a) /\ MayWin(a[1])
                                   /\ text' = [text EXCEPT ![a[1]] = Lines(a)]
                                   /\ saved' = Progress(text')
      <4>1. PICK a \in Attempts : /\ Racing(a) /\ MayWin(a[1])
                                  /\ text' = [text EXCEPT ![a[1]] = Lines(a)]
                                  /\ saved' = Progress(text')
        BY <3>2
      <4>2. text[a[1]] = "none"
        BY <4>1 DEF Inv, RaceInv, WinnersWrote, MayWin
      <4>3. \A k \in saved : k \in Chunks /\ text[k] = "whole" /\ k # a[1]
        BY <2>2, <4>2 DEF Inv, RaceInv, SavedIsWritten, FileOK
      <4> QED
        BY <4>1, <4>3 DEF Progress, Inv, RaceInv, FileOK
    <3> QED
      BY <2>2, <3>1, <3>2, StepWrites
  <2> QED
    BY <2>1, <2>2
<1> QED
  BY InvHolds, <1>1, PTL DEF Spec, OutputIsComplete

=============================================================================
