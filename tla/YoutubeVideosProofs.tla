------------------------ MODULE YoutubeVideosProofs ------------------------
(***************************************************************************)
(* For any videos, playlists, settings and bounds: lanes find their rows   *)
(* as they left them, a pause is never cut short, the user's choice of a   *)
(* video holds, and, while YouTube does not push back, a first sync on     *)
(* record is one of the present follow.                                    *)
(* Steps of the lists leave the rows that a lane holds alone; the steps of *)
(* a lane move its own.  The invariant adds what these rest on: a skip is  *)
(* of a skipped row, a filter change read no row of a lane, and a download *)
(* began in no pause.                                                      *)
(***************************************************************************)
EXTENDS YoutubeVideos, TLAPS

Held == {"downloading", "transcribing", "translating"}

SkipsAreSkipped ==
  \A v \in Videos : video[v].skip # "none" => video[v].status = "skipped"

ChangesReadNoLane ==
  \A c \in changes, v \in Videos :
    /\ c.rows[v] \in {"none", "new", "queued", "skipped"}
    /\ c.kind = "content" => c.rows[v] \in {"none", "skipped"}

DownloadsBeganUnpaused ==
  IF download.v = None THEN download = NoDownload
  ELSE /\ download.p \in Playlists /\ cooldown.strikes >= download.strikes
       /\ cooldown.on => cooldown.strikes > download.strikes

YtInv == /\ TypeOK /\ SkipsAreSkipped /\ ChangesReadNoLane
         /\ LanesOwnTheirRows /\ DownloadsBeganUnpaused

-----------------------------------------------------------------------------
(* Rows.                                                                   *)

\* What setStatus and its kin do to a row.
LEMMA MovedRow ==
  ASSUME NEW r \in Rows, NEW s \in Statuses
  PROVE  /\ Moved(r, s) \in Rows /\ Moved(r, s).status = s
         /\ Moved(r, s).skip = "none" /\ Moved(r, s).picked = r.picked
         /\ Moved(r, s).owner = r.owner /\ Moved(r, s).fails = r.fails
BY DEF Moved, Rows, SkipKinds

LEMMA SkippedRow ==
  ASSUME NEW r \in Rows, NEW k \in SkipKinds
  PROVE  /\ Skipped(r, k) \in Rows /\ Skipped(r, k).status = "skipped"
         /\ Skipped(r, k).skip = k /\ Skipped(r, k).picked = r.picked
<1>1. "skipped" \in Statuses
  BY DEF Statuses
<1> QED
  BY <1>1, MovedRow DEF Skipped, Rows

LEMMA FreshRow ==
  ASSUME NEW r \in Rows, NEW s \in Statuses
  PROVE  /\ Fresh(r, s) \in Rows /\ Fresh(r, s).status = s
         /\ Fresh(r, s).skip = "none" /\ Fresh(r, s).picked = r.picked
<1>1. 0 \in 0 .. Retries + 1
  BY YoutubeAssumption
<1> QED
  BY <1>1, MovedRow DEF Fresh, Rows

LEMMA PutOffRow ==
  ASSUME NEW r \in Rows, NEW s \in Statuses
  PROVE  /\ PutOff(r, s) \in Rows /\ PutOff(r, s).status = s
         /\ PutOff(r, s).skip = "none" /\ PutOff(r, s).picked = r.picked
         /\ PutOff(r, s).fails = r.fails
BY MovedRow DEF PutOff, Rows

LEMMA RetriedRow ==
  ASSUME NEW r \in Rows, NEW s \in Statuses
  PROVE  /\ RetriedOrFailed(r, s) \in Rows
         /\ RetriedOrFailed(r, s).status \in {s, "failed"}
         /\ RetriedOrFailed(r, s).skip = "none"
<1>1. "failed" \in Statuses /\ Retries + 1 \in 0 .. Retries + 1
      /\ r.fails \in 0 .. Retries + 1
  BY YoutubeAssumption DEF Statuses, Rows
<1>2. r.fails < Retries => r.fails + 1 \in 0 .. Retries + 1
  BY <1>1, YoutubeAssumption
<1>3. CASE r.fails >= Retries
  <2>1. RetriedOrFailed(r, s) = [Moved(r, "failed") EXCEPT !.fails = Retries + 1]
    BY <1>3 DEF RetriedOrFailed
  <2> QED
    BY <1>1, <2>1, MovedRow DEF Rows
<1>4. CASE ~(r.fails >= Retries)
  <2>1. RetriedOrFailed(r, s) = [PutOff(r, s) EXCEPT !.fails = PutOff(r, s).fails + 1]
    BY <1>4 DEF RetriedOrFailed
  <2>2. PutOff(r, s).fails + 1 \in 0 .. Retries + 1
    BY <1>1, <1>2, <1>4, PutOffRow, YoutubeAssumption
  <2> QED
    BY <2>1, <2>2, PutOffRow DEF Rows
<1> QED
  BY <1>3, <1>4

LEMMA NewRow ==
  ASSUME NEW s \in Statuses, NEW p \in Playlists \cup {None}, NEW k \in SkipKinds
  PROVE  /\ Row(s, p, k) \in Rows /\ Row(s, p, k).status = s
         /\ Row(s, p, k).skip = k /\ ~Row(s, p, k).picked
BY YoutubeAssumption DEF Row, Rows

\* How a step of the lists or of the user moves a row: it takes none from a
\* lane, hands none to one.
Sound(r) == r \in Rows /\ (r.skip # "none" => r.status = "skipped")
KeepsLane(r, n) ==
  Sound(n) /\ (r.status \in Held \/ n.status \in Held => n.status = r.status)

\* ... and how every step but the user's own leaves what the user chose.
KeepsChoice(r, n) ==
  /\ UserSkipped(r) => UserSkipped(n) \/ n.picked
  /\ r.picked /\ r.status = "queued"
       => /\ n.status # "new"
          /\ n.status = "skipped" => n.skip = "user"

LEMMA InitialRow ==
  ASSUME NEW p \in Playlists, NEW v \in Videos
  PROVE  /\ Sound(Initial(p, v))
         /\ Initial(p, v).status \in {"unavailable", "skipped", "queued", "new"}
<1>1. /\ {"unavailable", "skipped", "queued", "new"} \subseteq Statuses
      /\ {"none", "content", "before"} \subseteq SkipKinds
  BY DEF Statuses, SkipKinds
<1>2. Initial(p, v) \in {Row("unavailable", p, "none"), Row("skipped", p, "content"),
                         Row("skipped", p, "before"), Row("queued", p, "none"),
                         Row("new", p, "none")}
  BY DEF Initial
<1> QED
  BY <1>1, <1>2, NewRow DEF Sound

\* A listing takes only rows nobody acted on, and those that are back.
LEMMA ListedRow ==
  ASSUME NEW r, NEW n, NEW p \in Playlists, NEW first, Sound(r), Sound(n),
         n.status \in {"unavailable", "skipped", "queued", "new"}
  PROVE  KeepsLane(r, Listed(r, p, n, first)) /\ KeepsChoice(r, Listed(r, p, n, first))
<1> DEFINE orphaned == r.owner # p /\ follow[r.owner] = None
           takes == TakesRow(r, p, n, first)
           now == IF takes
                  THEN [r EXCEPT !.status = n.status, !.owner = p, !.skip = n.skip]
                  ELSE IF orphaned THEN [r EXCEPT !.owner = p] ELSE r
           again == [now EXCEPT !.fails = 0, !.later = FALSE, !.lost = FALSE]
           m == Listed(r, p, n, first)
<1>1. takes => /\ r.status \in {"unavailable", "new", "queued", "skipped"}
               /\ ~UserSkipped(r) /\ (r.picked => r.status = "unavailable")
  BY DEF TakesRow, Recoverable, Untouched, UserSkipped
<1>2. r \in Rows /\ n \in Rows /\ n.status \in Statuses /\ n.skip \in SkipKinds
  BY DEF Sound, Rows
<1>3. /\ now \in Rows /\ now.picked = r.picked
      /\ takes => now.status = n.status /\ now.skip = n.skip
      /\ ~takes => now.status = r.status /\ now.skip = r.skip
  <2>1. CASE takes
    BY <1>2, <2>1 DEF Rows
  <2>2. CASE ~takes
    BY <1>2, <2>2 DEF Rows
  <2> QED
    BY <2>1, <2>2
<1>4. again \in Rows /\ again.status = now.status /\ again.skip = now.skip
      /\ again.picked = now.picked
  <2> HIDE DEF now
  <2>1. 0 \in 0 .. Retries + 1
    BY YoutubeAssumption
  <2> QED
    BY <1>3, <2>1 DEF Rows
<1>5. m \in {n, again, now}
  BY DEF Listed
<1>6. r.status = "absent" => m = n
  BY DEF Listed
<1>7. r.status # "absent" => m \in {again, now}
  BY DEF Listed
<1> HIDE DEF m, again, now, takes
<1>8. CASE r.status = "absent"
  BY <1>6, <1>8 DEF KeepsLane, KeepsChoice, UserSkipped, Sound, Held, m
<1>9. CASE r.status # "absent"
  <2>1. m \in Rows /\ m.status = now.status /\ m.skip = now.skip
        /\ m.picked = r.picked
    BY <1>3, <1>4, <1>7, <1>9
  <2>2. KeepsLane(r, m)
    BY <1>1, <1>3, <2>1 DEF KeepsLane, Sound, Held
  <2>3. KeepsChoice(r, m)
    BY <1>1, <1>3, <2>1 DEF KeepsChoice, UserSkipped
  <2> QED
    BY <2>2, <2>3 DEF m
<1> QED
  BY <1>8, <1>9

\* A filter change moves rows that wait, and those filtered out.
LEMMA RefilteredRow ==
  ASSUME NEW c \in Changes, NEW v \in Videos, ChangesReadNoLane, c \in changes,
         Sound(video[v]), Unchanged(c, v)
  PROVE  /\ KeepsLane(video[v], Refiltered(c, video[v], v))
         /\ c.rows[v] # "skipped" => KeepsChoice(video[v], Refiltered(c, video[v], v))
<1> DEFINE r == video[v]
           m == Refiltered(c, r, v)
           goal == IF c.auto THEN "queued" ELSE "new"
<1>1. /\ goal \in Statuses /\ goal \in {"queued", "new"}
      /\ "before" \in SkipKinds
  BY DEF Statuses, SkipKinds
<1>2. /\ r \in Rows /\ r.status = c.rows[v] /\ ~r.picked
      /\ r.status \in {"new", "queued", "skipped"}
      /\ c.kind = "content" => r.status = "skipped"
  <2>1. r.status # "none"
    BY DEF Sound, Rows, Statuses
  <2> QED
    BY <2>1 DEF Sound, Unchanged, ChangesReadNoLane
<1>3. m \in {r, Moved(r, goal), Skipped(r, "before"), [r EXCEPT !.skip = "before"]}
  BY DEF Refiltered
<1>4. m = [r EXCEPT !.skip = "before"] => r.status = "skipped" \/ m = r
  <2>1. c.kind # "content" => m \in {r, Moved(r, goal), Skipped(r, "before")}
    BY DEF Refiltered
  <2>2. Moved(r, goal).skip = "none" /\ Skipped(r, "before").status = "skipped"
    BY <1>1, <1>2, MovedRow, SkippedRow
  <2>3. [r EXCEPT !.skip = "before"].skip = "before"
        /\ [r EXCEPT !.skip = "before"].status = r.status
    BY <1>2 DEF Rows
  <2> HIDE DEF r, m, goal
  <2> QED
    BY <1>2, <2>1, <2>2, <2>3
<1>5. /\ Sound(Moved(r, goal)) /\ Moved(r, goal).status \notin Held
      /\ Sound(Skipped(r, "before")) /\ Skipped(r, "before").status \notin Held
  <2> HIDE DEF r, goal
  <2> QED
    BY <1>1, <1>2, MovedRow, SkippedRow DEF Sound, Held
<1>6. r.status = "skipped" => Sound([r EXCEPT !.skip = "before"])
        /\ [r EXCEPT !.skip = "before"].status \notin Held
  BY <1>1, <1>2 DEF Sound, Rows, Held
<1>7. r.status \notin Held
  BY <1>2 DEF Held
<1>8. KeepsLane(r, m)
  <2> HIDE DEF r, m, goal
  <2>1. Sound(r)
    BY DEF r
  <2> QED
    BY <1>3, <1>4, <1>5, <1>6, <1>7, <2>1 DEF KeepsLane
<1>9. ASSUME c.rows[v] # "skipped" PROVE KeepsChoice(r, m)
  BY <1>2, <1>9 DEF KeepsChoice, UserSkipped
<1> QED
  BY <1>8, <1>9

-----------------------------------------------------------------------------
(* What the groups of steps have in common.                                *)

LEMMA RowsAreSound ==
  ASSUME YtInv
  PROVE  \A v \in Videos : Sound(video[v])
BY DEF YtInv, TypeOK, SkipsAreSkipped, Sound

\* A step that moves rows as the lists do keeps what the lanes rest on.
LEMMA RowsKeep ==
  ASSUME YtInv, video' = [v \in Videos |-> video'[v]],
         \A v \in Videos : KeepsLane(video[v], video'[v]),
         UNCHANGED <<download, subtitle, completing>>
  PROVE  video' \in [Videos -> Rows] /\ SkipsAreSkipped' /\ LanesOwnTheirRows'
<1>1. \A v \in Videos : video'[v] \in Rows
  BY DEF KeepsLane, Sound
<1>2. SkipsAreSkipped'
  BY DEF SkipsAreSkipped, KeepsLane, Sound
<1>3. video' \in [Videos -> Rows]
  BY <1>1
<1>4. \A v \in Videos : \A s \in Held : video[v].status = s <=> video'[v].status = s
  BY DEF KeepsLane
<1>5. {"downloading", "transcribing", "translating"} \subseteq Held
  BY DEF Held
<1>6. /\ \A v \in Videos : video'[v].status = "downloading" <=> download'.v = v
      /\ subtitle' # None => video'[subtitle'].status = "transcribing"
      /\ \A v \in completing' : video'[v].status = "translating"
  BY <1>4, <1>5 DEF YtInv, TypeOK, LaneTypes, LanesOwnTheirRows
<1> QED
  BY <1>2, <1>3, <1>6 DEF LanesOwnTheirRows

LEMMA SameRows ==
  ASSUME YtInv, UNCHANGED <<video, download, subtitle, completing>>
  PROVE  video' \in [Videos -> Rows] /\ SkipsAreSkipped' /\ LanesOwnTheirRows'
BY DEF YtInv, TypeOK, SkipsAreSkipped, LanesOwnTheirRows

\* A cooldown entered while a download runs is one the download did not see.
LEMMA PauseKeeps ==
  ASSUME YtInv, UNCHANGED download, UNCHANGED cooldown \/ PushesBack
  PROVE  /\ cooldown' \in [strikes : 0 .. MaxStrikes, on : BOOLEAN]
         /\ DownloadsBeganUnpaused'
<1>1. cooldown \in [strikes : 0 .. MaxStrikes, on : BOOLEAN]
      /\ DownloadsBeganUnpaused /\ download.strikes \in 0 .. MaxStrikes
  BY DEF YtInv, TypeOK, LaneTypes
<1>2. CASE UNCHANGED cooldown
  BY <1>1, <1>2 DEF DownloadsBeganUnpaused, NoDownload
<1>3. CASE PushesBack
  <2>1. /\ cooldown.strikes \in 0 .. MaxStrikes /\ cooldown.strikes < MaxStrikes
        /\ cooldown' = [strikes |-> cooldown.strikes + 1, on |-> TRUE]
    BY <1>1, <1>3 DEF PushesBack
  <2>2. cooldown.strikes + 1 \in 0 .. MaxStrikes
    BY <2>1, YoutubeAssumption
  <2>3. cooldown'.strikes = cooldown.strikes + 1 /\ cooldown'.on
    BY <2>1
  <2>4. DownloadsBeganUnpaused'
    BY <1>1, <2>1, <2>3, YoutubeAssumption DEF DownloadsBeganUnpaused, NoDownload
  <2> QED
    BY <2>1, <2>2, <2>4
<1> QED
  BY <1>2, <1>3

LEMMA NewCheck ==
  ASSUME NEW set \in Settings \cup {None}, NEW again \in 0 .. MaxAgain
  PROVE  /\ NoCheck \in Checks
         /\ [NoCheck EXCEPT !.phase = "listing", !.set = set, !.again = again]
              \in Checks
<1>1. NoCheck \in Checks
  BY YoutubeAssumption DEF NoCheck, Checks
<1> QED
  BY <1>1 DEF Checks

LEMMA BeginTypes ==
  ASSUME NEW p \in Playlists, NEW again \in 0 .. MaxAgain, ListTypes,
         follow' \in [Playlists -> Settings \cup {None}], BeginCheck(p, again)
  PROVE  check' \in [Playlists -> Checks]
<1>1. follow'[p] \in Settings \cup {None}
  OBVIOUS
<1>2. [NoCheck EXCEPT !.phase = "listing", !.set = follow'[p], !.again = again]
        \in Checks
  BY <1>1, NewCheck
<1> QED
  BY <1>2 DEF BeginCheck, ListTypes

\* The check that settles, and the one that begins behind it.
LEMMA EndsTypes ==
  ASSUME NEW p \in Playlists, NEW s \in {"no", "own", "old"}, ListTypes,
         follow' \in [Playlists -> Settings \cup {None}], EndsCheck(p, s)
  PROVE  /\ check' \in [Playlists -> Checks]
         /\ synced' \in [Playlists -> {"no", "own", "old"}]
<1> DEFINE gone == follow'[p] = None
           next == check[p].again > 0 /\ ~gone /\ ~cooldown'.on
           value == IF next \/ (check[p].again > 0 /\ gone) THEN "no" ELSE s
<1>1. synced' = [synced EXCEPT ![p] = value]
      /\ IF next THEN BeginCheck(p, check[p].again - 1)
         ELSE check' = [check EXCEPT ![p] = NoCheck]
  BY DEF EndsCheck
<1>2. value \in {"no", "own", "old"}
  OBVIOUS
<1>3. synced' \in [Playlists -> {"no", "own", "old"}]
  <2> HIDE DEF value, next
  <2> QED
    BY <1>1, <1>2 DEF ListTypes
<1>4. CASE next
  <2>1. check[p].again \in 0 .. MaxAgain /\ check[p].again > 0
    BY <1>4 DEF ListTypes, Checks
  <2>2. check[p].again - 1 \in 0 .. MaxAgain
    BY <2>1, YoutubeAssumption
  <2> QED
    BY <1>1, <1>3, <1>4, <2>2, BeginTypes
<1>5. CASE ~next
  <2>1. NoCheck \in Checks
    BY YoutubeAssumption DEF NoCheck, Checks
  <2>2. check' = [check EXCEPT ![p] = NoCheck]
    BY <1>1, <1>5
  <2> QED
    BY <1>3, <2>1, <2>2 DEF ListTypes
<1> QED
  BY <1>4, <1>5

\* A filter change reads what its rows are now.
ReadsNow(c, kind, taken) ==
  /\ c \in Changes /\ c.kind = kind
  /\ \A v \in Videos : c.rows[v] = IF v \in taken THEN video[v].status ELSE "none"

LEMMA NewChange ==
  ASSUME YtInv, NEW kind \in {"backfill", "content"}, NEW p \in Playlists,
         NEW set \in Settings, NEW taken \in SUBSET Videos,
         NEW choice \in Backfills, NEW restore \in BOOLEAN
  PROVE  ReadsNow(Change(kind, p, set, taken, choice, video, restore), kind, taken)
<1>1. \A v \in Videos : video[v].status \in Statuses
  BY DEF YtInv, TypeOK, Rows
<1>2. set.auto \in BOOLEAN
  BY DEF Settings
<1> QED
  BY <1>1, <1>2 DEF Change, Changes, ReadsNow

-----------------------------------------------------------------------------
(* The steps.                                                              *)

LEMMA Begins ==
  Init => YtInv
<1> SUFFICES ASSUME Init PROVE YtInv
  OBVIOUS
<1>1. ListTypes
  <2>1. NoCheck \in Checks
    BY YoutubeAssumption DEF NoCheck, Checks
  <2> QED
    BY <2>1 DEF Init, ListTypes
<1>2. LaneTypes
  BY YoutubeAssumption DEF Init, LaneTypes, NoDownload
<1>3. Absent \in Rows /\ Absent.status = "absent" /\ Absent.skip = "none"
  <2>1. "absent" \in Statuses /\ "none" \in SkipKinds
    BY DEF Statuses, SkipKinds
  <2> QED
    BY <2>1, NewRow DEF Absent
<1>4. video \in [Videos -> Rows]
  BY <1>3 DEF Init
<1>5. cooldown \in [strikes : 0 .. MaxStrikes, on : BOOLEAN]
  BY YoutubeAssumption DEF Init
<1>6. SkipsAreSkipped /\ ChangesReadNoLane
  BY <1>3 DEF Init, SkipsAreSkipped, ChangesReadNoLane
<1>7. LanesOwnTheirRows /\ DownloadsBeganUnpaused
  <2>1. download.v = None /\ download = NoDownload
    BY DEF Init, NoDownload
  <2> QED
    BY <1>3, <2>1, YoutubeAssumption
    DEF Init, LanesOwnTheirRows, DownloadsBeganUnpaused
<1> QED
  BY <1>1, <1>2, <1>4, <1>5, <1>6, <1>7 DEF YtInv, TypeOK

\* The parts of the invariant, for a step that leaves the lanes alone.
LEMMA Assembled ==
  ASSUME YtInv, ListTypes', ChangesReadNoLane', UNCHANGED laneVars,
         UNCHANGED cooldown \/ PushesBack,
         \/ UNCHANGED video
         \/ /\ video' = [v \in Videos |-> video'[v]]
            /\ \A v \in Videos : KeepsLane(video[v], video'[v])
  PROVE  YtInv'
<1>1. UNCHANGED <<download, subtitle, open, completing, files>>
  BY DEF laneVars
<1>2. video' \in [Videos -> Rows] /\ SkipsAreSkipped' /\ LanesOwnTheirRows'
  BY <1>1, RowsKeep, SameRows
<1>3. /\ cooldown' \in [strikes : 0 .. MaxStrikes, on : BOOLEAN]
      /\ DownloadsBeganUnpaused'
  BY <1>1, PauseKeeps
<1>4. LaneTypes'
  BY <1>1 DEF YtInv, TypeOK, LaneTypes
<1> QED
  BY <1>2, <1>3, <1>4 DEF YtInv, TypeOK

LEMMA SameChanges ==
  ASSUME YtInv, changes' \subseteq changes
  PROVE  changes' \subseteq Changes /\ ChangesReadNoLane'
BY DEF YtInv, TypeOK, ListTypes, ChangesReadNoLane

LEMMA FollowKeeps ==
  ASSUME YtInv, NEW p \in Playlists, Follow(p)
  PROVE  YtInv'
<1>1. ListTypes /\ changes' \subseteq Changes /\ ChangesReadNoLane'
  BY SameChanges DEF Follow, YtInv, TypeOK
<1>2. follow' \in [Playlists -> Settings \cup {None}]
  BY <1>1 DEF Follow, ListTypes
<1>3. synced' \in [Playlists -> {"no", "own", "old"}]
  BY <1>1 DEF Follow, ListTypes
<1>4. check' \in [Playlists -> Checks]
  <2>1. CASE QueueCheck(p)
    <3>1. check[p].again \in 0 .. MaxAgain /\ check[p].again < MaxAgain
      BY <1>1, <2>1 DEF QueueCheck, ListTypes, Checks
    <3>2. check[p].again + 1 \in 0 .. MaxAgain
      BY <3>1, YoutubeAssumption
    <3>3. check' = [check EXCEPT ![p] =
                      [check[p] EXCEPT !.again = check[p].again + 1]]
      BY <1>1, <2>1 DEF QueueCheck, ListTypes
    <3>4. [check[p] EXCEPT !.again = check[p].again + 1] \in Checks
      BY <1>1, <3>2 DEF ListTypes, Checks
    <3> QED
      BY <1>1, <3>3, <3>4 DEF ListTypes
  <2>2. CASE UNCHANGED check
    BY <1>1, <2>2 DEF ListTypes
  <2>3. CASE BeginCheck(p, 0)
    <3>1. 0 \in 0 .. MaxAgain
      BY YoutubeAssumption
    <3> QED
      BY <1>1, <1>2, <2>3, <3>1, BeginTypes
  <2>4. QueueCheck(p) \/ UNCHANGED check \/ BeginCheck(p, 0)
    BY Zenon DEF Follow
  <2> QED
    BY <2>1, <2>2, <2>3, <2>4
<1>5. ListTypes' /\ UNCHANGED <<laneVars, video, cooldown>>
  BY <1>1, <1>2, <1>3, <1>4 DEF Follow, ListTypes
<1> QED
  BY <1>1, <1>5, Assembled

LEMMA UnfollowKeeps ==
  ASSUME YtInv, NEW p \in Playlists, Unfollow(p)
  PROVE  YtInv'
<1>1. ListTypes /\ changes' \subseteq Changes /\ ChangesReadNoLane'
  BY SameChanges DEF Unfollow, YtInv, TypeOK
<1>2. check' \in [Playlists -> Checks]
  <2>1. check[p] \in Checks
    BY <1>1 DEF ListTypes
  <2>2. [check[p] EXCEPT !.old = check[p].phase # "none"] \in Checks
    BY <2>1 DEF Checks
  <2> QED
    BY <1>1, <2>2 DEF Unfollow, ListTypes
<1>3. ListTypes' /\ UNCHANGED <<laneVars, video, cooldown>>
  BY <1>1, <1>2 DEF Unfollow, ListTypes
<1> QED
  BY <1>1, <1>3, Assembled

LEMMA StartCheckKeeps ==
  ASSUME YtInv, NEW p \in Playlists, StartCheck(p)
  PROVE  YtInv'
<1>1. ListTypes /\ changes' \subseteq Changes /\ ChangesReadNoLane'
  BY SameChanges DEF StartCheck, YtInv, TypeOK
<1>2. 0 \in 0 .. MaxAgain /\ follow' \in [Playlists -> Settings \cup {None}]
  BY <1>1, YoutubeAssumption DEF StartCheck, ListTypes
<1>3. ListTypes' /\ UNCHANGED <<laneVars, video, cooldown>>
  BY <1>1, <1>2, BeginTypes DEF StartCheck, ListTypes
<1> QED
  BY <1>1, <1>3, Assembled

LEMMA ListingArrivesKeeps ==
  ASSUME YtInv, NEW p \in Playlists, ListingArrives(p)
  PROVE  YtInv'
<1>1. ListTypes /\ changes' \subseteq Changes /\ ChangesReadNoLane'
  BY SameChanges DEF ListingArrives, YtInv, TypeOK
<1>2. check' \in [Playlists -> Checks]
  <2> SUFFICES ASSUME NEW ls \in SUBSET Videos, NEW hid \in SUBSET ls,
                      NEW whole \in BOOLEAN,
                      check' = [check EXCEPT ![p] = WithListing(p, ls, hid, whole)]
               PROVE  check' \in [Playlists -> Checks]
    BY DEF ListingArrives
  <2> DEFINE chosen == {v \in ls \ hid : /\ Includes(check[p].set, v)
                                         /\ v \in check[p].set.backfill}
             c == [check[p] EXCEPT !.phase = "applying", !.first = synced[p] = "no",
                      !.listed = ls, !.hidden = hid, !.whole = whole,
                      !.chosen = chosen]
  <2>1. chosen \in SUBSET Videos /\ hid \in SUBSET Videos /\ ls \in SUBSET Videos
    OBVIOUS
  <2>2. WithListing(p, ls, hid, whole) = c
    BY Zenon DEF WithListing
  <2> HIDE DEF chosen
  <2>3. check[p] \in Checks
    BY <1>1 DEF ListTypes
  <2>4. c \in Checks
    BY <2>1, <2>3 DEF Checks
  <2> QED
    BY <1>1, <2>2, <2>4 DEF ListTypes
<1>3. ListTypes' /\ UNCHANGED <<laneVars, video, cooldown>>
  BY <1>1, <1>2 DEF ListingArrives, ListTypes
<1> QED
  BY <1>1, <1>3, Assembled

\* A check that settles without having stored anything.
LEMMA SettlesKeeps ==
  ASSUME YtInv, NEW p \in Playlists, NEW s \in {"no", "own", "old"},
         EndsCheck(p, s), UNCHANGED cooldown \/ PushesBack,
         UNCHANGED <<follow, items, removed, changes, video, laneVars>>
  PROVE  YtInv'
<1>1. ListTypes /\ changes' \subseteq Changes /\ ChangesReadNoLane'
  BY SameChanges DEF YtInv, TypeOK
<1>2. follow' \in [Playlists -> Settings \cup {None}]
  BY <1>1 DEF ListTypes
<1>3. ListTypes'
  BY <1>1, <1>2, EndsTypes DEF ListTypes
<1> QED
  BY <1>1, <1>3, Assembled

LEMMA CheckEndsKeeps ==
  ASSUME YtInv, NEW p \in Playlists,
         CheckFails(p) \/ CheckGone(p) \/ CheckPushedBack(p)
  PROVE  YtInv'
<1>1. synced[p] \in {"no", "own", "old"}
  BY DEF YtInv, TypeOK, ListTypes
<1>2. EndsCheck(p, synced[p]) \/ EndsCheck(p, "no")
  BY DEF CheckFails, CheckGone, CheckPushedBack
<1>3. /\ UNCHANGED cooldown \/ PushesBack
      /\ UNCHANGED <<follow, items, removed, changes, video, laneVars>>
  BY DEF CheckFails, CheckGone, CheckPushedBack
<1> QED
  BY <1>1, <1>2, <1>3, SettlesKeeps

\* What applyListing does to each row.
LEMMA ListingRows ==
  ASSUME YtInv, NEW p \in Playlists, AppliesListing(p)
  PROVE  /\ video' = [v \in Videos |-> video'[v]]
         /\ \A v \in Videos : /\ KeepsLane(video[v], video'[v])
                              /\ KeepsChoice(video[v], video'[v])
<1> DEFINE New(v) == Listed(video[v], p, Initial(p, v), check[p].first)
<1>1. video' = [v \in Videos |-> IF v \in check[p].listed THEN New(v) ELSE video[v]]
  BY DEF AppliesListing
<1>2. ASSUME NEW v \in Videos
      PROVE  KeepsLane(video[v], New(v)) /\ KeepsChoice(video[v], New(v))
  <2>1. Sound(video[v])
    BY RowsAreSound
  <2> QED
    BY <2>1, InitialRow, ListedRow
<1>3. ASSUME NEW v \in Videos
      PROVE  KeepsLane(video[v], video[v]) /\ KeepsChoice(video[v], video[v])
  <2>1. Sound(video[v])
    BY RowsAreSound
  <2>2. video[v].status = "queued" => video[v].status \notin {"new", "skipped"}
    OBVIOUS
  <2> QED
    BY <2>1, <2>2 DEF KeepsLane, KeepsChoice
<1> HIDE DEF New
<1> QED
  BY <1>1, <1>2, <1>3

LEMMA AppliesListingKeeps ==
  ASSUME YtInv, NEW p \in Playlists, AppliesListing(p)
  PROVE  YtInv'
<1>1. ListTypes /\ changes' \subseteq Changes /\ ChangesReadNoLane'
  BY SameChanges DEF AppliesListing, YtInv, TypeOK
<1>2. follow' \in [Playlists -> Settings \cup {None}]
      /\ UNCHANGED <<laneVars, cooldown>>
  BY <1>1 DEF AppliesListing, ListTypes
<1>3. items' \in [Playlists -> [Videos -> {"never", "early", "late"}]]
  <2> DEFINE Seen(v) == IF v \notin {w \in Videos : items[p][w] # "never"}
                                      \cup check[p].listed THEN "never"
                        ELSE IF check[p].first THEN "early"
                        ELSE IF v \in {w \in Videos : items[p][w] # "never"}
                             THEN items[p][v] ELSE "late"
  <2>1. \A v \in Videos : Seen(v) \in {"never", "early", "late"}
    BY <1>1 DEF ListTypes
  <2>2. items' = [items EXCEPT ![p] = [v \in Videos |-> Seen(v)]]
    BY Zenon DEF AppliesListing
  <2> HIDE DEF Seen
  <2> QED
    BY <1>1, <2>1, <2>2 DEF ListTypes
<1>4. removed' \in [Playlists -> SUBSET Videos]
  <2> DEFINE gone == IF check[p].whole
                     THEN {w \in Videos : items[p][w] # "never"} \ check[p].listed
                     ELSE removed[p] \ check[p].listed
  <2>1. gone \in SUBSET Videos
    BY <1>1 DEF ListTypes
  <2>2. removed' = [removed EXCEPT ![p] = gone]
    BY Zenon DEF AppliesListing
  <2> HIDE DEF gone
  <2> QED
    BY <1>1, <2>1, <2>2 DEF ListTypes
<1>5. check' \in [Playlists -> Checks] /\ synced' \in [Playlists -> {"no", "own", "old"}]
  <2> DEFINE s == IF follow[p] = None THEN "no" ELSE IF check[p].old THEN "old"
                  ELSE IF check[p].first THEN "own" ELSE synced[p]
  <2>1. s \in {"no", "own", "old"}
    BY <1>1 DEF ListTypes
  <2>2. EndsCheck(p, s)
    BY DEF AppliesListing
  <2> HIDE DEF s
  <2> QED
    BY <1>1, <1>2, <2>1, <2>2, EndsTypes
<1>6. ListTypes'
  BY <1>1, <1>2, <1>3, <1>4, <1>5 DEF ListTypes
<1> QED
  BY <1>1, <1>2, <1>6, ListingRows, Assembled

LEMMA ChangeModeKeeps ==
  ASSUME YtInv, NEW p \in Playlists, ChangeMode(p)
  PROVE  YtInv'
<1>1. ListTypes /\ changes' \subseteq Changes /\ ChangesReadNoLane'
  BY SameChanges DEF ChangeMode, YtInv, TypeOK
<1>2. follow' \in [Playlists -> Settings \cup {None}]
  <2>1. follow[p] \in Settings
    BY <1>1 DEF ChangeMode, Followed, ListTypes
  <2>2. [follow[p] EXCEPT !.auto = ~follow[p].auto] \in Settings
    BY <2>1 DEF Settings
  <2>3. follow' = [follow EXCEPT ![p] = [follow[p] EXCEPT !.auto = ~follow[p].auto]]
    BY <1>1 DEF ChangeMode, ListTypes
  <2> QED
    BY <1>1, <2>2, <2>3 DEF ListTypes
<1>3. ListTypes' /\ UNCHANGED <<laneVars, video, cooldown>>
  BY <1>1, <1>2 DEF ChangeMode, ListTypes
<1> QED
  BY <1>1, <1>3, Assembled

LEMMA BackfillChangesKeeps ==
  ASSUME YtInv, NEW p \in Playlists, BackfillChanges(p)
  PROVE  YtInv'
<1>1. ListTypes /\ UNCHANGED <<laneVars, video, cooldown>>
  BY DEF BackfillChanges, YtInv, TypeOK
<1> DEFINE taken == {v \in OwnRows(p) : /\ items[p][v] = "early"
                                        /\ \/ video[v].status \in {"new", "queued"}
                                           \/ video[v].skip = "before"}
<1>2. PICK b \in Backfills : changes' = changes \cup
        {Change("backfill", p, follow[p], taken, b, video, TRUE)}
  BY DEF BackfillChanges
<1> DEFINE c == Change("backfill", p, follow[p], taken, b, video, TRUE)
<1>3. follow[p] \in Settings
  BY <1>1 DEF BackfillChanges, Followed, ListTypes
<1>4. \A v \in taken : video[v].status \in {"new", "queued", "skipped"}
  BY DEF YtInv, SkipsAreSkipped, OwnRows
<1>5. taken \in SUBSET Videos
  BY DEF OwnRows
<1> HIDE DEF taken
<1>6. ReadsNow(c, "backfill", taken)
  BY <1>3, <1>5, NewChange
<1> HIDE DEF c
<1>7. changes' = changes \cup {c}
  BY <1>2 DEF c
<1>8. ChangesReadNoLane'
  BY <1>6, <1>4, <1>7 DEF ChangesReadNoLane, YtInv, ReadsNow
<1>9. ListTypes'
  BY <1>1, <1>6, <1>7 DEF BackfillChanges, ListTypes, ReadsNow
<1> QED
  BY <1>1, <1>8, <1>9, Assembled

LEMMA ContentRows ==
  ASSUME YtInv, NEW p \in Playlists, ContentChanges(p)
  PROVE  \/ UNCHANGED video
         \/ /\ video' = [v \in Videos |-> video'[v]]
            /\ \A v \in Videos : /\ KeepsLane(video[v], video'[v])
                                 /\ KeepsChoice(video[v], video'[v])
<1> DEFINE set == [follow[p] EXCEPT !.shorts = ~@]
           out == {v \in OwnRows(p) : ~Includes(set, v)}
           moved == {v \in out : \/ video[v].status \in {"new", "queued"}
                                 \/ video[v].skip = "before"}
<1>1. UNCHANGED video \/ video' = [v \in Videos |->
        IF v \in out /\ (video[v].status \in {"new", "queued"} \/ video[v].skip = "before")
        THEN Skipped(video[v], "content") ELSE video[v]]
  BY DEF ContentChanges
<1>2. \A v \in moved : /\ video[v].status \in {"new", "queued", "skipped"}
                       /\ ~video[v].picked /\ ~UserSkipped(video[v])
  BY DEF YtInv, SkipsAreSkipped, OwnRows, UserSkipped
<1>3. UNCHANGED video \/ video' = [v \in Videos |->
        IF v \in moved THEN Skipped(video[v], "content") ELSE video[v]]
  BY <1>1, Zenon
<1> HIDE DEF moved
<1>4. ASSUME NEW v \in Videos
      PROVE  /\ KeepsLane(video[v], video[v]) /\ KeepsChoice(video[v], video[v])
             /\ v \in moved => /\ KeepsLane(video[v], Skipped(video[v], "content"))
                               /\ KeepsChoice(video[v], Skipped(video[v], "content"))
  <2>1. Sound(video[v]) /\ video[v] \in Rows /\ "content" \in SkipKinds
    BY RowsAreSound DEF Sound, SkipKinds
  <2>2. /\ Skipped(video[v], "content") \in Rows
        /\ Skipped(video[v], "content").status = "skipped"
    BY <2>1, SkippedRow
  <2>3. video[v].status = "queued" => video[v].status \notin {"new", "skipped"}
    OBVIOUS
  <2>4. KeepsLane(video[v], video[v]) /\ KeepsChoice(video[v], video[v])
    BY <2>1, <2>3 DEF KeepsLane, KeepsChoice
  <2>5. ASSUME v \in moved
        PROVE  /\ KeepsLane(video[v], Skipped(video[v], "content"))
               /\ KeepsChoice(video[v], Skipped(video[v], "content"))
    BY <1>2, <2>2, <2>5 DEF KeepsLane, KeepsChoice, Sound, Held
  <2> QED
    BY <2>4, <2>5
<1> QED
  BY <1>3, <1>4

LEMMA ContentChangesKeeps ==
  ASSUME YtInv, NEW p \in Playlists, ContentChanges(p)
  PROVE  YtInv'
<1> DEFINE set == [follow[p] EXCEPT !.shorts = ~@]
           on == {v \in OwnRows(p) : video[v].skip = "content" /\ Includes(set, v)}
           c == Change("content", p, set, on, set.backfill, video, ~set.shorts)
<1>1. ListTypes /\ UNCHANGED <<laneVars, cooldown>>
  BY DEF ContentChanges, YtInv, TypeOK
<1>2. /\ follow' = [follow EXCEPT ![p] = set]
      /\ changes' = changes \/ changes' = changes \cup {c}
  BY Zenon DEF ContentChanges
<1>3. set \in Settings /\ set.backfill \in Backfills /\ (~set.shorts) \in BOOLEAN
  <2>1. follow[p] \in Settings
    BY <1>1 DEF ContentChanges, Followed, ListTypes
  <2>2. set = [follow[p] EXCEPT !.shorts = ~follow[p].shorts]
    OBVIOUS
  <2>3. set \in Settings
    BY <2>1, <2>2 DEF Settings
  <2> HIDE DEF set
  <2> QED
    BY <2>3 DEF Settings
<1>4. \A v \in on : video[v].status = "skipped"
  BY DEF YtInv, SkipsAreSkipped, OwnRows
<1>5. on \in SUBSET Videos
  BY DEF OwnRows
<1> HIDE DEF set, on
<1>6. ReadsNow(c, "content", on)
  BY <1>3, <1>5, NewChange
<1> HIDE DEF c
<1>7. ChangesReadNoLane'
  BY <1>2, <1>4, <1>6 DEF ChangesReadNoLane, YtInv, ReadsNow
<1>8. ListTypes'
  <2>1. UNCHANGED <<synced, items, removed, check>>
    BY DEF ContentChanges
  <2> QED
    BY <1>1, <1>2, <1>3, <1>6, <2>1 DEF ListTypes, ReadsNow
<1> QED
  BY <1>1, <1>7, <1>8, ContentRows, Assembled

LEMMA ChangeDoneKeeps ==
  ASSUME YtInv, NEW c \in changes, ChangeDone(c)
  PROVE  YtInv'
<1>1. ListTypes /\ UNCHANGED <<laneVars, cooldown>> /\ c \in Changes
  BY DEF ChangeDone, YtInv, TypeOK, ListTypes
<1>2. changes' \subseteq Changes /\ ChangesReadNoLane'
  BY SameChanges DEF ChangeDone
<1>3. follow' \in [Playlists -> Settings \cup {None}]
  <2>1. CASE c.kind = "backfill" /\ follow[c.p] # None
    <3>1. c.p \in Playlists /\ c.choice \in Backfills
      BY <1>1 DEF Changes
    <3>2. follow[c.p] \in Settings
      BY <1>1, <2>1, <3>1 DEF ListTypes
    <3>3. [follow[c.p] EXCEPT !.backfill = c.choice] \in Settings
      BY <3>1, <3>2 DEF Settings
    <3>4. follow' = [follow EXCEPT ![c.p] = [follow[c.p] EXCEPT !.backfill = c.choice]]
      BY <1>1, <2>1, <3>1 DEF ChangeDone, ListTypes
    <3> QED
      BY <1>1, <3>3, <3>4 DEF ListTypes
  <2>2. CASE ~(c.kind = "backfill" /\ follow[c.p] # None)
    BY <1>1, <2>2 DEF ChangeDone, ListTypes
  <2> QED
    BY <2>1, <2>2
<1>4. ListTypes'
  BY <1>1, <1>2, <1>3 DEF ChangeDone, ListTypes
<1>5. video' = [v \in Videos |-> IF Unchanged(c, v)
                  THEN Refiltered(c, video[v], v) ELSE video[v]]
  BY DEF ChangeDone
<1>6. ASSUME NEW v \in Videos
      PROVE  /\ KeepsLane(video[v], video[v])
             /\ Unchanged(c, v) => KeepsLane(video[v], Refiltered(c, video[v], v))
  <2>1. Sound(video[v]) /\ ChangesReadNoLane
    BY RowsAreSound DEF YtInv
  <2> QED
    BY <1>1, <2>1, RefilteredRow DEF KeepsLane
<1> QED
  BY <1>1, <1>2, <1>4, <1>5, <1>6, Assembled

LEMMA ChangeFailsKeeps ==
  ASSUME YtInv, NEW c \in changes, ChangeFails(c)
  PROVE  YtInv'
<1>1. ListTypes /\ UNCHANGED <<laneVars, cooldown, video>> /\ c \in Changes
  BY DEF ChangeFails, YtInv, TypeOK, ListTypes
<1>2. changes' \subseteq Changes /\ ChangesReadNoLane'
  BY SameChanges DEF ChangeFails
<1>3. follow' \in [Playlists -> Settings \cup {None}]
  <2>1. CASE c.kind = "content" /\ follow[c.p] # None
    <3>1. c.p \in Playlists /\ c.restore \in BOOLEAN
      BY <1>1 DEF Changes
    <3>2. follow[c.p] \in Settings
      BY <1>1, <2>1, <3>1 DEF ListTypes
    <3>3. [follow[c.p] EXCEPT !.shorts = c.restore] \in Settings
      BY <3>1, <3>2 DEF Settings
    <3>4. follow' = [follow EXCEPT ![c.p] = [follow[c.p] EXCEPT !.shorts = c.restore]]
      BY <1>1, <2>1, <3>1 DEF ChangeFails, ListTypes
    <3> QED
      BY <1>1, <3>3, <3>4 DEF ListTypes
  <2>2. CASE ~(c.kind = "content" /\ follow[c.p] # None)
    BY <1>1, <2>2 DEF ChangeFails, ListTypes
  <2> QED
    BY <2>1, <2>2
<1>4. ListTypes'
  BY <1>1, <1>2, <1>3 DEF ChangeFails, ListTypes
<1> QED
  BY <1>1, <1>2, <1>4, Assembled

LEMMA SameLists ==
  ASSUME YtInv, UNCHANGED listVars
  PROVE  ListTypes' /\ ChangesReadNoLane'
<1>1. UNCHANGED <<follow, synced, items, removed, check, changes>>
  BY DEF listVars
<1>2. ListTypes'
  BY <1>1 DEF YtInv, TypeOK, ListTypes
<1>3. ChangesReadNoLane'
  BY <1>1, SameChanges
<1> QED
  BY <1>2, <1>3

LEMMA OneRowMoves ==
  ASSUME YtInv, NEW v \in Videos, NEW r, Sound(r), SetsRow(v, r)
  PROVE  /\ video' \in [Videos -> Rows] /\ SkipsAreSkipped'
         /\ video' = [w \in Videos |-> video'[w]]
         /\ \A w \in Videos : video'[w] = IF w = v THEN r ELSE video[w]
<1>1. video \in [Videos -> Rows] /\ SkipsAreSkipped
  BY DEF YtInv, TypeOK
<1> QED
  BY <1>1 DEF SetsRow, Sound, SkipsAreSkipped

LEMMA UserActsKeeps ==
  ASSUME YtInv, NEW v \in Videos, UserActs(v)
  PROVE  YtInv'
<1> DEFINE row == video[v]
<1>1. Sound(row) /\ row \in Rows
  BY RowsAreSound DEF Sound
<1>2. {"queued", "skipped"} \subseteq Statuses /\ "user" \in SkipKinds
      /\ 0 \in 0 .. Retries + 1
  BY YoutubeAssumption DEF Statuses, SkipKinds
<1>3. row.status \notin Held
  BY DEF UserActs, UserDownload, UserRetry, UserSkip, Held
<1> DEFINE picked == [row EXCEPT !.picked = TRUE, !.later = FALSE, !.fails = 0]
           queued == [Fresh(row, "queued") EXCEPT !.picked = TRUE]
<1>4. PICK r \in {picked, queued, Skipped(row, "user")} :
        SetsRow(v, r) /\ (r = picked => row.status = "queued")
  <2>1. CASE UserDownload(v) /\ row.status = "queued"
    BY <2>1 DEF UserDownload
  <2>2. CASE UserDownload(v) /\ row.status # "queued"
    <3>1. SetsRow(v, queued)
      BY <2>2 DEF UserDownload
    <3>2. queued.status = "queued" /\ picked.status = row.status
      BY <1>1, <1>2, FreshRow DEF Rows
    <3> HIDE DEF picked, queued
    <3> QED
      BY <2>2, <3>1, <3>2
  <2>3. CASE UserRetry(v)
    <3>1. SetsRow(v, queued) /\ row.status # "queued"
      BY <2>3 DEF UserRetry
    <3>2. queued.status = "queued" /\ picked.status = row.status
      BY <1>1, <1>2, FreshRow DEF Rows
    <3> HIDE DEF picked, queued
    <3> QED
      BY <3>1, <3>2
  <2>4. CASE UserSkip(v)
    <3>1. SetsRow(v, Skipped(row, "user")) /\ row.status # "skipped"
      BY <2>4 DEF UserSkip
    <3>2. Skipped(row, "user").status = "skipped" /\ picked.status = row.status
      BY <1>1, <1>2, SkippedRow DEF Rows
    <3> HIDE DEF picked, queued
    <3> QED
      BY <3>1, <3>2
  <2> QED
    BY <2>1, <2>2, <2>3, <2>4 DEF UserActs
<1>5. Sound(queued) /\ queued.status \notin Held
  <2>1. /\ Fresh(row, "queued") \in Rows /\ Fresh(row, "queued").skip = "none"
        /\ Fresh(row, "queued").status = "queued"
    BY <1>1, <1>2, FreshRow
  <2> HIDE DEF row
  <2> QED
    BY <2>1 DEF Sound, Rows, Held
<1>6. Sound(Skipped(row, "user")) /\ Skipped(row, "user").status \notin Held
  BY <1>1, <1>2, SkippedRow DEF Sound, Held
<1>7. row.status = "queued" => Sound(picked) /\ picked.status \notin Held
  BY <1>1, <1>2 DEF Sound, Rows, Held
<1> HIDE DEF row, picked, queued
<1>8. Sound(r) /\ KeepsLane(row, r)
  BY <1>3, <1>4, <1>5, <1>6, <1>7 DEF KeepsLane
<1>9. \A w \in Videos : KeepsLane(video[w], video'[w])
  <2>1. \A w \in Videos : KeepsLane(video[w], video[w])
    BY RowsAreSound DEF KeepsLane
  <2>2. \A w \in Videos : video'[w] = IF w = v THEN r ELSE video[w]
    BY <1>4, <1>8, OneRowMoves
  <2> QED
    BY <1>8, <2>1, <2>2 DEF row
<1> QED
  BY <1>4, <1>8, <1>9, OneRowMoves, SameLists, Assembled DEF UserActs

LEMMA RetryDueKeeps ==
  ASSUME YtInv, NEW v \in Videos, RetryDue(v)
  PROVE  YtInv'
<1> DEFINE r == [video[v] EXCEPT !.later = FALSE]
<1>1. Sound(video[v]) /\ video[v] \in Rows
  BY RowsAreSound DEF Sound
<1>2. Sound(r) /\ KeepsLane(video[v], r)
  BY <1>1 DEF Sound, KeepsLane, Rows
<1>3. SetsRow(v, r)
  BY DEF RetryDue
<1> HIDE DEF r
<1>4. \A w \in Videos : KeepsLane(video[w], video'[w])
  <2>1. \A w \in Videos : KeepsLane(video[w], video[w])
    BY RowsAreSound DEF KeepsLane
  <2>2. \A w \in Videos : video'[w] = IF w = v THEN r ELSE video[w]
    BY <1>2, <1>3, OneRowMoves
  <2> QED
    BY <1>2, <2>1, <2>2
<1> QED
  BY <1>2, <1>3, <1>4, OneRowMoves, SameLists, Assembled DEF RetryDue

\* The videos whose time has come.
LEMMA WokenRows ==
  ASSUME YtInv
  PROVE  /\ Woken \in [Videos -> Rows] /\ Woken = [v \in Videos |-> Woken[v]]
         /\ \A v \in Videos : KeepsLane(video[v], Woken[v])
         /\ \A v \in Videos : \/ Woken[v] = video[v]
                              \/ /\ video[v].status = "waiting"
                                 /\ Woken[v].status = "queued"
                                 /\ Woken[v].picked = video[v].picked
<1>1. \A v \in Videos : Woken[v] = video[v] \/
        /\ video[v].status = "waiting" /\ Woken[v] = Moved(video[v], "queued")
  BY DEF Woken
<1>2. \A v \in Videos : Sound(video[v]) /\ video[v] \in Rows
  BY RowsAreSound DEF Sound
<1>3. ASSUME NEW v \in Videos
      PROVE  /\ Sound(Moved(video[v], "queued"))
             /\ Moved(video[v], "queued").status = "queued"
             /\ Moved(video[v], "queued").picked = video[v].picked
  <2>1. "queued" \in Statuses
    BY DEF Statuses
  <2> QED
    BY <1>2, <2>1, MovedRow DEF Sound
<1>4. \A v \in Videos : Sound(Woken[v]) /\ KeepsLane(video[v], Woken[v])
  BY <1>1, <1>2, <1>3 DEF KeepsLane, Held
<1> QED
  BY <1>1, <1>3, <1>4 DEF Woken, Sound

LEMMA WakesOnlyKeeps ==
  ASSUME YtInv, WakesOnly
  PROVE  YtInv'
<1>1. video' = Woken /\ UNCHANGED <<listVars, laneVars, cooldown>>
  BY DEF WakesOnly
<1>2. /\ video' = [v \in Videos |-> video'[v]]
      /\ \A v \in Videos : KeepsLane(video[v], video'[v])
  BY <1>1, WokenRows
<1> QED
  BY <1>1, <1>2, SameLists, Assembled

\* The parts of the invariant, for a step of a lane.
LEMMA LaneAssembled ==
  ASSUME YtInv, UNCHANGED listVars, LaneTypes', LanesOwnTheirRows',
         video' \in [Videos -> Rows], SkipsAreSkipped',
         cooldown' \in [strikes : 0 .. MaxStrikes, on : BOOLEAN],
         DownloadsBeganUnpaused'
  PROVE  YtInv'
BY SameLists DEF YtInv, TypeOK

LEMMA TakeVideoKeeps ==
  ASSUME YtInv, NEW v \in Videos, TakeVideo(v)
  PROVE  YtInv'
<1> DEFINE row == Woken[v]
<1>1. /\ row.status = "queued" /\ row.owner \in Playlists
      /\ row \in Rows /\ download.v = None /\ ~cooldown.on
  BY WokenRows DEF TakeVideo, Firsts, Ready, Followed, LaneIdle
<1>2. {"transcribing", "failed", "downloading"} \subseteq Statuses
  BY DEF Statuses
<1>3. \A w \in Videos : /\ video[w].status # "downloading"
                        /\ Woken[w].status # "downloading"
                        /\ KeepsLane(video[w], Woken[w])
  BY <1>1, WokenRows, YoutubeAssumption DEF YtInv, LanesOwnTheirRows, KeepsLane, Held
<1> DEFINE began == [v |-> v, p |-> row.owner, landed |-> FALSE,
                      strikes |-> cooldown.strikes]
<1>4. PICK n \in {Fresh(row, "transcribing"), Moved(row, "failed"),
                   Moved(row, "downloading")} :
        /\ video' = [Woken EXCEPT ![v] = n]
        /\ IF n = Moved(row, "downloading") THEN download' = began
           ELSE UNCHANGED download
  <2>1. /\ Fresh(row, "transcribing").status = "transcribing"
        /\ Moved(row, "failed").status = "failed"
        /\ Moved(row, "downloading").status = "downloading"
    <3> HIDE DEF row
    <3>1. Fresh(row, "transcribing").status = "transcribing"
      BY <1>1, <1>2, FreshRow
    <3>2. Moved(row, "failed").status = "failed"
      BY <1>1, <1>2, MovedRow
    <3>3. Moved(row, "downloading").status = "downloading"
      BY <1>1, <1>2, MovedRow
    <3> QED
      BY <3>1, <3>2, <3>3
  <2>2. \/ video' = [Woken EXCEPT ![v] = Fresh(row, "transcribing")]
           /\ UNCHANGED download
        \/ video' = [Woken EXCEPT ![v] = Moved(row, "failed")]
           /\ UNCHANGED download
        \/ video' = [Woken EXCEPT ![v] = Moved(row, "downloading")]
           /\ download' = began
    BY DEF TakeVideo
  <2> HIDE DEF began, row
  <2> QED
    BY <2>1, <2>2
<1>5. /\ n \in Rows /\ n.skip = "none" /\ n.status \in {"transcribing", "failed", "downloading"}
      /\ n = Moved(row, "downloading") <=> n.status = "downloading"
  <2>1. /\ Fresh(row, "transcribing") \in Rows
        /\ Fresh(row, "transcribing").status = "transcribing"
        /\ Fresh(row, "transcribing").skip = "none"
    BY <1>1, <1>2, FreshRow
  <2>2. /\ Moved(row, "failed") \in Rows /\ Moved(row, "failed").status = "failed"
        /\ Moved(row, "failed").skip = "none"
    BY <1>1, <1>2, MovedRow
  <2>3. /\ Moved(row, "downloading") \in Rows
        /\ Moved(row, "downloading").status = "downloading"
        /\ Moved(row, "downloading").skip = "none"
    BY <1>1, <1>2, MovedRow
  <2> HIDE DEF row
  <2> QED
    BY <2>1, <2>2, <2>3
<1>6. video' \in [Videos -> Rows] /\ SkipsAreSkipped'
      /\ \A w \in Videos : video'[w] = IF w = v THEN n ELSE Woken[w]
  <2>1. \A w \in Videos : Sound(Woken[w])
    BY WokenRows DEF KeepsLane
  <2> HIDE DEF row
  <2> QED
    BY <1>4, <1>5, <2>1, WokenRows DEF SkipsAreSkipped, Sound
<1>7. /\ cooldown \in [strikes : 0 .. MaxStrikes, on : BOOLEAN]
      /\ UNCHANGED <<listVars, subtitle, open, completing, files, cooldown>>
  BY DEF TakeVideo, YtInv, TypeOK
<1>8. LaneTypes' /\ DownloadsBeganUnpaused'
  <2>1. CASE n.status = "downloading"
    <3>1. download' = began
      BY <1>4, <1>5, <2>1
    <3>2. /\ began \in [v : Videos \cup {None}, p : Playlists \cup {None},
                        strikes : 0 .. MaxStrikes, landed : BOOLEAN]
          /\ began.v = v /\ began.p \in Playlists /\ began.strikes = cooldown.strikes
      BY <1>1, <1>7
    <3>3. cooldown.strikes >= cooldown.strikes /\ v # None
      BY <1>7, YoutubeAssumption
    <3> HIDE DEF began
    <3> QED
      BY <1>1, <1>7, <3>1, <3>2, <3>3
      DEF YtInv, TypeOK, LaneTypes, DownloadsBeganUnpaused
  <2>2. CASE n.status # "downloading"
    <3>1. UNCHANGED download
      BY <1>4, <1>5, <2>2
    <3> QED
      BY <1>7, <3>1, PauseKeeps DEF YtInv, TypeOK, LaneTypes
  <2> QED
    BY <2>1, <2>2
<1>9. LanesOwnTheirRows'
  <2>1. \A w \in Videos : video'[w].status = "downloading" <=> download'.v = w
    <3>1. began.v = v
      OBVIOUS
    <3>2. download'.v = IF n.status = "downloading" THEN v ELSE None
      BY <1>1, <1>4, <1>5, <3>1
    <3> QED
      BY <1>3, <1>6, <3>2, YoutubeAssumption
  <2>2. video[v].status \notin Held
    BY <1>1, WokenRows DEF Held
  <2>3. \A w \in Videos \ {v} : video[w].status \in Held => video'[w].status = video[w].status
    BY <1>3, <1>6 DEF KeepsLane
  <2>4. /\ subtitle' # None => video'[subtitle'].status = "transcribing"
        /\ \A w \in completing' : video'[w].status = "translating"
    BY <1>7, <2>2, <2>3 DEF YtInv, TypeOK, LaneTypes, LanesOwnTheirRows, Held
  <2> QED
    BY <2>1, <2>4 DEF LanesOwnTheirRows
<1> QED
  BY <1>6, <1>7, <1>8, <1>9, LaneAssembled

LEMMA DownloadLandsKeeps ==
  ASSUME YtInv, DownloadLands
  PROVE  YtInv'
<1>1. /\ download.v \in Videos /\ download.p \in Playlists
      /\ download \in [v : Videos \cup {None}, p : Playlists \cup {None},
                       strikes : 0 .. MaxStrikes, landed : BOOLEAN]
      /\ files \in [Playlists -> SUBSET Videos]
  BY DEF DownloadLands, LaneIdle, DownloadsBeganUnpaused, YtInv, TypeOK, LaneTypes
<1>2. /\ UNCHANGED <<listVars, video, subtitle, open, completing, cooldown>>
      /\ download' = [download EXCEPT !.landed = TRUE]
      /\ files' = [files EXCEPT ![download.p] = files[download.p] \cup {download.v}]
  BY <1>1 DEF DownloadLands
<1>3. /\ download'.v = download.v /\ download'.p = download.p
      /\ download'.strikes = download.strikes
      /\ download' \in [v : Videos \cup {None}, p : Playlists \cup {None},
                        strikes : 0 .. MaxStrikes, landed : BOOLEAN]
  BY <1>1, <1>2
<1>4. LaneTypes'
  BY <1>1, <1>2, <1>3 DEF YtInv, TypeOK, LaneTypes
<1>5. DownloadsBeganUnpaused' /\ LanesOwnTheirRows'
  BY <1>1, <1>2, <1>3, YoutubeAssumption
  DEF YtInv, DownloadsBeganUnpaused, LanesOwnTheirRows
<1>6. video' \in [Videos -> Rows] /\ SkipsAreSkipped'
      /\ cooldown' \in [strikes : 0 .. MaxStrikes, on : BOOLEAN]
  BY <1>2 DEF YtInv, TypeOK, SkipsAreSkipped
<1> QED
  BY <1>2, <1>4, <1>5, <1>6, LaneAssembled

\* The lane's row goes on, and the lane is free.
LEMMA DownloadEnds ==
  ASSUME YtInv, download.v # None, NEW r, Sound(r), SetsRow(download.v, r),
         r.status # "downloading", download' = NoDownload,
         UNCHANGED <<listVars, subtitle, open, completing, files>>,
         cooldown' \in [strikes : 0 .. MaxStrikes, on : BOOLEAN]
  PROVE  YtInv'
<1>1. download.v \in Videos
  BY DEF YtInv, TypeOK, LaneTypes
<1>2. /\ video' \in [Videos -> Rows] /\ SkipsAreSkipped'
      /\ \A w \in Videos : video'[w] = IF w = download.v THEN r ELSE video[w]
  BY <1>1, OneRowMoves
<1>3. NoDownload.v = None /\ NoDownload \in
        [v : Videos \cup {None}, p : Playlists \cup {None},
         strikes : 0 .. MaxStrikes, landed : BOOLEAN]
  BY YoutubeAssumption DEF NoDownload
<1>4. LaneTypes' /\ DownloadsBeganUnpaused'
  BY <1>3 DEF YtInv, TypeOK, LaneTypes, DownloadsBeganUnpaused
<1>5. LanesOwnTheirRows'
  <2>1. video[download.v].status = "downloading"
    BY <1>1 DEF YtInv, LanesOwnTheirRows
  <2>2. \A w \in Videos : video'[w].status # "downloading" /\ download'.v # w
    BY <1>2, <1>3, YoutubeAssumption DEF YtInv, LanesOwnTheirRows
  <2> QED
    BY <1>1, <1>2, <2>1, <2>2 DEF YtInv, TypeOK, LaneTypes, LanesOwnTheirRows
<1> QED
  BY <1>2, <1>4, <1>5, LaneAssembled

LEMMA DownloadSucceedsKeeps ==
  ASSUME YtInv, DownloadSucceeds
  PROVE  YtInv'
<1> DEFINE r == Fresh(video[download.v], "transcribing")
<1>1. download.v # None
  BY DEF DownloadSucceeds, YtInv, DownloadsBeganUnpaused, NoDownload
<1>2. video[download.v] \in Rows /\ "transcribing" \in Statuses
  BY <1>1 DEF YtInv, TypeOK, LaneTypes, Statuses
<1>3. Sound(r) /\ r.status # "downloading"
  BY <1>2, FreshRow DEF Sound
<1>4. cooldown' \in [strikes : 0 .. MaxStrikes, on : BOOLEAN]
  BY YoutubeAssumption DEF DownloadSucceeds, ClearsSeen, YtInv, TypeOK
<1>5. /\ SetsRow(download.v, r) /\ download' = NoDownload
      /\ UNCHANGED <<listVars, subtitle, open, completing, files>>
  BY DEF DownloadSucceeds
<1> HIDE DEF r
<1> QED
  BY <1>1, <1>3, <1>4, <1>5, DownloadEnds

LEMMA SettledRow ==
  ASSUME NEW r \in Rows, NEW result \in Results
  PROVE  Sound(Settled(r, result)) /\ Settled(r, result).status \notin Held
<1>1. /\ {"unavailable", "waiting", "failed", "queued"} \subseteq Statuses
      /\ "members" \in SkipKinds
  BY DEF Statuses, SkipKinds
<1>2. /\ Moved(r, "unavailable") \in Rows /\ Moved(r, "unavailable").skip = "none"
      /\ Moved(r, "unavailable").status = "unavailable"
  BY <1>1, MovedRow
<1>3. Settled(r, result) \in
        {[Moved(r, "unavailable") EXCEPT !.lost = TRUE], Skipped(r, "members"),
         PutOff(r, "waiting"), Moved(r, "failed"), RetriedOrFailed(r, "queued"),
         Moved(r, "queued")}
  BY DEF Settled, Results
<1>4. /\ [Moved(r, "unavailable") EXCEPT !.lost = TRUE] \in Rows
      /\ [Moved(r, "unavailable") EXCEPT !.lost = TRUE].skip = "none"
      /\ [Moved(r, "unavailable") EXCEPT !.lost = TRUE].status = "unavailable"
  BY <1>2 DEF Rows
<1>5. /\ Skipped(r, "members") \in Rows
      /\ Skipped(r, "members").status = "skipped"
  BY <1>1, SkippedRow
<1>6. /\ PutOff(r, "waiting") \in Rows /\ PutOff(r, "waiting").skip = "none"
      /\ PutOff(r, "waiting").status = "waiting"
  BY <1>1, PutOffRow
<1>7. \A s \in {"failed", "queued"} :
        /\ Moved(r, s) \in Rows /\ Moved(r, s).status = s
        /\ Moved(r, s).skip = "none"
  <2> SUFFICES ASSUME NEW s \in {"failed", "queued"}
               PROVE  /\ Moved(r, s) \in Rows /\ Moved(r, s).status = s
                      /\ Moved(r, s).skip = "none"
    OBVIOUS
  <2>1. s \in Statuses
    BY <1>1
  <2> QED
    BY <2>1, MovedRow
<1>8. /\ RetriedOrFailed(r, "queued") \in Rows
      /\ RetriedOrFailed(r, "queued").status \in {"queued", "failed"}
      /\ RetriedOrFailed(r, "queued").skip = "none"
  BY <1>1, RetriedRow
<1> QED
  BY <1>3, <1>4, <1>5, <1>6, <1>7, <1>8 DEF Sound, Held

LEMMA DownloadRefusedKeeps ==
  ASSUME YtInv, DownloadRefused
  PROVE  YtInv'
<1>1. download.v \in Videos /\ video[download.v] \in Rows
  BY DEF DownloadRefused, LaneIdle, YtInv, TypeOK, LaneTypes
<1>2. PICK result \in Results :
        /\ SetsRow(download.v, Settled(video[download.v], result))
        /\ PushesBack \/ UNCHANGED cooldown
  BY DEF DownloadRefused
<1> DEFINE r == Settled(video[download.v], result)
<1>3. Sound(r) /\ r.status # "downloading"
  BY <1>1, SettledRow DEF Held
<1>4. cooldown' \in [strikes : 0 .. MaxStrikes, on : BOOLEAN]
  <2>1. cooldown \in [strikes : 0 .. MaxStrikes, on : BOOLEAN]
    BY DEF YtInv, TypeOK
  <2>2. CASE PushesBack
    <3>1. cooldown.strikes + 1 \in 0 .. MaxStrikes
      BY <2>1, <2>2, YoutubeAssumption DEF PushesBack
    <3> QED
      BY <2>2, <3>1 DEF PushesBack
  <2> QED
    BY <1>2, <2>1, <2>2
<1>5. /\ download' = NoDownload /\ download.v # None
      /\ UNCHANGED <<listVars, subtitle, open, completing, files>>
  BY DEF DownloadRefused, LaneIdle
<1> HIDE DEF r
<1> QED
  BY <1>2, <1>3, <1>4, <1>5, DownloadEnds DEF r

\* A subtitle ends: its row goes on, and that lane is free.
LEMMA SubtitleEnds ==
  ASSUME YtInv, subtitle # None, NEW r, Sound(r), SetsRow(subtitle, r),
         r.status # "downloading", subtitle' = None,
         UNCHANGED <<listVars, download, completing, files>>,
         open' \in SUBSET Videos, UNCHANGED cooldown \/ PushesBack
  PROVE  YtInv'
<1>1. subtitle \in Videos /\ video[subtitle].status = "transcribing"
  BY DEF YtInv, TypeOK, LaneTypes, LanesOwnTheirRows
<1>2. /\ video' \in [Videos -> Rows] /\ SkipsAreSkipped'
      /\ \A w \in Videos : video'[w] = IF w = subtitle THEN r ELSE video[w]
  BY <1>1, OneRowMoves
<1>3. /\ cooldown' \in [strikes : 0 .. MaxStrikes, on : BOOLEAN]
      /\ DownloadsBeganUnpaused'
  BY PauseKeeps
<1>4. LaneTypes'
  BY DEF YtInv, TypeOK, LaneTypes
<1>5. LanesOwnTheirRows'
  BY <1>1, <1>2 DEF YtInv, TypeOK, LaneTypes, LanesOwnTheirRows
<1> QED
  BY <1>2, <1>3, <1>4, <1>5, LaneAssembled

LEMMA SubtitleKeeps ==
  ASSUME YtInv, SubtitleMade \/ SubtitleWaits \/ CaptionPushedBack \/ SubtitleFails
  PROVE  YtInv'
<1> DEFINE row == video[subtitle]
<1>1. subtitle \in Videos /\ subtitle # None /\ row \in Rows /\ open \in SUBSET Videos
  BY DEF SubtitleMade, SubtitleWaits, CaptionPushedBack, SubtitleFails, YtInv,
         TypeOK, LaneTypes
<1>2. "translating" \in Statuses /\ "transcribing" \in Statuses
  BY DEF Statuses
<1>3. PICK r \in {Fresh(row, "translating"), PutOff(row, "transcribing"),
                   RetriedOrFailed(row, "transcribing")} : SetsRow(subtitle, r)
  BY DEF SubtitleMade, SubtitleWaits, CaptionPushedBack, SubtitleFails
<1>4. Sound(r) /\ r.status # "downloading"
  <2>1. Sound(Fresh(row, "translating")) /\ Fresh(row, "translating").status = "translating"
    BY <1>1, <1>2, FreshRow DEF Sound
  <2>2. Sound(PutOff(row, "transcribing"))
        /\ PutOff(row, "transcribing").status = "transcribing"
    BY <1>1, <1>2, PutOffRow DEF Sound
  <2>3. Sound(RetriedOrFailed(row, "transcribing"))
        /\ RetriedOrFailed(row, "transcribing").status \in {"transcribing", "failed"}
    BY <1>1, <1>2, RetriedRow DEF Sound
  <2> HIDE DEF row
  <2> QED
    BY <1>3, <2>1, <2>2, <2>3
<1>5. /\ subtitle' = None /\ UNCHANGED <<listVars, download, completing, files>>
      /\ open' \in {open, open \cup {subtitle}}
      /\ UNCHANGED cooldown \/ PushesBack
  BY DEF SubtitleMade, SubtitleWaits, CaptionPushedBack, SubtitleFails
<1>6. open' \in SUBSET Videos
  BY <1>1, <1>5
<1> QED
  BY <1>1, <1>3, <1>4, <1>5, <1>6, SubtitleEnds

\* A lane takes a row as it stands, jobs settle, the cooldown ends.
LEMMA StandingKeeps ==
  ASSUME YtInv, UNCHANGED <<listVars, video, download, files>>,
         subtitle' \in Videos \cup {None}, completing' \in SUBSET Videos,
         open' \in SUBSET Videos,
         subtitle' # None => video[subtitle'].status = "transcribing",
         \A w \in completing' : video[w].status = "translating",
         UNCHANGED cooldown \/ (/\ cooldown.on
                                /\ cooldown' = [cooldown EXCEPT !.on = FALSE])
  PROVE  YtInv'
<1>1. cooldown \in [strikes : 0 .. MaxStrikes, on : BOOLEAN]
  BY DEF YtInv, TypeOK
<1>2. /\ cooldown' \in [strikes : 0 .. MaxStrikes, on : BOOLEAN]
      /\ cooldown'.strikes = cooldown.strikes /\ (cooldown'.on => cooldown.on)
  BY <1>1
<1>3. DownloadsBeganUnpaused'
  BY <1>2 DEF YtInv, DownloadsBeganUnpaused, NoDownload
<1>4. LaneTypes' /\ LanesOwnTheirRows'
  BY DEF YtInv, TypeOK, LaneTypes, LanesOwnTheirRows
<1>5. video' \in [Videos -> Rows] /\ SkipsAreSkipped'
  BY DEF YtInv, TypeOK, SkipsAreSkipped
<1> QED
  BY <1>2, <1>3, <1>4, <1>5, LaneAssembled

LEMMA OtherLaneSteps ==
  ASSUME YtInv, NEW v \in Videos,
         \/ TakeSubtitle(v) \/ JobsSettle(v) \/ FinishBegins(v) \/ FinishFails(v)
         \/ CooldownEnds
  PROVE  YtInv'
<1>1. /\ subtitle \in Videos \cup {None} /\ open \in SUBSET Videos
      /\ completing \in SUBSET Videos
      /\ subtitle # None => video[subtitle].status = "transcribing"
      /\ \A w \in completing : video[w].status = "translating"
  BY DEF YtInv, TypeOK, LaneTypes, LanesOwnTheirRows
<1>2. CASE TakeSubtitle(v)
  BY <1>1, <1>2, StandingKeeps DEF TakeSubtitle, WantsSubtitle
<1>3. CASE JobsSettle(v)
  BY <1>1, <1>3, StandingKeeps DEF JobsSettle
<1>4. CASE FinishBegins(v)
  BY <1>1, <1>4, StandingKeeps DEF FinishBegins, Finishable
<1>5. CASE FinishFails(v)
  BY <1>1, <1>5, StandingKeeps DEF FinishFails
<1>6. CASE CooldownEnds
  BY <1>1, <1>6, StandingKeeps DEF CooldownEnds, laneVars
<1> QED
  BY <1>2, <1>3, <1>4, <1>5, <1>6

LEMMA FinishDoneKeeps ==
  ASSUME YtInv, NEW v \in Videos, FinishDone(v)
  PROVE  YtInv'
<1> DEFINE r == Moved(video[v], "done")
<1>1. video[v] \in Rows /\ "done" \in Statuses /\ video[v].status = "translating"
  BY DEF FinishDone, YtInv, TypeOK, LanesOwnTheirRows, Statuses
<1>2. Sound(r) /\ r.status = "done"
  BY <1>1, MovedRow DEF Sound
<1>3. /\ SetsRow(v, r) /\ completing' = completing \ {v}
      /\ UNCHANGED <<listVars, download, subtitle, open, files, cooldown>>
  BY DEF FinishDone
<1> HIDE DEF r
<1>4. /\ video' \in [Videos -> Rows] /\ SkipsAreSkipped'
      /\ \A w \in Videos : video'[w] = IF w = v THEN r ELSE video[w]
  BY <1>2, <1>3, OneRowMoves
<1>5. /\ cooldown' \in [strikes : 0 .. MaxStrikes, on : BOOLEAN]
      /\ DownloadsBeganUnpaused'
  BY <1>3, PauseKeeps
<1>6. LaneTypes' /\ LanesOwnTheirRows'
  BY <1>1, <1>2, <1>3, <1>4 DEF YtInv, TypeOK, LaneTypes, LanesOwnTheirRows
<1> QED
  BY <1>3, <1>4, <1>5, <1>6, LaneAssembled

LEMMA ReconciledRow ==
  ASSUME NEW v \in Videos, Sound(video[v])
  PROVE  /\ Sound(Reconciled(v)) /\ Reconciled(v).status # "downloading"
         /\ Reconciled(v).picked = video[v].picked
         /\ \/ Reconciled(v) = video[v]
            \/ Reconciled(v).status \in {"queued", "transcribing"}
               /\ video[v].status \in {"downloading", "queued"}
<1> DEFINE r == Requeued(video[v])
<1>1. {"queued", "transcribing"} \subseteq Statuses /\ video[v] \in Rows
  BY DEF Statuses, Sound
<1>2. /\ Sound(r) /\ r.status # "downloading" /\ r.picked = video[v].picked
      /\ r = video[v] \/ (r.status = "queued" /\ video[v].status = "downloading")
  <2>1. CASE video[v].status = "downloading"
    <3>1. r = [Moved(video[v], "queued") EXCEPT !.later = video[v].later]
      BY <2>1 DEF Requeued
    <3> QED
      BY <1>1, <2>1, <3>1, MovedRow DEF Sound, Rows
  <2>2. CASE video[v].status # "downloading"
    <3>1. r = video[v]
      BY <2>2 DEF Requeued
    <3> HIDE DEF r
    <3> QED
      BY <2>2, <3>1
  <2> QED
    BY <2>1, <2>2
<1>3. Reconciled(v) = r \/ (Reconciled(v) = Fresh(r, "transcribing") /\ r.status = "queued")
  BY DEF Reconciled
<1> HIDE DEF r
<1>4. /\ Sound(Fresh(r, "transcribing")) /\ Fresh(r, "transcribing").status = "transcribing"
      /\ Fresh(r, "transcribing").picked = r.picked
  BY <1>1, <1>2, FreshRow DEF Sound
<1> QED
  BY <1>2, <1>3, <1>4

LEMMA RestartKeeps ==
  ASSUME YtInv, Restart
  PROVE  YtInv'
<1>1. ListTypes /\ changes' \subseteq Changes /\ ChangesReadNoLane'
  BY SameChanges DEF Restart, YtInv, TypeOK
<1>2. NoCheck \in Checks
  BY YoutubeAssumption DEF NoCheck, Checks
<1>3. ListTypes'
  BY <1>1, <1>2 DEF Restart, ListTypes
<1>4. \A v \in Videos : /\ video'[v] = Reconciled(v) /\ Sound(Reconciled(v))
                        /\ Reconciled(v).status # "downloading"
  BY RowsAreSound, ReconciledRow DEF Restart
<1>5. video' \in [Videos -> Rows] /\ SkipsAreSkipped'
  BY <1>4 DEF Restart, Sound, SkipsAreSkipped
<1>6. LaneTypes' /\ DownloadsBeganUnpaused' /\ LanesOwnTheirRows'
      /\ cooldown' \in [strikes : 0 .. MaxStrikes, on : BOOLEAN]
  BY <1>4, YoutubeAssumption
  DEF Restart, YtInv, TypeOK, LaneTypes, DownloadsBeganUnpaused, NoDownload,
      LanesOwnTheirRows
<1> QED
  BY <1>1, <1>3, <1>5, <1>6 DEF YtInv, TypeOK

LEMMA NextKeeps ==
  YtInv /\ [Next]_vars => YtInv'
<1> SUFFICES ASSUME YtInv, [Next]_vars PROVE YtInv'
  OBVIOUS
<1>1. CASE UNCHANGED vars
  <2>1. UNCHANGED <<listVars, laneVars, video, cooldown>>
    BY <1>1 DEF vars
  <2> QED
    BY <2>1, SameLists, Assembled
<1>2. CASE \E p \in Playlists :
             \/ Follow(p) \/ Unfollow(p) \/ StartCheck(p) \/ ListingArrives(p)
             \/ AppliesListing(p) \/ CheckFails(p) \/ CheckGone(p)
             \/ CheckPushedBack(p) \/ ChangeMode(p) \/ BackfillChanges(p)
             \/ ContentChanges(p)
  BY <1>2, FollowKeeps, UnfollowKeeps, StartCheckKeeps, ListingArrivesKeeps,
     AppliesListingKeeps, CheckEndsKeeps, ChangeModeKeeps, BackfillChangesKeeps,
     ContentChangesKeeps
<1>3. CASE \E c \in changes : ChangeDone(c) \/ ChangeFails(c)
  BY <1>3, ChangeDoneKeeps, ChangeFailsKeeps
<1>4. CASE \E v \in Videos :
             \/ UserActs(v) \/ TakeVideo(v) \/ TakeSubtitle(v) \/ JobsSettle(v)
             \/ FinishBegins(v) \/ FinishDone(v) \/ FinishFails(v) \/ RetryDue(v)
  BY <1>4, UserActsKeeps, TakeVideoKeeps, OtherLaneSteps, FinishDoneKeeps,
     RetryDueKeeps
<1>5. CASE \/ WakesOnly \/ DownloadLands \/ DownloadSucceeds \/ DownloadRefused
           \/ SubtitleMade \/ SubtitleWaits \/ CaptionPushedBack \/ SubtitleFails
  BY <1>5, WakesOnlyKeeps, DownloadLandsKeeps, DownloadSucceedsKeeps,
     DownloadRefusedKeeps, SubtitleKeeps
<1>6. CASE CooldownEnds
  <2>1. /\ UNCHANGED <<listVars, video, download, subtitle, completing, open, files>>
        /\ cooldown.on /\ cooldown' = [cooldown EXCEPT !.on = FALSE]
    BY <1>6 DEF CooldownEnds, laneVars
  <2> QED
    BY <2>1, StandingKeeps DEF YtInv, TypeOK, LaneTypes, LanesOwnTheirRows
<1>7. CASE Restart
  BY <1>7, RestartKeeps
<1> QED
  BY <1>1, <1>2, <1>3, <1>4, <1>5, <1>6, <1>7 DEF Next

\* The inductive invariant holds in every reachable state of the lists, the
\* rows and the lanes (sync.ts, worker.ts).
THEOREM YtInvariant ==
  Spec => []YtInv
<1>1. Init => YtInv
  BY Begins
<1>2. YtInv /\ [Next]_vars => YtInv'
  BY NextKeeps
<1> QED
  BY <1>1, <1>2, PTL DEF Spec

-----------------------------------------------------------------------------
(* What follows.                                                           *)

\* Every variable keeps its shape, the bounds of failures and strikes included
\* (store.ts, worker.ts).
THEOREM YoutubeTypes ==
  Spec => []TypeOK
<1>1. YtInv => TypeOK
  BY DEF YtInv
<1> QED
  BY <1>1, YtInvariant, PTL

\* A lane finds the row it took as it left it, and no row is left downloading
\* without its download (worker.ts, video-status.ts).
THEOREM LanesHold ==
  Spec => []LanesOwnTheirRows
<1>1. YtInv => LanesOwnTheirRows
  BY DEF YtInv
<1> QED
  BY <1>1, YtInvariant, PTL

\* A pause is not lifted by a download that began before it: the strikes it
\* forgets would be those of its own beginning (store.ts clearCooldown).
THEOREM PausesHold ==
  Spec => PauseHolds
<1>1. YtInv /\ [Next]_vars => [cooldown.on => cooldown'.strikes >= cooldown.strikes]_vars
  <2> SUFFICES ASSUME YtInv, Next, cooldown.on
               PROVE  cooldown'.strikes >= cooldown.strikes
    BY DEF PauseHolds
  <2>1. cooldown \in [strikes : 0 .. MaxStrikes, on : BOOLEAN]
    BY DEF YtInv, TypeOK
  <2>2. CASE UNCHANGED cooldown
    BY <2>1, <2>2
  <2>3. CASE PushesBack
    BY <2>1, <2>3 DEF PushesBack
  <2>4. CASE CooldownEnds
    BY <2>1, <2>4 DEF CooldownEnds
  <2>5. CASE DownloadSucceeds
    <3>1. download.v # None
      BY <2>5 DEF DownloadSucceeds, YtInv, DownloadsBeganUnpaused, NoDownload
    <3>2. cooldown.strikes > download.strikes /\ download.strikes \in 0 .. MaxStrikes
      BY <3>1 DEF YtInv, DownloadsBeganUnpaused, TypeOK, LaneTypes
    <3>3. cooldown' = cooldown
      BY <2>1, <2>5, <3>2 DEF DownloadSucceeds, ClearsSeen
    <3> QED
      BY <2>2, <3>3
  <2>6. UNCHANGED cooldown \/ PushesBack \/ CooldownEnds \/ DownloadSucceeds
    BY DEF Next, Follow, Unfollow, StartCheck, ListingArrives, AppliesListing,
           CheckFails, CheckGone, CheckPushedBack, ChangeMode, BackfillChanges,
           ContentChanges, ChangeDone, ChangeFails, UserActs, TakeVideo,
           TakeSubtitle, JobsSettle, FinishBegins, FinishDone, FinishFails,
           RetryDue, WakesOnly, DownloadLands, DownloadRefused, SubtitleMade,
           SubtitleWaits, CaptionPushedBack, SubtitleFails, Restart
  <2> QED
    BY <2>2, <2>3, <2>4, <2>5, <2>6
<1> QED
  BY <1>1, YtInvariant, PTL DEF Spec, PauseHolds

-----------------------------------------------------------------------------
(* The user's choice.                                                      *)

ChoicesKept == \A v \in Videos : KeepsChoice(video[v], video'[v])

LEMMA SameChoice ==
  ASSUME NEW r
  PROVE  KeepsChoice(r, r)
<1>1. r.status = "queued" => r.status # "new" /\ r.status # "skipped"
  OBVIOUS
<1> QED
  BY <1>1 DEF KeepsChoice

LEMMA StandingChoice ==
  ASSUME UNCHANGED video
  PROVE  ChoicesKept
BY SameChoice DEF ChoicesKept

\* Neither a user's skip nor a pick that waits is a row of a lane.
LEMMA LaneChoice ==
  ASSUME YtInv, NEW v \in Videos, NEW r, SetsRow(v, r),
         video[v].status \in Held \/ KeepsChoice(video[v], r)
  PROVE  ChoicesKept
<1>1. \A w \in Videos : video'[w] = IF w = v THEN r ELSE video[w]
  BY DEF SetsRow, YtInv, TypeOK
<1>2. KeepsChoice(video[v], r)
  BY DEF Held, KeepsChoice, UserSkipped
<1> QED
  BY <1>1, <1>2, SameChoice DEF ChoicesKept

LEMMA UserChoice ==
  ASSUME YtInv, NEW v \in Videos, UserActs(v)
  PROVE  ChoicesKept
<1> DEFINE row == video[v]
           queued == [Fresh(row, "queued") EXCEPT !.picked = TRUE]
           picked == [row EXCEPT !.picked = TRUE, !.later = FALSE, !.fails = 0]
<1>1. /\ row \in Rows /\ "queued" \in Statuses /\ "user" \in SkipKinds
      /\ 0 \in 0 .. Retries + 1
  BY YoutubeAssumption DEF YtInv, TypeOK, Statuses, SkipKinds
<1>2. queued.status = "queued" /\ queued.picked
  BY <1>1, FreshRow DEF Rows
<1>3. UserSkipped(Skipped(row, "user"))
  BY <1>1, SkippedRow DEF UserSkipped
<1>4. row.status = "queued" => picked.status = "queued" /\ picked.picked
  BY <1>1 DEF Rows
<1>5. \/ SetsRow(v, queued) \/ SetsRow(v, Skipped(row, "user"))
      \/ SetsRow(v, picked) /\ row.status = "queued"
  BY DEF UserActs, UserDownload, UserRetry, UserSkip
<1> HIDE DEF queued, picked, row
<1>6. KeepsChoice(row, queued)
  BY <1>2 DEF KeepsChoice
<1>7. KeepsChoice(row, Skipped(row, "user"))
  BY <1>3 DEF KeepsChoice, UserSkipped
<1>8. row.status = "queued" => KeepsChoice(row, picked)
  BY <1>4 DEF KeepsChoice
<1> QED
  BY <1>5, <1>6, <1>7, <1>8, LaneChoice DEF row

LEMMA RetryDueChoice ==
  ASSUME YtInv, NEW v \in Videos, RetryDue(v)
  PROVE  ChoicesKept
<1> DEFINE r == [video[v] EXCEPT !.later = FALSE]
<1>1. /\ video[v] \in Rows /\ r.status = video[v].status
      /\ r.skip = video[v].skip /\ r.picked = video[v].picked
  BY DEF YtInv, TypeOK, Rows
<1>2. SetsRow(v, r)
  BY DEF RetryDue
<1> HIDE DEF r
<1>3. KeepsChoice(video[v], r)
  BY <1>1, SameChoice DEF KeepsChoice, UserSkipped
<1> QED
  BY <1>2, <1>3, LaneChoice

LEMMA TakeVideoChoice ==
  ASSUME YtInv, NEW v \in Videos, TakeVideo(v)
  PROVE  ChoicesKept
<1> DEFINE row == Woken[v]
<1>1. row.status = "queued" /\ row \in Rows
  BY WokenRows DEF TakeVideo, Firsts, Ready
<1>2. {"transcribing", "failed", "downloading"} \subseteq Statuses
  BY DEF Statuses
<1>3. PICK n \in {Fresh(row, "transcribing"), Moved(row, "failed"),
                   Moved(row, "downloading")} : video' = [Woken EXCEPT ![v] = n]
  BY DEF TakeVideo
<1>4. n.status \in {"transcribing", "failed", "downloading"}
  <2> HIDE DEF row
  <2>1. /\ Fresh(row, "transcribing").status = "transcribing"
        /\ Moved(row, "failed").status = "failed"
        /\ Moved(row, "downloading").status = "downloading"
    <3>1. Fresh(row, "transcribing").status = "transcribing"
      BY <1>1, <1>2, FreshRow
    <3>2. Moved(row, "failed").status = "failed"
      BY <1>1, <1>2, MovedRow
    <3>3. Moved(row, "downloading").status = "downloading"
      BY <1>1, <1>2, MovedRow
    <3> QED
      BY <3>1, <3>2, <3>3
  <2> QED
    BY <1>3, <2>1
<1> HIDE DEF row
<1>5. \A w \in Videos : video'[w] = IF w = v THEN n ELSE Woken[w]
  BY <1>3, WokenRows
<1>6. KeepsChoice(video[v], n)
  <2>1. video[v].status # "skipped"
    BY <1>1, WokenRows DEF row
  <2> QED
    BY <1>4, <2>1 DEF KeepsChoice, UserSkipped
<1>7. \A w \in Videos : KeepsChoice(video[w], Woken[w])
  BY WokenRows, SameChoice DEF KeepsChoice, UserSkipped
<1> QED
  BY <1>5, <1>6, <1>7 DEF ChoicesKept

LEMMA RestartChoice ==
  ASSUME YtInv, Restart
  PROVE  ChoicesKept
<1>1. ASSUME NEW v \in Videos
      PROVE  KeepsChoice(video[v], video'[v])
  <2>1. video'[v] = Reconciled(v) /\ Sound(video[v])
    BY RowsAreSound DEF Restart
  <2>2. \/ Reconciled(v) = video[v]
        \/ /\ Reconciled(v).status \in {"queued", "transcribing"}
           /\ video[v].status \in {"downloading", "queued"}
    BY <2>1, ReconciledRow
  <2> QED
    BY <2>1, <2>2, SameChoice DEF KeepsChoice, UserSkipped
<1> QED
  BY <1>1 DEF ChoicesKept

\* The one party that may undo a skip: a filter change that read it before.
LEMMA ChangeChoice ==
  ASSUME YtInv, NEW c \in changes, ChangeDone(c), NEW v \in Videos
  PROVE  /\ UserSkipped(video[v]) /\ ~ReadBefore(v)
              => UserSkipped(video'[v]) \/ video'[v].picked
         /\ video[v].picked /\ video[v].status = "queued"
              => /\ video'[v].status # "new"
                 /\ video'[v].status = "skipped" => video'[v].skip = "user"
<1>1. video'[v] = IF Unchanged(c, v) THEN Refiltered(c, video[v], v) ELSE video[v]
  BY DEF ChangeDone
<1>2. CASE Unchanged(c, v)
  <2>1. ~video[v].picked
    BY <1>2 DEF Unchanged
  <2>2. CASE c.rows[v] = "skipped"
    BY <2>1, <2>2 DEF ReadBefore
  <2>3. CASE c.rows[v] # "skipped"
    <3>1. c \in Changes /\ Sound(video[v]) /\ ChangesReadNoLane
      BY RowsAreSound DEF YtInv, TypeOK, ListTypes
    <3> QED
      BY <1>1, <1>2, <2>3, <3>1, RefilteredRow DEF KeepsChoice
  <2> QED
    BY <2>2, <2>3
<1>3. CASE ~Unchanged(c, v)
  BY <1>1, <1>3, SameChoice DEF KeepsChoice
<1> QED
  BY <1>2, <1>3

\* Only the user takes back the user's skip or pick, but for a filter change
\* that read the video before the skip (store.ts listedState, sync.ts
\* changeBackfill).
THEOREM ChoicesHold ==
  Spec => UsersChoiceHolds
<1> DEFINE ChoiceOf(v) ==
      /\ UserSkipped(video[v]) /\ ~ReadBefore(v)
           => UserSkipped(video'[v]) \/ video'[v].picked
      /\ video[v].picked /\ video[v].status = "queued"
           => /\ video'[v].status # "new"
              /\ video'[v].status = "skipped" => video'[v].skip = "user"
<1>1. ASSUME YtInv, Next PROVE \A v \in Videos : ChoiceOf(v)
  <2>1. CASE \E c \in changes : ChangeDone(c)
    BY <1>1, <2>1, ChangeChoice
  <2>2. CASE \E p \in Playlists : AppliesListing(p)
    BY <1>1, <2>2, ListingRows DEF KeepsChoice
  <2>3. CASE \E p \in Playlists : ContentChanges(p)
    <3>1. ChoicesKept
      BY <1>1, <2>3, ContentRows, StandingChoice DEF ChoicesKept
    <3> QED
      BY <3>1 DEF ChoicesKept, KeepsChoice
  <2>4. CASE ChoicesKept
    BY <2>4 DEF ChoicesKept, KeepsChoice
  <2>5. CASE UNCHANGED video
    BY <2>4, <2>5, StandingChoice
  <2>6. CASE \E v \in Videos : UserActs(v) \/ TakeVideo(v) \/ RetryDue(v)
    BY <1>1, <2>4, <2>6, UserChoice, TakeVideoChoice, RetryDueChoice
  <2>7. CASE DownloadSucceeds \/ DownloadRefused
    <3>1. download.v \in Videos /\ video[download.v].status \in Held
      BY <1>1, <2>7 DEF DownloadSucceeds, DownloadRefused, LaneIdle, NoDownload, YtInv,
         TypeOK, LaneTypes, DownloadsBeganUnpaused, LanesOwnTheirRows, Held
    <3>2. \E r : SetsRow(download.v, r)
      BY <2>7 DEF DownloadSucceeds, DownloadRefused
    <3> QED
      BY <1>1, <2>4, <3>1, <3>2, LaneChoice
  <2>8. CASE SubtitleMade \/ SubtitleWaits \/ CaptionPushedBack \/ SubtitleFails
    <3>1. subtitle \in Videos /\ video[subtitle].status \in Held
      BY <1>1, <2>8 DEF SubtitleMade, SubtitleWaits, CaptionPushedBack, SubtitleFails,
         YtInv, TypeOK, LaneTypes, LanesOwnTheirRows, Held
    <3>2. \E r : SetsRow(subtitle, r)
      BY <2>8 DEF SubtitleMade, SubtitleWaits, CaptionPushedBack, SubtitleFails
    <3> QED
      BY <1>1, <2>4, <3>1, <3>2, LaneChoice
  <2>9. CASE \E v \in Videos : FinishDone(v)
    <3>1. PICK v \in Videos : FinishDone(v)
      BY <2>9
    <3>2. video[v].status \in Held /\ SetsRow(v, Moved(video[v], "done"))
      BY <1>1, <3>1 DEF FinishDone, YtInv, LanesOwnTheirRows, Held
    <3> QED
      BY <1>1, <2>4, <3>2, LaneChoice
  <2>10. CASE WakesOnly
    <3>1. \A v \in Videos : KeepsChoice(video[v], Woken[v])
      BY <1>1, WokenRows, SameChoice DEF KeepsChoice, UserSkipped
    <3> QED
      BY <2>10, <3>1 DEF WakesOnly, KeepsChoice
  <2>11. CASE Restart
    BY <1>1, <2>4, <2>11, RestartChoice
  <2>12. \/ \E c \in changes : ChangeDone(c)
         \/ \E p \in Playlists : AppliesListing(p) \/ ContentChanges(p)
         \/ \E v \in Videos :
              UserActs(v) \/ TakeVideo(v) \/ RetryDue(v) \/ FinishDone(v)
         \/ DownloadSucceeds \/ DownloadRefused \/ WakesOnly \/ Restart
         \/ SubtitleMade \/ SubtitleWaits \/ CaptionPushedBack \/ SubtitleFails
         \/ UNCHANGED video
    BY <1>1 DEF Next, Follow, Unfollow, StartCheck, ListingArrives, CheckFails,
           CheckGone, CheckPushedBack, ChangeMode, BackfillChanges, ChangeFails,
           TakeSubtitle, JobsSettle, FinishBegins, FinishFails, DownloadLands,
           CooldownEnds
  <2> HIDE DEF ChoiceOf
  <2> QED
    BY <2>1, <2>2, <2>3, <2>5, <2>6, <2>7, <2>8, <2>9, <2>10, <2>11, <2>12
<1>2. YtInv /\ [Next]_vars => [\A v \in Videos : ChoiceOf(v)]_vars
  BY <1>1
<1> QED
  BY <1>2, YtInvariant, PTL DEF Spec, UsersChoiceHolds

-----------------------------------------------------------------------------
(* The first sync on record.                                               *)

FirstInv ==
  /\ ~cooldown.on
  /\ \A p \in Playlists :
       /\ synced[p] # "old"
       /\ check[p].old => check[p].phase # "none"
       /\ check[p].old /\ follow[p] # None => check[p].again > 0

\* Without a pushback no cooldown begins.
LEMMA NoPause ==
  ASSUME "pushback" \notin Features, YtInv, ~cooldown.on, [Next]_vars
  PROVE  ~cooldown'.on
<1>1. UNCHANGED cooldown \/ DownloadSucceeds
  BY DEF Next, vars, PushesBack, Follow, Unfollow, StartCheck, ListingArrives,
         AppliesListing, CheckFails, CheckGone, CheckPushedBack, ChangeMode,
         BackfillChanges, ContentChanges, ChangeDone, ChangeFails, UserActs,
         TakeVideo, TakeSubtitle, JobsSettle, FinishBegins, FinishDone,
         FinishFails, RetryDue, WakesOnly, DownloadLands, DownloadRefused,
         SubtitleMade, SubtitleWaits, CaptionPushedBack, SubtitleFails,
         CooldownEnds, Restart
<1> QED
  BY <1>1 DEF DownloadSucceeds, ClearsSeen

\* A check that settles leaves none of an earlier follow behind.
LEMMA EndsFirst ==
  ASSUME YtInv, FirstInv, NEW p \in Playlists, NEW s, EndsCheck(p, s),
         ~cooldown'.on, follow' = follow,
         s = "old" => check[p].old /\ follow[p] # None
  PROVE  FirstInv'
<1>1. /\ check \in [Playlists -> Checks] /\ synced \in [Playlists -> {"no", "own", "old"}]
  BY DEF YtInv, TypeOK, ListTypes
<1>2. NoCheck \in Checks /\ ~NoCheck.old /\ 0 \in 0 .. MaxAgain
  BY YoutubeAssumption DEF NoCheck, Checks
<1>3. \A q \in Playlists \ {p} : check'[q] = check[q] /\ synced'[q] = synced[q]
  BY <1>1 DEF EndsCheck, BeginCheck
<1>4. ~check'[p].old
  <2>1. \/ check'[p] = NoCheck
        \/ check'[p] = [NoCheck EXCEPT !.phase = "listing", !.set = follow'[p],
                                       !.again = check[p].again - 1]
    BY <1>1 DEF EndsCheck, BeginCheck
  <2>2. [NoCheck EXCEPT !.phase = "listing", !.set = follow'[p],
                        !.again = check[p].again - 1].old = NoCheck.old
    BY <1>2 DEF Checks
  <2> QED
    BY <1>2, <2>1, <2>2
<1>5. synced'[p] # "old"
  <2>1. synced'[p] = "no" \/ synced'[p] = s
    BY <1>1 DEF EndsCheck
  <2>2. s = "old" => synced'[p] = "no"
    <3>1. s = "old" => check[p].again > 0 /\ follow'[p] # None
      BY DEF FirstInv
    <3> QED
      BY <1>1, <3>1 DEF EndsCheck
  <2> QED
    BY <2>1, <2>2
<1> QED
  BY <1>3, <1>4, <1>5 DEF FirstInv

LEMMA FirstKeeps ==
  ASSUME "pushback" \notin Features, YtInv, FirstInv, [Next]_vars
  PROVE  FirstInv'
<1>1. ~cooldown'.on
  BY NoPause DEF FirstInv
<1>2. /\ check \in [Playlists -> Checks] /\ synced \in [Playlists -> {"no", "own", "old"}]
      /\ follow \in [Playlists -> Settings \cup {None}]
  BY DEF YtInv, TypeOK, ListTypes
<1>3. NoCheck \in Checks /\ ~NoCheck.old
  BY YoutubeAssumption DEF NoCheck, Checks
<1>4. ASSUME NEW p \in Playlists, NEW again, BeginCheck(p, again)
      PROVE  /\ \A q \in Playlists \ {p} : check'[q] = check[q]
             /\ ~check'[p].old
  <2>1. check'[p] = [NoCheck EXCEPT !.phase = "listing", !.set = follow'[p],
                                    !.again = again]
    BY <1>2, <1>4 DEF BeginCheck
  <2>2. [NoCheck EXCEPT !.phase = "listing", !.set = follow'[p],
                        !.again = again].old = NoCheck.old
    BY <1>3 DEF Checks
  <2> QED
    BY <1>2, <1>3, <1>4, <2>1, <2>2 DEF BeginCheck
<1>5. ASSUME NEW p \in Playlists, Follow(p) PROVE FirstInv'
  <2>1. /\ \A q \in Playlists \ {p} : /\ follow'[q] = follow[q]
                                      /\ synced'[q] = synced[q]
        /\ synced'[p] = "no"
    BY <1>2, <1>5 DEF Follow
  <2>2. CASE check[p].phase # "none"
    <3>1. check[p].again \in 0 .. MaxAgain /\ check[p] \in Checks
          /\ check' = [check EXCEPT ![p] = [check[p] EXCEPT !.again = check[p].again + 1]]
      BY <1>2, <1>5, <2>2 DEF Follow, QueueCheck, Checks
    <3>2. /\ \A q \in Playlists \ {p} : check'[q] = check[q]
          /\ check'[p].phase = check[p].phase /\ check'[p].again = check[p].again + 1
      BY <1>2, <3>1 DEF Checks
    <3>3. check[p].again + 1 > 0
      BY <3>1, YoutubeAssumption
    <3> QED
      BY <1>1, <2>1, <2>2, <3>2, <3>3 DEF FirstInv
  <2>3. CASE check[p].phase = "none"
    <3>1. BeginCheck(p, 0)
      BY <1>5, <2>3 DEF Follow, FirstInv
    <3> QED
      BY <1>1, <1>4, <2>1, <3>1 DEF FirstInv
  <2> QED
    BY <2>2, <2>3
<1>6. ASSUME NEW p \in Playlists, Unfollow(p) PROVE FirstInv'
  <2>1. check' = [check EXCEPT ![p] = [check[p] EXCEPT !.old = check[p].phase # "none"]]
        /\ check[p] \in Checks
    BY <1>2, <1>6 DEF Unfollow
  <2>2. /\ \A q \in Playlists \ {p} : check'[q] = check[q]
        /\ check'[p].phase = check[p].phase
        /\ check'[p].old <=> check[p].phase # "none"
    BY <1>2, <2>1 DEF Checks
  <2>3. /\ follow'[p] = None /\ synced'[p] = "no"
        /\ \A q \in Playlists \ {p} : /\ follow'[q] = follow[q]
                                      /\ synced'[q] = synced[q]
    BY <1>2, <1>6 DEF Unfollow
  <2> QED
    BY <1>1, <2>2, <2>3 DEF FirstInv
<1>7. ASSUME NEW p \in Playlists, StartCheck(p) PROVE FirstInv'
  BY <1>1, <1>4, <1>7 DEF StartCheck, FirstInv
<1>8. ASSUME NEW p \in Playlists, ListingArrives(p) PROVE FirstInv'
  <2>1. PICK ls \in SUBSET Videos : \E hid \in SUBSET ls : \E whole \in BOOLEAN :
          check' = [check EXCEPT ![p] = WithListing(p, ls, hid, whole)]
    BY <1>8 DEF ListingArrives
  <2>2. PICK hid \in SUBSET ls : \E whole \in BOOLEAN :
          check' = [check EXCEPT ![p] = WithListing(p, ls, hid, whole)]
    BY <2>1
  <2>3. PICK whole \in BOOLEAN :
          check' = [check EXCEPT ![p] = WithListing(p, ls, hid, whole)]
    BY <2>2
  <2>4. check[p] \in Checks
    BY <1>2
  <2>5. /\ WithListing(p, ls, hid, whole).phase = "applying"
        /\ WithListing(p, ls, hid, whole).old = check[p].old
        /\ WithListing(p, ls, hid, whole).again = check[p].again
    BY <2>4 DEF WithListing, Checks
  <2>6. /\ \A q \in Playlists \ {p} : check'[q] = check[q]
        /\ check'[p] = WithListing(p, ls, hid, whole)
    BY <1>2, <2>3
  <2>7. UNCHANGED <<follow, synced>>
    BY <1>8 DEF ListingArrives
  <2> QED
    BY <1>1, <2>5, <2>6, <2>7 DEF FirstInv
<1>9. ASSUME NEW p \in Playlists, AppliesListing(p) PROVE FirstInv'
  <2> DEFINE s == IF follow[p] = None THEN "no" ELSE IF check[p].old THEN "old"
                  ELSE IF check[p].first THEN "own" ELSE synced[p]
  <2>1. EndsCheck(p, s) /\ follow' = follow
    BY <1>9 DEF AppliesListing
  <2>2. s = "old" => check[p].old /\ follow[p] # None
    BY DEF FirstInv
  <2> HIDE DEF s
  <2> QED
    BY <1>1, <2>1, <2>2, EndsFirst
<1>10. ASSUME NEW p \in Playlists, CheckFails(p) \/ CheckGone(p) \/ CheckPushedBack(p)
       PROVE  FirstInv'
  <2>1. PICK s \in {"no", synced[p]} : EndsCheck(p, s)
    BY <1>10 DEF CheckFails, CheckGone, CheckPushedBack
  <2>2. follow' = follow /\ s # "old"
    BY <1>10 DEF CheckFails, CheckGone, CheckPushedBack, FirstInv
  <2> QED
    BY <1>1, <2>1, <2>2, EndsFirst
<1>11. ASSUME UNCHANGED <<synced, check>>,
              \A p \in Playlists : follow'[p] # None => follow[p] # None
       PROVE  FirstInv'
  BY <1>1, <1>11 DEF FirstInv
<1>12. ASSUME NEW p \in Playlists, ChangeMode(p) \/ ContentChanges(p) PROVE FirstInv'
  <2>1. \A q \in Playlists : follow'[q] # None => follow[q] # None
    <3>1. follow[p] # None /\ \A q \in Playlists \ {p} : follow'[q] = follow[q]
      BY <1>2, <1>12 DEF ChangeMode, ContentChanges, Followed
    <3> QED
      BY <3>1
  <2> QED
    BY <1>11, <1>12, <2>1 DEF ChangeMode, ContentChanges
<1>13. ASSUME NEW c \in changes, ChangeDone(c) \/ ChangeFails(c) PROVE FirstInv'
  <2>1. \A q \in Playlists : follow'[q] # None => follow[q] # None
    <3>1. \/ follow' = follow
          \/ follow[c.p] # None /\ \A q \in Playlists \ {c.p} : follow'[q] = follow[q]
      BY <1>2, <1>13 DEF ChangeDone, ChangeFails
    <3> QED
      BY <3>1
  <2> QED
    BY <1>11, <1>13, <2>1 DEF ChangeDone, ChangeFails
<1>14. CASE Restart
  BY <1>1, <1>3, <1>14 DEF Restart, FirstInv
<1>15. CASE UNCHANGED <<follow, synced, check>>
  BY <1>11, <1>15
<1>16. \/ \E p \in Playlists :
            \/ Follow(p) \/ Unfollow(p) \/ StartCheck(p) \/ ListingArrives(p)
            \/ AppliesListing(p) \/ CheckFails(p) \/ CheckGone(p)
            \/ CheckPushedBack(p) \/ ChangeMode(p) \/ ContentChanges(p)
       \/ \E c \in changes : ChangeDone(c) \/ ChangeFails(c)
       \/ Restart \/ UNCHANGED <<follow, synced, check>>
  BY DEF Next, vars, listVars, BackfillChanges, UserActs, TakeVideo, TakeSubtitle,
         JobsSettle, FinishBegins, FinishDone, FinishFails, RetryDue, WakesOnly,
         DownloadLands, DownloadSucceeds, DownloadRefused, SubtitleMade,
         SubtitleWaits, CaptionPushedBack, SubtitleFails, CooldownEnds
<1> QED
  BY <1>5, <1>6, <1>7, <1>8, <1>9, <1>10, <1>12, <1>13, <1>14, <1>15, <1>16

\* While YouTube does not push back, the first sync on record is one of the
\* present follow (worker.ts checkPlaylist); a pushback drops the check queued
\* behind the one of the earlier follow.
THEOREM FirstSyncOwn ==
  ASSUME "pushback" \notin Features
  PROVE  Spec => []FirstSyncIsOwn
<1>1. Init => FirstInv
  <2>1. ~NoCheck.old
    BY DEF NoCheck
  <2> QED
    BY <2>1 DEF Init, FirstInv
<1>2. YtInv /\ FirstInv /\ [Next]_vars => FirstInv'
  BY FirstKeeps
<1>3. FirstInv => FirstSyncIsOwn
  BY DEF FirstInv, FirstSyncIsOwn
<1> QED
  BY <1>1, <1>2, <1>3, YtInvariant, PTL DEF Spec
=============================================================================
