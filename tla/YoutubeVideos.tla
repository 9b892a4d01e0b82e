--------------------------- MODULE YoutubeVideos ---------------------------
(***************************************************************************)
(* The videos of followed YouTube playlists (server/youtube).  Several     *)
(* parties move a video's row, each over awaits of its own:                *)
(*   - the checks of a playlist list it and store what they find           *)
(*     (sync.ts, store.applyListing);                                      *)
(*   - a changed backfill or Shorts choice re-filters the rows;            *)
(*   - the user downloads, retries or skips a video;                       *)
(*   - the worker's lanes download one video at a time, make the subtitles *)
(*     of one at a time, and finish those whose translations settled;      *)
(*   - a restart loses every lane and check and reconciles the rows.       *)
(* YouTube, its listings and its pushing back are the environment's.       *)
(***************************************************************************)
EXTENDS Naturals, FiniteSets

CONSTANTS
  Videos, Playlists,
  Manual,      \* playlists first followed in manual mode
  Varied,      \* playlists whose settings and listings vary
  Shorts,      \* videos of a kind a channel can leave out
  Backfills,   \* the backfill choices, each the set of videos it selects
  Retries,     \* failures a video survives (BACKOFF_MS)
  MaxStrikes,  \* bound: times YouTube pushes back in a row
  MaxAgain,    \* bound: first syncs queued behind a check
  MaxChanges,  \* bound: filter changes in flight
  Features,    \* which events this instance has
  None

AllFeatures == {"backfill", "content", "crash", "edit", "fault", "hidden",
                "lanes", "missing", "partial", "pushback", "unfollow", "user"}

\* What a download comes to (YtdlpErrorClass).
Results == {"pushback", "lost", "members", "upcoming", "format", "other"}

ASSUME YoutubeAssumption ==
  /\ Manual \cup Varied \subseteq Playlists /\ Shorts \subseteq Videos
  /\ Backfills \subseteq SUBSET Videos /\ Videos \in Backfills
  /\ Retries \in Nat /\ MaxStrikes \in Nat /\ MaxAgain \in Nat
  /\ MaxChanges \in Nat /\ Features \subseteq AllFeatures
  /\ None \notin Videos \cup Playlists

VARIABLES
  follow,    \* follow[p]: the saved settings of a followed playlist
  synced,    \* synced[p]: who recorded firstSyncAt, a check of this follow?
  items,     \* items[p][v]: seen by p's first sync, or later (first_seen_at)
  removed,   \* removed[p]: members a complete listing no longer has
  video,     \* video[v]: its row
  check,     \* check[p]: the check of p that is running
  changes,   \* filter changes waiting for their lookups
  download,  \* the video lane's download
  subtitle,  \* the video whose subtitles are being made
  open,      \* videos with unsettled translation jobs
  completing,  \* videos whose onSubtitlesComplete is running
  files,     \* files[p]: media in p's folder
  cooldown   \* the cooldown on record, and whether it is in force

listVars == <<follow, synced, items, removed, check, changes>>
laneVars == <<download, subtitle, open, completing, files>>
vars == <<listVars, video, laneVars, cooldown>>

-----------------------------------------------------------------------------
(* Rows (video-status.ts, store.ts).                                       *)

Statuses == {"absent", "new", "queued", "downloading", "transcribing",
             "translating", "done", "waiting", "skipped", "unavailable",
             "failed"}
SkipKinds == {"none", "user", "members", "before", "content"}

\* retry_after lies ahead; lost: a download found the video gone.
Row(s, p, k) == [status |-> s, owner |-> p, skip |-> k, picked |-> FALSE,
                 fails |-> 0, later |-> FALSE, lost |-> FALSE]
Absent == Row("absent", None, "none")

\* setStatus: reason and retry time go, the rest stays.
Moved(r, s) == [r EXCEPT !.status = s, !.skip = "none", !.later = FALSE,
                         !.lost = FALSE]
Skipped(r, k) == [Moved(r, "skipped") EXCEPT !.skip = k]
Fresh(r, s) == [Moved(r, s) EXCEPT !.fails = 0]
PutOff(r, s) == [Moved(r, s) EXCEPT !.later = TRUE]

\* retryOrFail.  Mutant: it counts without an end.
RetriesForEver(r, s) == [PutOff(r, s) EXCEPT !.fails = @ + 1]
RetriedOrFailed(r, s) ==
  IF r.fails >= Retries THEN [Moved(r, "failed") EXCEPT !.fails = Retries + 1]
  ELSE [PutOff(r, s) EXCEPT !.fails = @ + 1]

\* The rows nobody has acted on.  Mutant: a user's skip counts as untouched.
UntouchedAnySkip(r) == ~r.picked /\ r.status \in {"new", "queued", "skipped"}
Untouched(r) == /\ ~r.picked
                /\ \/ r.status \in {"new", "queued"}
                   \/ r.status = "skipped" /\ r.skip \in {"before", "content"}

Recoverable(r) == r.status = "unavailable" /\ ~r.lost

Rank(s) == CASE s = "queued" -> 3 [] s = "new" -> 2 [] s = "skipped" -> 1
             [] OTHER -> 0

\* listedState: the listing of p wants row n.  Does p's choice replace row r?
TakesRow(r, p, n, first) ==
  LET orphaned == r.owner # p /\ follow[r.owner] = None
      own == r.owner = p
  IN \/ Recoverable(r) /\ n.status # "unavailable" /\ (orphaned \/ own)
     \/ Untouched(r) /\ IF orphaned THEN TRUE ELSE
                        IF own THEN first
                        ELSE Rank(n.status) > Rank(r.status)

\* applyListing's upsert of one row.
Listed(r, p, n, first) ==
  LET orphaned == r.owner # p /\ follow[r.owner] = None
      now == IF TakesRow(r, p, n, first)
             THEN [r EXCEPT !.status = n.status, !.owner = p, !.skip = n.skip]
             ELSE IF orphaned THEN [r EXCEPT !.owner = p] ELSE r
      starts == \/ now.status # r.status
                \/ now.owner # r.owner /\ now.status \in {"new", "queued"}
  IN IF r.status = "absent" THEN n
     ELSE IF starts THEN [now EXCEPT !.fails = 0, !.later = FALSE,
                                     !.lost = FALSE]
     ELSE now

-----------------------------------------------------------------------------
(* Following and checking a playlist.                                      *)

NoCheck == [phase |-> "none", set |-> None, first |-> FALSE,
            old |-> FALSE, listed |-> {}, hidden |-> {}, whole |-> FALSE,
            chosen |-> {}, again |-> 0]

Settings == [auto : BOOLEAN, shorts : BOOLEAN, backfill : Backfills]

NoDownload == [v |-> None, p |-> None, strikes |-> 0, landed |-> FALSE]

Followed == {p \in Playlists : follow[p] # None}

Includes(set, v) == v \notin Shorts \/ set.shorts

Init ==
  /\ follow = [p \in Playlists |-> None]
  /\ synced = [p \in Playlists |-> "no"]
  /\ items = [p \in Playlists |-> [v \in Videos |-> "never"]]
  /\ removed = [p \in Playlists |-> {}]
  /\ video = [v \in Videos |-> Absent]
  /\ check = [p \in Playlists |-> NoCheck] /\ changes = {}
  /\ download = NoDownload
  /\ subtitle = None /\ open = {} /\ completing = {}
  /\ files = [p \in Playlists |-> {}]
  /\ cooldown = [strikes |-> 0, on |-> FALSE]

\* syncAndAnnounce up to the listing.
BeginCheck(p, again) ==
  check' = [check EXCEPT ![p] =
    [NoCheck EXCEPT !.phase = "listing", !.set = follow'[p], !.again = again]]

\* checkPlaylist asNewFollow.  Mutant: it joins the running check.
JoinCheck(p) == UNCHANGED check
QueueCheck(p) == /\ check[p].again < MaxAgain
                 /\ check' = [check EXCEPT ![p].again = @ + 1]

\* POST /playlists.
Follow(p) ==
  /\ follow[p] = None
  /\ \E s \in Settings :
       /\ s.auto = (p \notin Manual)
       /\ s.shorts \/ (p \in Varied /\ "content" \in Features)
       /\ s.backfill = Videos \/ p \in Varied
       /\ follow' = [follow EXCEPT ![p] = s]
  /\ synced' = [synced EXCEPT ![p] = "no"]
  /\ IF check[p].phase # "none" THEN QueueCheck(p)
     ELSE IF cooldown.on THEN UNCHANGED check ELSE BeginCheck(p, 0)
  /\ UNCHANGED <<items, removed, changes, video, laneVars, cooldown>>

\* DELETE /playlists/:id.
Unfollow(p) ==
  /\ "unfollow" \in Features /\ p \in Followed
  /\ follow' = [follow EXCEPT ![p] = None]
  /\ synced' = [synced EXCEPT ![p] = "no"]
  /\ check' = [check EXCEPT ![p].old = check[p].phase # "none"]
  /\ UNCHANGED <<items, removed, changes, video, laneVars, cooldown>>

\* A due check, or one the user asks for; one that runs already is joined.
StartCheck(p) ==
  /\ p \in Followed /\ check[p].phase = "none" /\ ~cooldown.on
  /\ UNCHANGED <<follow, synced, items, removed, changes, video, laneVars,
                 cooldown>>
  /\ BeginCheck(p, 0)

\* What is left of the check that settles: a check queued behind it begins as
\* the first sync of a new follow, unless YouTube paused or the follow is gone.
EndsCheck(p, s) ==
  LET gone == follow'[p] = None
      next == check[p].again > 0 /\ ~gone /\ ~cooldown'.on
  IN /\ synced' = [synced EXCEPT ![p] =
                     IF next \/ (check[p].again > 0 /\ gone) THEN "no" ELSE s]
     /\ IF next THEN BeginCheck(p, check[p].again - 1)
        ELSE check' = [check EXCEPT ![p] = NoCheck]

\* The listing is there: what a first sync leaves out is decided with the
\* settings the check began with.  One that may lack videos (whole is false)
\* and lacks none is as good as a whole one.
WithListing(p, ls, hid, whole) ==
  [check[p] EXCEPT !.phase = "applying", !.first = synced[p] = "no",
                   !.listed = ls, !.hidden = hid, !.whole = whole,
                   !.chosen = {v \in ls \ hid :
                                  /\ Includes(check[p].set, v)
                                  /\ v \in check[p].set.backfill}]
ListingArrives(p) ==
  /\ check[p].phase = "listing" /\ ~cooldown.on
  /\ \E ls \in SUBSET Videos : \E hid \in SUBSET ls : \E whole \in BOOLEAN :
       /\ hid # {} => "hidden" \in Features
       /\ ls # Videos => "missing" \in Features /\ p \in Varied
       /\ whole \/ (ls # Videos /\ "partial" \in Features /\ p \in Varied)
       /\ check' = [check EXCEPT ![p] = WithListing(p, ls, hid, whole)]
  /\ UNCHANGED <<follow, synced, items, removed, changes, video, laneVars,
                 cooldown>>

\* The row a listed video would get (initialFor).
Initial(p, v) ==
  LET c == check[p]
      set == IF follow[p] = None THEN c.set ELSE follow[p]
  IN IF v \in c.hidden THEN Row("unavailable", p, "none")
     ELSE IF ~Includes(set, v) THEN Row("skipped", p, "content")
     ELSE IF c.first /\ v \notin c.chosen THEN Row("skipped", p, "before")
     ELSE Row(IF set.auto THEN "queued" ELSE "new", p, "none")

\* The rest of syncPlaylist and syncAndAnnounce, with store.applyListing.
AppliesListing(p) ==
  LET c == check[p]
      members == {v \in Videos : items[p][v] # "never"}
  IN /\ c.phase = "applying"
     /\ video' = [v \in Videos |-> IF v \in c.listed
                     THEN Listed(video[v], p, Initial(p, v), c.first)
                     ELSE video[v]]
     /\ items' = [items EXCEPT ![p] = [v \in Videos |->
                     IF v \notin members \cup c.listed THEN "never"
                     ELSE IF c.first THEN "early"
                     ELSE IF v \in members THEN @[v] ELSE "late"]]
     /\ removed' = [removed EXCEPT ![p] =
                     IF c.whole THEN members \ c.listed ELSE @ \ c.listed]
     /\ UNCHANGED <<follow, changes, laneVars, cooldown>>
     /\ EndsCheck(p, IF follow[p] = None THEN "no"
                      ELSE IF c.old THEN "old"
                      ELSE IF c.first THEN "own" ELSE synced[p])

\* The check is refused by a cooldown, or one of its calls fails.
CheckFails(p) ==
  /\ check[p].phase # "none" /\ (cooldown.on \/ "fault" \in Features)
  /\ UNCHANGED <<follow, items, removed, changes, video, laneVars, cooldown>>
  /\ EndsCheck(p, synced[p])

\* The lane reaches the check, and the playlist is followed no more.
CheckGone(p) ==
  /\ check[p].phase = "listing" /\ follow[p] = None
  /\ UNCHANGED <<follow, items, removed, changes, video, laneVars, cooldown>>
  /\ EndsCheck(p, "no")

\* enterCooldown.
PushesBack ==
  /\ "pushback" \in Features /\ cooldown.strikes < MaxStrikes
  /\ cooldown' = [strikes |-> cooldown.strikes + 1, on |-> TRUE]

CheckPushedBack(p) ==
  /\ check[p].phase # "none" /\ PushesBack
  /\ UNCHANGED <<follow, items, removed, changes, video, laneVars>>
  /\ EndsCheck(p, synced[p])

-----------------------------------------------------------------------------
(* Changing the filters of a followed playlist.                            *)

\* The mode of a follow (PUT /playlists/:id).
ChangeMode(p) ==
  /\ "edit" \in Features /\ p \in Followed \cap Varied
  /\ follow' = [follow EXCEPT ![p].auto = ~@]
  /\ UNCHANGED <<synced, items, removed, video, check, changes, laneVars,
                 cooldown>>

\* p's own listed rows that nobody picked.
OwnRows(p) == {v \in Videos \ removed[p] : /\ items[p][v] # "never"
                                           /\ video[v].owner = p
                                           /\ ~video[v].picked}

\* A change that waits for its dates, with the rows it read.
Change(kind, p, set, taken, choice, rows, restore) ==
  [kind |-> kind, p |-> p, auto |-> set.auto, choice |-> choice,
   early |-> {v \in Videos : items[p][v] = "early"}, restore |-> restore,
   rows |-> [v \in Videos |-> IF v \in taken THEN rows[v].status ELSE "none"]]

\* changeBackfill up to the lookups (POST /playlists/:id/backfill).
BackfillChanges(p) ==
  /\ "backfill" \in Features /\ p \in Followed \cap Varied /\ synced[p] # "no"
  /\ Cardinality(changes) < MaxChanges
  /\ LET taken == {v \in OwnRows(p) : /\ items[p][v] = "early"
                                      /\ \/ video[v].status \in {"new", "queued"}
                                         \/ video[v].skip = "before"}
     IN \E b \in Backfills : changes' = changes \cup
          {Change("backfill", p, follow[p], taken, b, video, TRUE)}
  /\ UNCHANGED <<follow, synced, items, removed, video, check, laneVars,
                 cooldown>>

\* PUT /playlists/:id with another Shorts choice: the settings are saved, a
\* kind turned off skips its rows, and one turned on waits for the lookups.
ContentChanges(p) ==
  /\ "content" \in Features /\ p \in Followed \cap Varied
  /\ LET set == [follow[p] EXCEPT !.shorts = ~@]
         out == {v \in OwnRows(p) : ~Includes(set, v)}
         on == {v \in OwnRows(p) : video[v].skip = "content" /\ Includes(set, v)}
     IN /\ follow' = [follow EXCEPT ![p] = set]
        /\ IF synced[p] = "no" THEN UNCHANGED <<video, changes>>
           ELSE /\ Cardinality(changes) < MaxChanges
                /\ video' = [v \in Videos |->
                     IF v \in out /\ \/ video[v].status \in {"new", "queued"}
                                     \/ video[v].skip = "before"
                     THEN Skipped(video[v], "content") ELSE video[v]]
                /\ changes' = changes \cup {Change("content", p, set, on,
                                  set.backfill, video, ~set.shorts)}
  /\ UNCHANGED <<synced, items, removed, check, laneVars, cooldown>>

\* unchanged.  Mutant: the row is not read again after the lookups.
RowAsRead(c, v) == c.rows[v] # "none"
Unchanged(c, v) == c.rows[v] = video[v].status /\ ~video[v].picked

\* Where a change leaves a row it may still move.
Refiltered(c, r, v) ==
  LET keep == v \in c.choice \/ (c.kind = "content" /\ v \notin c.early)
  IN IF keep /\ r.status = "skipped"
     THEN Moved(r, IF c.auto THEN "queued" ELSE "new")
     ELSE IF keep THEN r
     ELSE IF c.kind = "content" THEN [r EXCEPT !.skip = "before"]
     ELSE IF r.status = "skipped" THEN r ELSE Skipped(r, "before")

\* The rest of changeBackfill and changeChannelContent, and of their routes.
ChangeDone(c) ==
  /\ c \in changes /\ changes' = changes \ {c}
  /\ video' = [v \in Videos |-> IF Unchanged(c, v)
                  THEN Refiltered(c, video[v], v) ELSE video[v]]
  /\ follow' = IF c.kind = "backfill" /\ follow[c.p] # None
               THEN [follow EXCEPT ![c.p].backfill = c.choice] ELSE follow
  /\ UNCHANGED <<synced, items, removed, check, laneVars, cooldown>>

\* A lookup fails: a Shorts choice is taken back, the rows stay.
ChangeFails(c) ==
  /\ c \in changes /\ ("fault" \in Features \/ cooldown.on)
  /\ changes' = changes \ {c}
  /\ follow' = IF c.kind = "content" /\ follow[c.p] # None
               THEN [follow EXCEPT ![c.p].shorts = c.restore] ELSE follow
  /\ UNCHANGED <<synced, items, removed, video, check, laneVars, cooldown>>

-----------------------------------------------------------------------------
(* The user's row actions (applyUserAction).                               *)

SetsRow(v, r) == video' = [video EXCEPT ![v] = r]

UserDownload(v) ==
  /\ video[v].status \in {"new", "queued", "skipped", "waiting"}
  /\ SetsRow(v, IF video[v].status = "queued"
                THEN [video[v] EXCEPT !.picked = TRUE, !.later = FALSE,
                                      !.fails = 0]
                ELSE [Fresh(video[v], "queued") EXCEPT !.picked = TRUE])
UserRetry(v) ==
  /\ video[v].status \in {"failed", "unavailable"}
  /\ SetsRow(v, [Fresh(video[v], "queued") EXCEPT !.picked = TRUE])
UserSkip(v) ==
  /\ video[v].status \in {"new", "queued", "waiting", "failed"}
  /\ SetsRow(v, Skipped(video[v], "user"))

UserActs(v) ==
  /\ "user" \in Features /\ (UserDownload(v) \/ UserRetry(v) \/ UserSkip(v))
  /\ UNCHANGED <<listVars, laneVars, cooldown>>

-----------------------------------------------------------------------------
(* The worker's lanes (worker.ts).                                         *)

LaneIdle == download.v = None

\* dueWaiting: every pass first queues the videos whose time has come.
Woken == [v \in Videos |->
           IF video[v].status = "waiting" /\ ~video[v].later
           THEN Moved(video[v], "queued") ELSE video[v]]

\* nextQueued: a followed owner's videos, the user's picks first.  Mutant: one
\* that failed once is left to the user.
ReadyUnfailed(rows) == {v \in Videos : /\ rows[v].status = "queued"
                                       /\ rows[v].owner \in Followed
                                       /\ rows[v].fails = 0}
Ready(rows) == {v \in Videos : /\ rows[v].status = "queued" /\ ~rows[v].later
                               /\ rows[v].owner \in Followed
                               /\ \/ v \notin removed[rows[v].owner]
                                  \/ rows[v].picked}
Firsts(rows) == LET picks == {v \in Ready(rows) : rows[v].picked}
                IN IF picks # {} THEN picks ELSE Ready(rows)

\* downloadNext with nothing to take.
WakesOnly ==
  /\ "lanes" \in Features /\ LaneIdle /\ Woken # video
  /\ cooldown.on \/ Ready(Woken) = {}
  /\ video' = Woken
  /\ UNCHANGED <<listVars, laneVars, cooldown>>

\* downloadNext: the video's file is there already, or its folder is unusable,
\* or its download starts.
TakeVideo(v) ==
  /\ "lanes" \in Features /\ LaneIdle /\ ~cooldown.on
  /\ v \in Firsts(Woken)
  /\ LET r == Woken[v]
         Leaves(n) == video' = [Woken EXCEPT ![v] = n]
     IN \/ /\ v \in files[r.owner] /\ Leaves(Fresh(r, "transcribing"))
           /\ UNCHANGED download
        \/ /\ "fault" \in Features /\ Leaves(Moved(r, "failed"))
           /\ UNCHANGED download
        \/ /\ v \notin files[r.owner] /\ Leaves(Moved(r, "downloading"))
           /\ download' = [v |-> v, p |-> r.owner, landed |-> FALSE,
                            strikes |-> cooldown.strikes]
  /\ UNCHANGED <<listVars, subtitle, open, completing, files, cooldown>>

\* moveFinished: the media file is in the folder, the row not settled yet.
DownloadLands ==
  /\ ~LaneIdle /\ ~download.landed
  /\ download' = [download EXCEPT !.landed = TRUE]
  /\ files' = [files EXCEPT ![download.p] = @ \cup {download.v}]
  /\ UNCHANGED <<listVars, video, subtitle, open, completing, cooldown>>

\* clearCooldown: only the cooldown the download saw when it began.  Mutant:
\* whichever is on record.
ClearsAny(seen) == cooldown' = [strikes |-> 0, on |-> FALSE]
ClearsSeen(seen) == cooldown' = IF cooldown.strikes = seen
                                THEN [strikes |-> 0, on |-> FALSE] ELSE cooldown

\* settle, of a download that worked.
DownloadSucceeds ==
  /\ download.landed
  /\ SetsRow(download.v, Fresh(video[download.v], "transcribing"))
  /\ ClearsSeen(download.strikes)
  /\ download' = NoDownload
  /\ UNCHANGED <<listVars, subtitle, open, completing, files>>

\* settle, of one that did not.
Settled(r, result) ==
  CASE result = "lost" -> [Moved(r, "unavailable") EXCEPT !.lost = TRUE]
    [] result = "members" -> Skipped(r, "members")
    [] result = "upcoming" -> PutOff(r, "waiting")
    [] result = "format" -> Moved(r, "failed")
    [] result = "other" -> RetriedOrFailed(r, "queued")
    [] OTHER -> Moved(r, "queued")
DownloadRefused ==
  /\ ~LaneIdle /\ ~download.landed
  /\ \E result \in Results :
       /\ SetsRow(download.v, Settled(video[download.v], result))
       /\ IF result = "pushback" THEN PushesBack
          ELSE "fault" \in Features /\ UNCHANGED cooldown
  /\ download' = NoDownload
  /\ UNCHANGED <<listVars, subtitle, open, completing, files>>

\* subtitleNext picks a downloaded video.  Mutant: one that failed once is left.
UnfailedSubtitle(v) == video[v].status = "transcribing" /\ video[v].fails = 0
WantsSubtitle(v) == video[v].status = "transcribing" /\ ~video[v].later
TakeSubtitle(v) ==
  /\ subtitle = None /\ WantsSubtitle(v)
  /\ subtitle' = v
  /\ UNCHANGED <<listVars, video, download, open, completing, files, cooldown>>

\* produceSubtitles is through, with translation jobs or without.
SubtitleMade ==
  /\ subtitle # None
  /\ SetsRow(subtitle, Fresh(video[subtitle], "translating"))
  /\ open' \in {open, open \cup {subtitle}}
  /\ subtitle' = None
  /\ UNCHANGED <<listVars, download, completing, files, cooldown>>

\* notYet: the backend, the GPU or YouTube is not free.
SubtitleWaits ==
  /\ subtitle # None /\ ("fault" \in Features \/ cooldown.on)
  /\ SetsRow(subtitle, PutOff(video[subtitle], "transcribing"))
  /\ subtitle' = None
  /\ UNCHANGED <<listVars, download, open, completing, files, cooldown>>

\* A caption call, a turn of the video lane, is pushed back.
CaptionPushedBack ==
  /\ subtitle # None /\ LaneIdle /\ ~cooldown.on /\ PushesBack
  /\ SetsRow(subtitle, PutOff(video[subtitle], "transcribing"))
  /\ subtitle' = None
  /\ UNCHANGED <<listVars, download, open, completing, files>>

SubtitleFails ==
  /\ subtitle # None /\ "fault" \in Features
  /\ SetsRow(subtitle, RetriedOrFailed(video[subtitle], "transcribing"))
  /\ subtitle' = None
  /\ UNCHANGED <<listVars, download, open, completing, files, cooldown>>

\* The translation queue is done with the video's jobs.
JobsSettle(v) ==
  /\ v \in open /\ open' = open \ {v}
  /\ UNCHANGED <<listVars, video, download, subtitle, completing, files,
                 cooldown>>

\* finishTranslated hands a video to onSubtitlesComplete.  Mutant: while some of
\* its translations run.
FinishableEarly(v) == video[v].status \in {"transcribing", "translating"}
Finishable(v) == video[v].status = "translating" /\ v \notin open
FinishBegins(v) ==
  /\ Finishable(v) /\ v \notin completing
  /\ completing' = completing \cup {v}
  /\ UNCHANGED <<listVars, video, download, subtitle, open, files, cooldown>>

\* The note is exported, or cannot be yet.
FinishDone(v) ==
  /\ v \in completing /\ completing' = completing \ {v}
  /\ SetsRow(v, Moved(video[v], "done"))
  /\ UNCHANGED <<listVars, download, subtitle, open, files, cooldown>>
FinishFails(v) ==
  /\ v \in completing /\ "fault" \in Features
  /\ completing' = completing \ {v}
  /\ UNCHANGED <<listVars, video, download, subtitle, open, files, cooldown>>

-----------------------------------------------------------------------------
(* Time, and restarts.                                                     *)

CooldownEnds ==
  /\ cooldown.on /\ cooldown' = [cooldown EXCEPT !.on = FALSE]
  /\ UNCHANGED <<listVars, video, laneVars>>

RetryDue(v) ==
  /\ video[v].later /\ SetsRow(v, [video[v] EXCEPT !.later = FALSE])
  /\ UNCHANGED <<listVars, laneVars, cooldown>>

\* reconcile: interrupted downloads are queued again, and what is on disk is
\* taken as downloaded.  Mutant: the interrupted are left as they are.
Interrupted(r) == r
Requeued(r) == IF r.status = "downloading"
               THEN [Moved(r, "queued") EXCEPT !.later = r.later] ELSE r
Reconciled(v) ==
  LET r == Requeued(video[v])
  IN IF r.status = "queued" /\ r.owner \in Followed /\ v \in files[r.owner]
     THEN Fresh(r, "transcribing") ELSE r

\* The process dies, and boots.
Restart ==
  /\ "crash" \in Features
  /\ video' = [v \in Videos |-> Reconciled(v)]
  /\ check' = [p \in Playlists |-> NoCheck] /\ changes' = {}
  /\ download' = NoDownload /\ subtitle' = None /\ completing' = {}
  /\ UNCHANGED <<follow, synced, items, removed, open, files, cooldown>>

-----------------------------------------------------------------------------
Next ==
  \/ \E p \in Playlists :
       \/ Follow(p) \/ Unfollow(p) \/ StartCheck(p) \/ ListingArrives(p)
       \/ AppliesListing(p) \/ CheckFails(p) \/ CheckGone(p)
       \/ CheckPushedBack(p) \/ ChangeMode(p) \/ BackfillChanges(p)
       \/ ContentChanges(p)
  \/ \E c \in changes : ChangeDone(c) \/ ChangeFails(c)
  \/ \E v \in Videos :
       \/ UserActs(v) \/ TakeVideo(v) \/ TakeSubtitle(v) \/ JobsSettle(v)
       \/ FinishBegins(v) \/ FinishDone(v) \/ FinishFails(v) \/ RetryDue(v)
  \/ WakesOnly \/ DownloadLands \/ DownloadSucceeds \/ DownloadRefused
  \/ SubtitleMade \/ SubtitleWaits \/ CaptionPushedBack \/ SubtitleFails
  \/ CooldownEnds \/ Restart

Spec == Init /\ [][Next]_vars

\* A download, a pass and a note export each end: every yt-dlp call has a
\* timeout, ticks come every half minute, and what failed is tried again.  The
\* strong conditions assume that Whisper and the notes folder do not fail for
\* ever, and that each ready video gets its turn: one put back has its retry
\* time ahead, while the next pass follows at once.
Fairness ==
  /\ WF_vars(WakesOnly) /\ WF_vars(DownloadLands \/ DownloadRefused)
  /\ WF_vars(DownloadSucceeds) /\ WF_vars(CooldownEnds)
  /\ SF_vars(SubtitleMade)
  /\ \A v \in Videos : /\ SF_vars(TakeVideo(v)) /\ SF_vars(TakeSubtitle(v))
                       /\ WF_vars(RetryDue(v)) /\ WF_vars(JobsSettle(v))
                       /\ WF_vars(FinishBegins(v)) /\ SF_vars(FinishDone(v))

FairSpec == Spec /\ Fairness

-----------------------------------------------------------------------------
(* Properties.                                                             *)

\* The shape of every variable: of lists and checks, rows, lanes, the cooldown.
Rows == [status : Statuses, owner : Playlists \cup {None}, skip : SkipKinds,
         picked : BOOLEAN, fails : 0 .. Retries + 1, later : BOOLEAN,
         lost : BOOLEAN]
Checks == [phase : {"none", "listing", "applying"}, set : Settings \cup {None},
           first : BOOLEAN, old : BOOLEAN, listed : SUBSET Videos,
           hidden : SUBSET Videos, whole : BOOLEAN, chosen : SUBSET Videos,
           again : 0 .. MaxAgain]
Changes == [kind : {"backfill", "content"}, p : Playlists, auto : BOOLEAN,
            choice : Backfills, early : SUBSET Videos, restore : BOOLEAN,
            rows : [Videos -> Statuses \cup {"none"}]]

ListTypes ==
  /\ follow \in [Playlists -> Settings \cup {None}]
  /\ synced \in [Playlists -> {"no", "own", "old"}]
  /\ items \in [Playlists -> [Videos -> {"never", "early", "late"}]]
  /\ removed \in [Playlists -> SUBSET Videos]
  /\ check \in [Playlists -> Checks] /\ changes \subseteq Changes
LaneTypes ==
  /\ download \in [v : Videos \cup {None}, p : Playlists \cup {None},
                   strikes : 0 .. MaxStrikes, landed : BOOLEAN]
  /\ subtitle \in Videos \cup {None}
  /\ open \subseteq Videos /\ completing \subseteq Videos
  /\ files \in [Playlists -> SUBSET Videos]
TypeOK == /\ ListTypes /\ LaneTypes /\ video \in [Videos -> Rows]
          /\ cooldown \in [strikes : 0 .. MaxStrikes, on : BOOLEAN]

\* A lane that awaits a download, a subtitle or a note finds the row as it left
\* it: no listing, filter, user or other lane moves it meanwhile, so the move
\* that follows is one the status table allows; and no row is left downloading
\* without its download, also not by a restart (worker.ts, video-status.ts).
LanesOwnTheirRows ==
  /\ \A v \in Videos : video[v].status = "downloading" <=> download.v = v
  /\ subtitle # None => video[subtitle].status = "transcribing"
  /\ \A v \in completing : video[v].status = "translating"

\* Only the user takes back the user's own skip or pick, whatever a sync, a
\* takeover, a re-follow, a restart or a filter change does meanwhile; all but
\* the one step of a filter change that read the video before the user skipped
\* it (store.ts listedState, sync.ts changeBackfill).
UserSkipped(r) == r.status = "skipped" /\ r.skip = "user"
ReadBefore(v) == \E c \in changes : c.rows[v] = "skipped" /\ ChangeDone(c)
UsersChoiceHolds ==
  [][\A v \in Videos :
       /\ UserSkipped(video[v]) /\ ~ReadBefore(v)
            => UserSkipped(video'[v]) \/ video'[v].picked
       /\ video[v].picked /\ video[v].status = "queued"
            => /\ video'[v].status # "new"
               /\ video'[v].status = "skipped" => video'[v].skip = "user"]_vars

\* A pause YouTube asked for is never lifted by a download that began before
\* it: the strikes are forgotten only when the pause is over (clearCooldown).
PauseHolds ==
  [][cooldown.on => cooldown'.strikes >= cooldown.strikes]_vars

\* The first sync on record is one of the present follow: no check left over
\* from an earlier follow of the playlist stands in for it (checkPlaylist).
FirstSyncIsOwn == \A p \in Playlists : synced[p] # "old"

\* The process stays up, and the user leaves the rows alone.
LeftAlone == <>[][~Restart /\ \A v \in Videos : ~UserActs(v)]_vars

\* Then a queued video of a followed playlist gets its turn, whatever the other
\* videos, the pauses and the checks do (nextQueued).
Wanted(v) == /\ video[v].status = "queued" /\ video[v].owner \in Followed
             /\ v \notin removed[video[v].owner] \/ video[v].picked
QueuedGetsItsTurn == LeftAlone => \A v \in Videos : Wanted(v) ~> ~Wanted(v)

\* What is downloaded ends with its note, or failed for good, through earlier
\* restarts, pauses and subtitles that cannot be made yet.
DownloadedIsFinished ==
  LeftAlone => \A v \in Videos :
    (video[v].status \in {"transcribing", "translating"})
      ~> (video[v].status \in {"done", "failed"})
=============================================================================
