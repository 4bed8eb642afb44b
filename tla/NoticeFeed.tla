----------------------------- MODULE NoticeFeed -----------------------------
(***************************************************************************)
(* AEMO's market notices: market_notice_client.py polls NEMWEB's           *)
(* Market_Notice directory, notice_store.py keeps what was found and the   *)
(* cursor, and the region coordinators share both (coordinator.py,         *)
(* async_fetch_notices).                                                   *)
(*                                                                         *)
(* A notice file is the number of its publication and Text[f] is what its  *)
(* body says.  Days stand for dates.  An action is the code between two    *)
(* awaits; a batch of notice files is fetched by one gather(), of which    *)
(* nobody sees a part.                                                     *)
(***************************************************************************)
EXTENDS Integers, FiniteSets, FiniteSetsExt, SequencesExt

CONSTANTS
  Regions,      \* the coordinators that share the store and the client
  Text,         \* Text[f]: what the body of notice file f says
  Cap,          \* _NOTICE_MAX_FILES_PER_CYCLE
  CurrentDays,  \* _NOTICE_CURRENT_DAYS
  Retention,    \* NOTICE_RETENTION_DAYS
  MaxDay        \* bound of this model: the last day

Files == DOMAIN Text
Unheld == "unheld"

\* What this module assumes of its constants.
NoticeAssumption ==
  /\ Unheld \notin Regions
  /\ IsFiniteSet(Files) /\ Files = 1..Cardinality(Files)
  /\ Cap \in Nat \ {0}
  /\ {CurrentDays, Retention, MaxDay} \subseteq Nat
  /\ \A f \in Files : /\ Text[f].cancels \in BOOLEAN
                      /\ Text[f].periods \subseteq Nat \X Nat /\ IsFiniteSet(Text[f].periods)

VARIABLES
  day, published, fileDay,  \* NEMWEB: today, files listed, the date in a name
  fetchLock, stamp,         \* NOTICE_FETCH_LOCK_KEY, NOTICE_FETCH_STAMP_KEY
  pc, batch,                \* what a coordinator awaits, the files it fetches
  cursor,                   \* MarketNoticeClient.last_seen_notice_id
  store,                    \* GridNoticeStore: cursor and notices
  disk, saving,             \* the file in .storage, what a save will write
  marked,                   \* last_fetched_at: by a poll that was answered or not
  examined, parsed          \* history: files passed, notices read

feedVars == <<day, published, fileDay, fetchLock, stamp, pc, batch, cursor, store,
              disk, saving, marked, examined, parsed>>
nemweb == <<day, published, fileDay>>
feedHistory == <<examined, parsed>>

Empty == [cursor |-> 0, notices |-> {}]

-----------------------------------------------------------------------------
(* What a notice body says *)

\* _parse_references(): what the notice withdraws, names and replaces.
References(f) ==
  LET t == Text[f]
      named == SelectSeq(t.refs, LAMBDA n : n # f)
  IN IF t.cancels
     THEN [cancels |-> IF named = <<>> THEN 0 ELSE named[1],
           date |-> t.date, supersedes |-> 0]
     ELSE [cancels |-> 0, date |-> 0,
           supersedes |-> IF t.updates = f THEN 0 ELSE t.updates]

\* The first pattern that finds a level, else 1: the header line names every
\* level and is never searched.
Level(t) ==
  IF t.levels = <<>> THEN 1 ELSE t.levels[1]

\* The widest window over the numbered periods, else the day of issue.
PeriodIn(f) ==
  LET t == Text[f]
  IN IF t.cancels \/ t.periods = {}
     THEN <<fileDay[f], fileDay[f]>>
     ELSE <<Min({p[1] : p \in t.periods}), Max({p[2] : p \in t.periods})>>

\* _parse_notice_body(): None unless it is a LOR or MSL notice of some region.
IsNotice(f) == Text[f].type \in {"LOR", "MSL"} /\ Text[f].region # "none"

Notice(f) ==
  LET t == Text[f]
      r == References(f)
  IN [id |-> f, type |-> t.type, level |-> Level(t), region |-> t.region,
      from |-> PeriodIn(f)[1], to |-> PeriodIn(f)[2],
      isCancelled |-> t.cancels, supersededBy |-> 0,
      cancels |-> r.cancels, date |-> r.date, supersedes |-> r.supersedes]

-----------------------------------------------------------------------------
(* GridNoticeStore *)

Active(n) == ~n.isCancelled /\ n.supersededBy = 0

\* A cancellation names a notice, or else (PDPASA) a date; an update names one.
CancelsByName(c, n) == c.isCancelled /\ c.cancels # 0 /\ n.id = c.cancels
CancelsByDate(c, n) ==
  /\ c.isCancelled /\ c.cancels = 0 /\ c.date # 0
  /\ n.type = c.type /\ n.level = c.level /\ n.from = c.date
Supersedes(u, n) == ~u.isCancelled /\ u.supersedes # 0 /\ n.id = u.supersedes

\* _apply_withdrawal(), of a stored notice by each of a set, oldest first.
Withdrawn(n, by) ==
  LET ours == {c \in by : c.region = n.region}
      updates == {c \in ours : Supersedes(c, n)}
  IN [n EXCEPT
        !.isCancelled = @ \/ \E c \in ours : CancelsByName(c, n) \/ CancelsByDate(c, n),
        !.supersededBy = IF updates = {} THEN @ ELSE Max({c.id : c \in updates})]

\* add_notices(), in the order the client returns, oldest first: each withdraws
\* what is stored by then, and replaces its own or joins them.
AddNotices(s, files) ==
  LET new == {Notice(f) : f \in files}
      kept == {n \in s.notices : ~ \E c \in new : c.id = n.id /\ c.region = n.region}
  IN [cursor |-> Max({s.cursor} \union files),
      notices |-> {Withdrawn(n, new) : n \in kept}
                  \union {Withdrawn(n, {c \in new : c.id > n.id}) : n \in new}]

PrunedStore(s) == [s EXCEPT !.notices = {n \in @ : n.to >= day - Retention}]

\* As if superseded_by were not written to the file, or not read from it.
LoadForgettingUpdates(d) ==
  IF d.schema < 2 THEN Empty
  ELSE [d.data EXCEPT !.notices = {[n EXCEPT !.supersededBy = 0] : n \in @}]

\* async_load(): nothing on disk, or an older schema, is an empty store.
Load(d) == IF d.schema < 2 THEN Empty ELSE d.data

-----------------------------------------------------------------------------
(* fetch_new_notices(): what a listing leaves to fetch *)

Unseen == {f \in 1..published : f > cursor}
Stale(f) == fileDay[f] < day - CurrentDays

\* The cap would keep the newest, and leave a gap behind the cursor.
NewestCandidates ==
  LET wanted == {f \in Unseen : ~Stale(f)}
  IN {f \in wanted : Cardinality({g \in wanted : g > f}) < Cap}

\* Candidates oldest first, cut at the cap.
Candidates ==
  LET wanted == {f \in Unseen : ~Stale(f)}
  IN {f \in wanted : Cardinality({g \in wanted : g < f}) < Cap}

\* Stale files the cursor may pass: none beyond the first file still queued.
Passable ==
  {f \in Unseen : Stale(f) /\ \A g \in Candidates : f < g}

-----------------------------------------------------------------------------
(* NEMWEB and the calendar *)

PublishNotice ==
  /\ published + 1 \in Files
  /\ published' = published + 1
  /\ fileDay' = [fileDay EXCEPT ![published + 1] = day]
  /\ UNCHANGED <<day, fetchLock, stamp, pc, batch, cursor, store, disk, saving, marked, feedHistory>>

NextDay ==
  /\ day < MaxDay
  /\ day' = day + 1
  /\ UNCHANGED <<published, fileDay, fetchLock, stamp, pc, batch, cursor, store, disk,
                 saving, marked, feedHistory>>

\* NOTICE_FETCH_WINDOW_S passes since the last stamp.
WindowPasses ==
  /\ stamp = "recent"
  /\ stamp' = "old"
  /\ UNCHANGED <<nemweb, fetchLock, pc, batch, cursor, store, disk, saving, marked, feedHistory>>

-----------------------------------------------------------------------------
(* A coordinator's async_fetch_notices() *)

AskNotices(r) ==
  /\ pc[r] = "out"
  /\ pc' = [pc EXCEPT ![r] = "lock"]
  /\ UNCHANGED <<nemweb, fetchLock, stamp, batch, cursor, store, disk, saving, marked, feedHistory>>

\* Inside the lock: a sibling's poll of this window is shared.
SharePoll(r) ==
  /\ pc[r] = "lock" /\ fetchLock = Unheld
  /\ stamp = "recent"
  /\ pc' = [pc EXCEPT ![r] = "out"]
  /\ UNCHANGED <<nemweb, fetchLock, stamp, batch, cursor, store, disk, saving, marked, feedHistory>>

\* The window is only looked at before the lock is waited for.
BeginPollUnchecked(r) ==
  /\ pc[r] = "lock" /\ fetchLock = Unheld
  /\ fetchLock' = r
  /\ cursor' = store.cursor
  /\ pc' = [pc EXCEPT ![r] = "list"]
  /\ UNCHANGED <<nemweb, stamp, batch, store, disk, saving, marked, feedHistory>>

BeginPoll(r) ==
  /\ pc[r] = "lock" /\ fetchLock = Unheld
  /\ stamp # "recent"
  /\ fetchLock' = r
  /\ cursor' = store.cursor
  /\ pc' = [pc EXCEPT ![r] = "list"]
  /\ UNCHANGED <<nemweb, stamp, batch, store, disk, saving, marked, feedHistory>>

\* The end of async_fetch_notices: the stamp, then the lock.
EndPoll(r) ==
  /\ pc' = [pc EXCEPT ![r] = "out"]
  /\ fetchLock' = Unheld
  /\ stamp' = "recent"
  /\ batch' = {}

\* Nothing to fetch: mark, advance the stored cursor, save it if it moved.
Conclude(r, by, upTo) ==
  /\ marked' = by
  /\ IF upTo > store.cursor
     THEN /\ store' = PrunedStore([store EXCEPT !.cursor = upTo])
          /\ saving' = store'
          /\ pc' = [pc EXCEPT ![r] = "save"]
          /\ UNCHANGED <<fetchLock, stamp, batch>>
     ELSE EndPoll(r) /\ UNCHANGED <<store, saving>>

\* The listing's retry ladder gives up and fetch_with_retry returns None.
ListingFails(r) ==
  /\ pc[r] = "list"
  /\ Conclude(r, "silence", cursor)
  /\ UNCHANGED <<nemweb, cursor, disk, examined, parsed>>

NothingToFetch(r) ==
  /\ pc[r] = "list"
  /\ Candidates = {}
  /\ cursor' = Max({cursor} \union Passable)
  /\ examined' = examined \union Passable
  /\ Conclude(r, "answer", cursor')
  /\ UNCHANGED <<nemweb, disk, parsed>>

StartBatch(r) ==
  /\ pc[r] = "list"
  /\ Candidates # {}
  /\ cursor' = Max({cursor} \union Passable)
  /\ examined' = examined \union Passable
  /\ batch' = Candidates
  /\ pc' = [pc EXCEPT ![r] = "fetch"]
  /\ UNCHANGED <<nemweb, fetchLock, stamp, store, disk, saving, marked, parsed>>

\* The gather() ends: got were read, the rest failed after their retry or
\* answered 404. The cursor passes them all; the store takes the notices.
FinishBatch(r, got) ==
  /\ pc[r] = "fetch"
  /\ cursor' = Max({cursor} \union batch)
  /\ examined' = examined \union batch
  /\ parsed' = parsed \union {f \in got : IsNotice(f)}
  /\ marked' = "answer"
  /\ store' = PrunedStore(AddNotices([store EXCEPT !.cursor = Max({@, cursor'})],
                            {f \in got : IsNotice(f)}))
  /\ saving' = store'
  /\ pc' = [pc EXCEPT ![r] = "save"]
  /\ UNCHANGED <<nemweb, fetchLock, stamp, batch, disk>>

StoreSaved(r) ==
  /\ pc[r] = "save"
  /\ disk' = [schema |-> 2, data |-> saving]
  /\ EndPoll(r)
  /\ UNCHANGED <<nemweb, cursor, store, saving, marked, examined, parsed>>

\* The entry's task is cancelled at whatever it awaits; `async with` releases
\* the lock, and a write under way may still reach the disk.
Cancel(r) ==
  /\ pc[r] # "out"
  /\ pc' = [pc EXCEPT ![r] = "out"]
  /\ fetchLock' = IF fetchLock = r THEN Unheld ELSE fetchLock
  /\ batch' = IF fetchLock = r THEN {} ELSE batch
  /\ \/ UNCHANGED disk
     \/ pc[r] = "save" /\ disk' = [schema |-> 2, data |-> saving]
  /\ UNCHANGED <<nemweb, stamp, cursor, store, saving, marked, feedHistory>>

-----------------------------------------------------------------------------
(* The last entry unloads and one is set up again, or the process restarts:  *)
(* the store is read from disk. hass.data keeps the stamp over an unload.    *)

Forget ==
  /\ pc' = [r \in Regions |-> "out"]
  /\ fetchLock' = Unheld
  /\ batch' = {}
  /\ store' = Load(disk)
  /\ disk' = IF disk.schema < 2 THEN [schema |-> 2, data |-> Empty] ELSE disk
  /\ cursor' = 0
  /\ saving' = Empty
  /\ marked' = "none"
  /\ examined' = {f \in examined : f <= disk.data.cursor}
  /\ parsed' = {f \in parsed : f <= disk.data.cursor}

FeedReload ==
  /\ \A r \in Regions : pc[r] = "out"
  /\ Forget
  /\ UNCHANGED <<nemweb, stamp>>

FeedCrash ==
  /\ Forget
  /\ stamp' = "none"
  /\ UNCHANGED nemweb

-----------------------------------------------------------------------------
FeedInit ==
  /\ day = 1 /\ published = 0 /\ fileDay = [f \in Files |-> 0]
  /\ fetchLock = Unheld /\ stamp = "none"
  /\ pc = [r \in Regions |-> "out"] /\ batch = {} /\ cursor = 0
  /\ \E s \in {1, 2} : disk = [schema |-> s, data |-> Empty]
  /\ store = Empty /\ saving = Empty /\ marked = "none"
  /\ examined = {} /\ parsed = {}

Poll(r) ==
  \/ AskNotices(r) \/ SharePoll(r) \/ BeginPoll(r)
  \/ ListingFails(r) \/ NothingToFetch(r) \/ StartBatch(r)
  \/ \E got \in SUBSET batch : FinishBatch(r, got)
  \/ StoreSaved(r) \/ Cancel(r)

FeedNext ==
  \/ PublishNotice \/ NextDay \/ WindowPasses
  \/ \E r \in Regions : Poll(r)
  \/ FeedReload \/ FeedCrash

FeedSpec == FeedInit /\ [][FeedNext]_feedVars

-----------------------------------------------------------------------------
(* Properties *)

(* The variables have their types, the lock's holder is the one coordinator  *)
(* past it, and only files of the listing are fetched.                       *)
FeedTypeOK ==
  /\ day \in Nat /\ published \in 0..Cardinality(Files)
  /\ fileDay \in [Files -> Nat]
  /\ fetchLock \in Regions \union {Unheld} /\ stamp \in {"none", "recent", "old"}
  /\ pc \in [Regions -> {"out", "lock", "list", "fetch", "save"}]
  /\ \A r \in Regions : pc[r] \in {"list", "fetch", "save"} <=> fetchLock = r
  /\ batch \subseteq 1..published /\ Cardinality(batch) <= Cap
  /\ cursor \in Nat /\ marked \in {"none", "answer", "silence"}
  /\ \A s \in {store, saving, disk.data} : s.cursor \in Nat /\ s.notices \subseteq
       {n \in s.notices : DOMAIN n = {"id", "type", "level", "region", "from", "to",
          "isCancelled", "supersededBy", "cancels", "date", "supersedes"}}
  /\ examined \subseteq Files /\ parsed \subseteq examined

(* "The cursor advances without leaving unfetched gaps behind it"            *)
(* (market_notice_client.py, the cap and the stale files): whatever lies     *)
(* below the cursor, in memory or on disk, was examined.                     *)
NoGapBelowCursor ==
  \A f \in Files : f <= Max({store.cursor, disk.data.cursor}) => f \in examined

(* coordinator.py, _fetch_notices_once: notices and cursor reach the disk    *)
(* together. A notice that was read and lies below the cursor on disk will   *)
(* never be fetched again, so it is on disk too, unless it was pruned.       *)
CursorKeepsItsNotices ==
  \A f \in parsed :
    f <= disk.data.cursor =>
      \/ \E n \in disk.data.notices : n.id = f
      \/ Notice(f).to < day - Retention

(* What the cursor says was passed was passed, and what was read is kept.    *)
CursorIsHonest == NoGapBelowCursor /\ CursorKeepsItsNotices

(* notice_store.py, add_notices and _apply_withdrawal (#182, #216): a notice *)
(* that a later stored one cancels or replaces is not active, now or after a *)
(* restart.                                                                  *)
WithdrawnStaysRetired ==
  \A s \in {store, disk.data} : \A c, n \in s.notices :
    /\ c.id > n.id /\ c.region = n.region
    /\ CancelsByName(c, n) \/ CancelsByDate(c, n) \/ Supersedes(c, n)
    => ~Active(n)

(* coordinator.py, async_fetch_notices: however many coordinators ask, and   *)
(* whoever is cancelled, the directory is polled by one at a time and once   *)
(* per window.                                                               *)
Shared == INSTANCE SharedPoll WITH busy <- fetchLock # Unheld, fresh <- stamp = "recent"
OnePollPerWindow == Shared!Spec

(* coordinator.py 398-399: "A failed fetch raises above this line and leaves *)
(* the previous stamp in place": last_fetched_at is only set by a poll that  *)
(* NEMWEB answered.                                                          *)
LastFetchedWasAnswered == marked # "silence"
=============================================================================
