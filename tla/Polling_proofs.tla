--------------------------- MODULE Polling_proofs ---------------------------
(* What holds of the polling clients and of a region's prices, for any number  *)
(* of entries, slots, retries, tariffs and overlaps: the dispatch chain and    *)
(* its guard (DispatchPolling), the runs fetched after its polls (HeldRuns),   *)
(* the publish slots and their refreshes (PublishCycle), the user's choice of  *)
(* tariff sensors (ActiveTariff), what they show (TariffWrites), the log of    *)
(* the pre-dispatch runs (PredispatchLedger) and the market notices            *)
(* (NoticeFeed); and that what holds of each component holds where a behaviour *)
(* chooses among them (MCPolling).                                             *)
EXTENDS MCPolling, NoticeFeed, FiniteSetTheorems, WellFoundedInduction, SequenceTheorems, TLAPS

-----------------------------------------------------------------------------
(* The market notices *)

Polling == {"list", "fetch", "save"}

\* The lock is held exactly by the coordinator between its listing and its save.
HolderPolls ==
  /\ fetchLock \in Regions \union {Unheld}
  /\ pc \in [Regions -> {"out", "lock"} \union Polling]
  /\ \A r \in Regions : pc[r] \in Polling <=> fetchLock = r

\* Whoever holds the lock found the stamp old, and only it renews the stamp.
HolderFoundItOld ==
  /\ stamp \in {"none", "recent", "old"}
  /\ fetchLock # Unheld => stamp # "recent"

PollInv == HolderPolls /\ HolderFoundItOld

-----------------------------------------------------------------------------
\* The end of a poll hands the lock back.
LEMMA EndKeepsInv ==
  ASSUME NoticeAssumption, PollInv, NEW r \in Regions, fetchLock = r, EndPoll(r)
  PROVE  PollInv' /\ Shared!Finish
<1>1. pc' = [pc EXCEPT ![r] = "out"] /\ fetchLock' = Unheld /\ stamp' = "recent"
  BY DEF EndPoll
<1>2. r # Unheld
  BY DEF NoticeAssumption
<1>3. HolderPolls'
  BY <1>1, <1>2 DEF PollInv, HolderPolls, Polling, NoticeAssumption
<1>4. HolderFoundItOld'
  BY <1>1 DEF HolderFoundItOld
<1>5. Shared!Finish
  BY <1>1, <1>2 DEF Shared!Finish
<1> QED BY <1>3, <1>4, <1>5 DEF PollInv

\* A poll with nothing to fetch goes on to its save, or ends at once.
LEMMA ConcludeKeepsInv ==
  ASSUME NoticeAssumption, PollInv, NEW r \in Regions, pc[r] = "list",
         NEW by, NEW upTo, Conclude(r, by, upTo)
  PROVE  PollInv' /\ (Shared!Finish \/ UNCHANGED <<fetchLock, stamp>>)
<1>1. fetchLock = r
  BY DEF PollInv, HolderPolls, Polling
<1>2. CASE upTo > store.cursor
  <2>1. pc' = [pc EXCEPT ![r] = "save"] /\ UNCHANGED <<fetchLock, stamp>>
    BY <1>2 DEF Conclude
  <2> QED BY <1>1, <2>1 DEF PollInv, HolderPolls, HolderFoundItOld, Polling
<1>3. CASE ~(upTo > store.cursor)
  <2>1. EndPoll(r)
    BY <1>3 DEF Conclude
  <2> QED BY <1>1, <2>1, EndKeepsInv
<1> QED BY <1>2, <1>3

\* What one coordinator does is a step of the shared poll, or is not seen there.
LEMMA PollStep ==
  ASSUME NoticeAssumption, PollInv, NEW r \in Regions, Poll(r)
  PROVE  PollInv' /\ (Shared!Next \/ UNCHANGED <<fetchLock # Unheld, stamp = "recent">>)
<1> USE DEF PollInv
<1>1. CASE AskNotices(r) \/ SharePoll(r)
  BY <1>1 DEF AskNotices, SharePoll, HolderPolls, HolderFoundItOld, Polling
<1>2. CASE BeginPoll(r)
  <2>1. /\ fetchLock = Unheld /\ stamp # "recent" /\ UNCHANGED stamp
        /\ fetchLock' = r /\ pc' = [pc EXCEPT ![r] = "list"]
    BY <1>2 DEF BeginPoll
  <2>2. r # Unheld
    BY DEF NoticeAssumption
  <2>3. HolderPolls' /\ HolderFoundItOld'
    BY <2>1, <2>2 DEF HolderPolls, HolderFoundItOld, Polling, NoticeAssumption
  <2>4. Shared!Begin
    BY <2>1, <2>2 DEF Shared!Begin
  <2> QED BY <2>3, <2>4 DEF Shared!Next
<1>3. CASE ListingFails(r) \/ NothingToFetch(r)
  <2>1. pc[r] = "list" /\ \E by, upTo : Conclude(r, by, upTo)
    BY <1>3 DEF ListingFails, NothingToFetch
  <2>2. PollInv' /\ (Shared!Finish \/ UNCHANGED <<fetchLock, stamp>>)
    BY <2>1, ConcludeKeepsInv
  <2> QED BY <2>2 DEF Shared!Next
<1>4. CASE StartBatch(r) \/ \E some \in SUBSET batch : FinishBatch(r, some)
  <2>1. /\ pc[r] \in Polling /\ UNCHANGED <<fetchLock, stamp>>
        /\ \E at \in Polling : pc' = [pc EXCEPT ![r] = at]
    BY <1>4 DEF StartBatch, FinishBatch, Polling
  <2> QED BY <2>1 DEF HolderPolls, HolderFoundItOld, Polling
<1>5. CASE StoreSaved(r)
  <2>1. EndPoll(r) /\ fetchLock = r
    BY <1>5 DEF StoreSaved, HolderPolls, Polling
  <2> QED BY <2>1, EndKeepsInv DEF Shared!Next
<1>6. CASE Cancel(r)
  <2>1. /\ pc' = [pc EXCEPT ![r] = "out"] /\ UNCHANGED stamp
        /\ fetchLock' = IF fetchLock = r THEN Unheld ELSE fetchLock
    BY <1>6 DEF Cancel
  <2>2. HolderPolls' /\ HolderFoundItOld'
    BY <2>1 DEF HolderPolls, HolderFoundItOld, Polling, NoticeAssumption
  <2>3. CASE fetchLock = r
    BY <2>1, <2>2, <2>3 DEF Shared!Next, Shared!Abandon, NoticeAssumption
  <2>4. CASE fetchLock # r
    BY <2>1, <2>2, <2>4
  <2> QED BY <2>3, <2>4
<1> QED BY <1>1, <1>2, <1>3, <1>4, <1>5, <1>6 DEF Poll

\* A crash abandons the poll under way, or else forgets the stamp; an unload
\* finds no poll under way.
LEMMA RestartStep ==
  ASSUME NoticeAssumption, PollInv, FeedReload \/ FeedCrash
  PROVE  PollInv' /\ (Shared!Next \/ UNCHANGED <<fetchLock # Unheld, stamp = "recent">>)
<1> USE DEF PollInv
<1>1. pc' = [r \in Regions |-> "out"] /\ fetchLock' = Unheld
  BY DEF FeedReload, FeedCrash, Forget
<1>2. HolderPolls'
  BY <1>1 DEF HolderPolls, Polling, NoticeAssumption
<1>3. CASE FeedReload
  <2>1. fetchLock = Unheld /\ UNCHANGED stamp
    BY <1>3 DEF FeedReload, HolderPolls, Polling
  <2> QED BY <1>1, <1>2, <2>1 DEF HolderFoundItOld
<1>4. CASE FeedCrash
  <2>1. stamp' = "none"
    BY <1>4 DEF FeedCrash
  <2>2. HolderFoundItOld'
    BY <1>1, <2>1 DEF HolderFoundItOld
  <2>3. CASE fetchLock # Unheld
    BY <1>1, <1>2, <2>1, <2>2, <2>3 DEF HolderFoundItOld, Shared!Next, Shared!Abandon
  <2>4. CASE fetchLock = Unheld /\ stamp = "recent"
    BY <1>1, <1>2, <2>1, <2>2, <2>4 DEF Shared!Next, Shared!Age
  <2>5. CASE fetchLock = Unheld /\ stamp # "recent"
    BY <1>1, <1>2, <2>1, <2>2, <2>5
  <2> QED BY <2>3, <2>4, <2>5
<1> QED BY <1>3, <1>4

-----------------------------------------------------------------------------
\* coordinator.py, async_fetch_notices: however many regions ask, and whoever
\* is cancelled, restarted or crashes, the notice directory is polled by one of
\* them at a time and once per window.
THEOREM NoticesPolledOnce == ASSUME NoticeAssumption PROVE FeedSpec => OnePollPerWindow
<1>1. FeedInit => PollInv /\ Shared!Init
  BY DEF FeedInit, PollInv, HolderPolls, HolderFoundItOld, Polling, NoticeAssumption, Shared!Init
<1>2. PollInv /\ [FeedNext]_feedVars
        => PollInv' /\ [Shared!Next]_<<fetchLock # Unheld, stamp = "recent">>
  <2> SUFFICES ASSUME PollInv, [FeedNext]_feedVars
               PROVE  PollInv' /\ (Shared!Next \/ UNCHANGED <<fetchLock # Unheld, stamp = "recent">>)
    OBVIOUS
  <2>1. CASE UNCHANGED feedVars
    BY <2>1 DEF feedVars, PollInv, HolderPolls, HolderFoundItOld
  <2>2. CASE PublishNotice \/ NextDay
    BY <2>2 DEF PublishNotice, NextDay, PollInv, HolderPolls, HolderFoundItOld
  <2>3. CASE WindowPasses
    BY <2>3 DEF WindowPasses, PollInv, HolderPolls, HolderFoundItOld, Shared!Next, Shared!Age
  <2>4. CASE \E r \in Regions : Poll(r)
    BY <2>4, PollStep
  <2>5. CASE FeedReload \/ FeedCrash
    BY <2>5, RestartStep
  <2> QED BY <2>1, <2>2, <2>3, <2>4, <2>5 DEF FeedNext
<1> QED BY <1>1, <1>2, PTL DEF FeedSpec, OnePollPerWindow, Shared!Spec

-----------------------------------------------------------------------------
(* The store, the disk and the cursor *)

NoticeFields == {"id", "type", "level", "region", "from", "to", "isCancelled",
                 "supersededBy", "cancels", "date", "supersedes"}

\* A stored notice says what its file says, but for what has withdrawn it since.
IsKeptOf(n, f) ==
  LET m == Notice(f)
  IN /\ DOMAIN n = NoticeFields
     /\ n.id = f /\ n.type = m.type /\ n.level = m.level /\ n.region = m.region
     /\ n.from = m.from /\ n.to = m.to /\ n.cancels = m.cancels /\ n.date = m.date
     /\ n.supersedes = m.supersedes
     /\ n.isCancelled \in BOOLEAN /\ (Text[f].cancels => n.isCancelled)
     /\ n.supersededBy \in Nat

\* What the file c says withdraws what the later one of the two says.
Retires(c, n) ==
  /\ c.id > n.id /\ c.region = n.region
  /\ CancelsByName(c, n) \/ CancelsByDate(c, n) \/ Supersedes(c, n)

\* A copy of the store: its notices are of files its cursor has passed, the
\* withdrawn ones are retired, and no notice read below the cursor is missing.
StoreOK(s) ==
  /\ DOMAIN s = {"cursor", "notices"} /\ s.cursor \in 0..published
  /\ \A n \in s.notices : n.id \in 1..s.cursor /\ IsKeptOf(n, n.id)
  /\ \A c, n \in s.notices : Retires(Notice(c.id), Notice(n.id)) => ~Active(n)
NothingLost(s) ==
  \A f \in parsed : f <= s.cursor =>
    (\E n \in s.notices : n.id = f) \/ Notice(f).to < day - Retention

\* The days of the listing's files never go back.
ListingOK ==
  /\ day \in Nat /\ published \in 0..Cardinality(Files)
  /\ fileDay \in [Files -> Nat]
  /\ \A f \in 1..published : fileDay[f] <= day
  /\ \A f, g \in 1..published : f <= g => fileDay[f] <= fileDay[g]

StoresOK ==
  /\ \A s \in {store, saving, disk.data} :
       StoreOK(s) /\ NothingLost(s) /\ s.cursor <= store.cursor
  /\ DOMAIN disk = {"schema", "data"} /\ disk.schema \in {1, 2}
  /\ disk.schema < 2 => disk.data = Empty

\* What the cursors passed was examined, and a batch leaves no gap before it.
CursorOK ==
  /\ cursor \in 0..published /\ marked \in {"none", "answer", "silence"}
  /\ examined \subseteq Files /\ 1..cursor \subseteq examined
  /\ 1..store.cursor \subseteq examined
  /\ parsed \subseteq examined /\ parsed \subseteq 1..store.cursor
  /\ batch \subseteq 1..published /\ Cardinality(batch) <= Cap
  /\ \A b \in batch : 1..b \subseteq examined \union batch

\* A poll under way is ahead of the store, and fetches what is ahead of both.
PollAhead ==
  \A r \in Regions :
    /\ pc[r] \in {"list", "fetch"} => store.cursor <= cursor
    /\ pc[r] = "fetch" => \A b \in batch : b > cursor

FeedInv == PollInv /\ ListingOK /\ StoresOK /\ CursorOK /\ PollAhead

-----------------------------------------------------------------------------
(* Numbers and finite sets *)

LEMMA LeastExists == ASSUME NEW S \in SUBSET Nat, S # {} PROVE \E x \in S : \A y \in S : x <= y
<1>1. PICK x \in S : \A y \in S : <<y, x>> \notin OpToRel(<, Nat)
  BY WFMin, NatLessThanWellFounded, Zenon
<1>2. \A y \in S : ~(y < x)
  BY <1>1 DEF OpToRel
<1> QED BY <1>2

\* The maximum of a bounded set of numbers.
LEMMA MaxIs ==
  ASSUME NEW n \in Nat, NEW S \in SUBSET (0..n), S # {}
  PROVE  Max(S) \in S /\ \A y \in S : y <= Max(S)
<1> DEFINE T == {n - x : x \in S}
<1>1. \A x \in S : x \in Nat /\ x <= n /\ n - x \in Nat
  OBVIOUS
<1>2. T \in SUBSET Nat /\ T # {}
  BY <1>1
<1>3. PICK t \in T : \A u \in T : t <= u
  BY <1>2, LeastExists
<1>4. PICK x \in S : t = n - x
  BY <1>3
<1>5. ASSUME NEW y \in S PROVE x >= y
  <2>1. n - x <= n - y
    BY <1>3, <1>4
  <2> QED BY <1>1, <2>1
<1>6. PICK m : m = Max(S)
  OBVIOUS
<1>7. m \in S /\ \A y \in S : m >= y
  BY <1>4, <1>5, <1>6 DEF Max
<1>8. \A y \in S : y <= m
  BY <1>1, <1>7
<1> QED BY <1>6, <1>7, <1>8

LEMMA MaxOfBehind ==
  ASSUME NEW n \in Nat, NEW k \in 0..n, NEW S \in SUBSET (0..n), \A y \in S : y <= k
  PROVE  Max({k} \union S) = k
<1> DEFINE T == {k} \union S
<1>1. T \in SUBSET (0..n)
  OBVIOUS
<1>2. k \in T /\ k \in Nat /\ \A y \in T : y \in Nat /\ y <= k
  OBVIOUS
<1> HIDE DEF T
<1>3. PICK m : m = Max(T) /\ m \in T /\ \A y \in T : y <= m
  BY <1>1, <1>2, MaxIs
<1>4. m = k
  BY <1>2, <1>3
<1> QED BY <1>3, <1>4 DEF T

LEMMA MaxOfAny ==
  ASSUME NEW n \in Nat, NEW k \in 0..n, NEW S \in SUBSET (0..n)
  PROVE  LET m == Max({k} \union S)
         IN m \in 0..n /\ m \in {k} \union S /\ k <= m /\ \A y \in S : y <= m
<1> DEFINE T == {k} \union S
<1>1. T \in SUBSET (0..n) /\ k \in T /\ S \subseteq T
  OBVIOUS
<1> HIDE DEF T
<1>2. PICK m : m = Max(T) /\ m \in T /\ \A y \in T : y <= m
  BY <1>1, MaxIs
<1> QED BY <1>1, <1>2 DEF T

\* Finitely many numbers have a bound, and so have the second members of finitely
\* many pairs.
LEMMA ValuesAreBounded ==
  ASSUME NEW n \in Nat, NEW g \in [1..n -> Nat]
  PROVE  \E k \in Nat : \A i \in 1..n : g[i] <= k
<1> DEFINE Bounded(m) == \E k \in Nat : \A i \in 1..m : g[i] <= k
<1>2. Bounded(0)
  OBVIOUS
<1>3. ASSUME NEW m \in 1..n, Bounded(m - 1) PROVE Bounded(m)
  <2>1. PICK k \in Nat : \A i \in 1..(m - 1) : g[i] <= k
    BY <1>3
  <2>2. \A i \in 1..m : i = m \/ i \in 1..(m - 1)
    OBVIOUS
  <2>3. \A i \in 1..m : g[i] <= k + g[m]
    BY <2>1, <2>2
  <2> QED BY <2>1, <2>3
<1> HIDE DEF Bounded
<1> DEFINE S == {m \in 0..n : ~Bounded(m)}
<1>1. S \in SUBSET Nat /\ \A m \in 0..n : m \in S <=> ~Bounded(m)
  OBVIOUS
<1> HIDE DEF S
<1>4. ASSUME S # {} PROVE FALSE
  <2>1. PICK m \in S : \A l \in S : m <= l
    BY <1>1, <1>4, LeastExists
  <2>2. m \in 0..n /\ m # 0
    BY <1>1, <1>2, <2>1 DEF S
  <2>3. m - 1 \in 0..n /\ m - 1 \notin S /\ m \in 1..n
    BY <2>1, <2>2
  <2> QED BY <1>1, <1>3, <2>1, <2>2, <2>3
<1>5. Bounded(n)
  BY <1>1, <1>4
<1> QED BY <1>5 DEF Bounded

LEMMA PairsAreBounded ==
  ASSUME NEW P \in SUBSET (Nat \X Nat), IsFiniteSet(P)
  PROVE  \E k \in Nat : \A p \in P : p[2] <= k
<1>1. PICK n \in Nat : ExistsBijection(1..n, P)
  BY FS_CardinalityType
<1>2. PICK f \in [1..n -> P] : \A p \in P : \E i \in 1..n : f[i] = p
  BY <1>1 DEF ExistsBijection, Bijection, Surjection
<1>3. \A p \in P : p[2] \in Nat
  OBVIOUS
<1>4. PICK g \in [1..n -> Nat] : \A i \in 1..n : g[i] = f[i][2]
  <2>1. [i \in 1..n |-> f[i][2]] \in [1..n -> Nat]
    BY <1>3
  <2> QED BY <2>1
<1>5. PICK k \in Nat : \A i \in 1..n : g[i] <= k
  BY ValuesAreBounded
<1>6. ASSUME NEW p \in P PROVE p[2] <= k
  <2>1. PICK i \in 1..n : f[i] = p
    BY <1>2
  <2> QED BY <1>4, <1>5, <2>1
<1> QED BY <1>6

-----------------------------------------------------------------------------
(* What a notice says *)

\* Its window ends on a day.
LEMMA EndIsADay ==
  ASSUME NoticeAssumption, fileDay \in [Files -> Nat], NEW f \in Files
  PROVE  Notice(f).to \in Nat
<1>1. Notice(f).to = PeriodIn(f)[2]
  BY DEF Notice
<1>2. CASE Text[f].cancels \/ Text[f].periods = {}
  BY <1>1, <1>2 DEF PeriodIn
<1>3. CASE ~(Text[f].cancels \/ Text[f].periods = {})
  <2>1. PICK P : P = Text[f].periods
    OBVIOUS
  <2>2. P \in SUBSET (Nat \X Nat) /\ IsFiniteSet(P) /\ P # {}
    BY <1>3, <2>1 DEF NoticeAssumption
  <2>3. PICK k \in Nat : \A p \in P : p[2] <= k
    BY <2>2, PairsAreBounded
  <2> DEFINE S == {p[2] : p \in P}
  <2>4. S \in SUBSET (0..k) /\ S # {}
    BY <2>2, <2>3
  <2>5. Max(S) \in S
    BY <2>4, MaxIs
  <2>6. PeriodIn(f)[2] = Max(S)
    BY <1>3, <2>1 DEF PeriodIn
  <2> QED BY <1>1, <2>4, <2>5, <2>6
<1> QED BY <1>2, <1>3

\* Nothing has withdrawn a notice that is read but its own text.
LEMMA NoticeIs ==
  ASSUME NoticeAssumption, NEW f \in Files
  PROVE  IsKeptOf(Notice(f), f) /\ Notice(f).id = f /\ Notice(f).isCancelled = Text[f].cancels
<1>1. Text[f].cancels \in BOOLEAN
  BY DEF NoticeAssumption
<1>2. /\ Notice(f).id = f /\ Notice(f).isCancelled = Text[f].cancels
      /\ Notice(f).supersededBy = 0
  BY DEF Notice
<1>3. DOMAIN Notice(f) = NoticeFields
  BY DEF Notice, NoticeFields
<1> QED BY <1>1, <1>2, <1>3 DEF IsKeptOf

-----------------------------------------------------------------------------
(* What is added to the store, pruned from it and carried over *)

LEMMA FilesAre ==
  ASSUME NoticeAssumption
  PROVE  Cardinality(Files) \in Nat /\ Files = 1..Cardinality(Files)
BY FS_CardinalityType DEF NoticeAssumption

\* A withdrawal changes nothing else of a notice, and no later one undoes it.
LEMMA WithdrawnIs ==
  ASSUME NoticeAssumption, NEW f \in Files, NEW n, IsKeptOf(n, f),
         NEW S \in SUBSET (1..Cardinality(Files))
  PROVE  LET by == {Notice(g) : g \in S}
             w == Withdrawn(n, by)
         IN /\ IsKeptOf(w, f)
            /\ ~Active(n) => ~Active(w)
            /\ \A c \in by : /\ c.region = n.region
                             /\ CancelsByName(c, n) \/ CancelsByDate(c, n) \/ Supersedes(c, n)
                             => ~Active(w)
<1> DEFINE by == {Notice(g) : g \in S}
           w == Withdrawn(n, by)
           near == {c \in by : c.region = n.region}
           updates == {c \in near : Supersedes(c, n)}
           gone == n.isCancelled \/ \E c \in near : CancelsByName(c, n) \/ CancelsByDate(c, n)
           last == IF updates = {} THEN n.supersededBy ELSE Max({c.id : c \in updates})
<1>1. \A c \in by : c.id \in 1..Cardinality(Files)
  <2> SUFFICES ASSUME NEW g \in S PROVE Notice(g).id \in 1..Cardinality(Files)
    OBVIOUS
  <2>1. g \in Files /\ g \in 1..Cardinality(Files)
    BY FilesAre
  <2>2. Notice(g).id = g
    BY <2>1, NoticeIs, Zenon
  <2> QED BY <2>1, <2>2
<1>2. updates # {} => last \in 1..Cardinality(Files)
  <2> SUFFICES ASSUME updates # {} PROVE last \in 1..Cardinality(Files)
    OBVIOUS
  <2> DEFINE T == {c.id : c \in updates}
  <2>a. updates \subseteq by
    OBVIOUS
  <2>b. T \subseteq 1..Cardinality(Files)
    <3> HIDE DEF by, updates
    <3> QED BY <1>1, <2>a
  <2>c. T # {}
    <3> HIDE DEF updates
    <3> QED OBVIOUS
  <2>1. T \in SUBSET (0..Cardinality(Files)) /\ T # {} /\ T \subseteq 1..Cardinality(Files)
    <3> HIDE DEF T
    <3> QED BY <2>b, <2>c, FilesAre
  <2> HIDE DEF T
  <2>2. Max(T) \in 1..Cardinality(Files)
    BY <2>1, MaxIs, FilesAre
  <2> QED BY <2>2 DEF T
<1>3. w = [n EXCEPT !.isCancelled = gone, !.supersededBy = last]
  BY DEF Withdrawn
<1>4. n.isCancelled \in BOOLEAN /\ gone \in BOOLEAN /\ (n.isCancelled => gone)
  BY DEF IsKeptOf
<1>5. last \in Nat /\ (n.supersededBy # 0 => last # 0) /\ (updates # {} => last # 0)
  <2>1. CASE updates = {}
    BY <2>1 DEF IsKeptOf
  <2>2. CASE updates # {}
    <3> HIDE DEF last, updates
    <3> QED BY <1>2, <2>2
  <2> QED BY <2>1, <2>2
<1>6. ASSUME NEW c \in by, c.region = n.region,
             CancelsByName(c, n) \/ CancelsByDate(c, n) \/ Supersedes(c, n)
      PROVE  gone \/ updates # {}
  BY <1>6
<1> HIDE DEF w, gone, last, updates, near, by
<1>7. /\ DOMAIN w = DOMAIN n /\ w.isCancelled = gone /\ w.supersededBy = last
      /\ \A k \in NoticeFields \ {"isCancelled", "supersededBy"} : w[k] = n[k]
  BY <1>3 DEF IsKeptOf, NoticeFields
<1>8. IsKeptOf(w, f)
  BY <1>4, <1>5, <1>7 DEF IsKeptOf, NoticeFields
<1>9. Active(w) <=> ~gone /\ last = 0
  BY <1>4, <1>7 DEF Active
<1>10. ~Active(n) => ~Active(w)
  BY <1>4, <1>5, <1>9 DEF Active
<1>11. \A c \in by : /\ c.region = n.region
                     /\ CancelsByName(c, n) \/ CancelsByDate(c, n) \/ Supersedes(c, n)
                     => ~Active(w)
  BY <1>4, <1>5, <1>6, <1>9
<1> QED BY <1>8, <1>10, <1>11 DEF w, by

\* Whether one notice retires another is said by their files.
LEMMA RetiresByText ==
  ASSUME NEW n, NEW f, IsKeptOf(n, f), NEW c
  PROVE  Retires(c, n) <=> Retires(c, Notice(f))
<1>1. Notice(f).id = f
  BY DEF Notice
<1> QED BY <1>1 DEF IsKeptOf, Retires, CancelsByName, CancelsByDate, Supersedes

\* Only newer notices are added, all of them, and they withdraw what they say.
LEMMA AddedIs ==
  ASSUME NoticeAssumption, ListingOK, NEW s, StoreOK(s),
         NEW S \in SUBSET (1..published), \A f \in S : f <= s.cursor,
         \A n \in s.notices : \A f \in S : n.id < f
  PROVE  LET t == AddNotices(s, S)
         IN /\ StoreOK(t) /\ t.cursor = s.cursor
            /\ \A n \in s.notices : \E m \in t.notices : m.id = n.id
            /\ \A f \in S : \E m \in t.notices : m.id = f
<1> DEFINE new == {Notice(f) : f \in S}
           later(n) == {Notice(f) : f \in {g \in S : g > n.id}}
           t == AddNotices(s, S)
<1>1. /\ Files = 1..Cardinality(Files) /\ Cardinality(Files) \in Nat
      /\ published \in Nat /\ 1..published \subseteq Files
      /\ s.cursor \in Nat /\ s.cursor <= published
  BY FilesAre DEF ListingOK, StoreOK
<1>2. \A f \in S : f \in Files /\ Notice(f).id = f /\ IsKeptOf(Notice(f), f)
  BY <1>1, NoticeIs
<1>3. \A n \in s.notices : n.id \in 1..s.cursor /\ n.id \in Files /\ IsKeptOf(n, n.id)
  BY <1>1 DEF StoreOK
<1>4. {n \in s.notices : ~ \E c \in new : c.id = n.id /\ c.region = n.region} = s.notices
  <2>1. \A n \in s.notices : \A f \in S : Notice(f).id # n.id
    BY <1>1, <1>2, <1>3
  <2> QED BY <2>1
<1>5. \A n \in new : {c \in new : c.id > n.id} = later(n)
  BY <1>2
<1>6. Max({s.cursor} \union S) = s.cursor
  <2>1. S \in SUBSET (0..published) /\ s.cursor \in 0..published
    BY <1>1
  <2> QED BY <1>1, <2>1, MaxOfBehind
<1>7. t = [cursor |-> s.cursor,
           notices |-> {Withdrawn(n, new) : n \in s.notices}
                       \union {Withdrawn(n, later(n)) : n \in new}]
  <2>1. {Withdrawn(n, {c \in new : c.id > n.id}) : n \in new} = {Withdrawn(n, later(n)) : n \in new}
    BY <1>5
  <2> QED BY <1>4, <1>6, <2>1 DEF AddNotices
<1> HIDE DEF t
<1>8. ASSUME NEW n \in s.notices
      PROVE  /\ Withdrawn(n, new).id = n.id /\ IsKeptOf(Withdrawn(n, new), n.id)
             /\ ~Active(n) => ~Active(Withdrawn(n, new))
             /\ \A f \in S : Retires(Notice(f), n) => ~Active(Withdrawn(n, new))
  <2>1. S \in SUBSET (1..Cardinality(Files))
    BY <1>1
  <2>2. /\ IsKeptOf(Withdrawn(n, new), n.id)
        /\ ~Active(n) => ~Active(Withdrawn(n, new))
        /\ \A c \in new : /\ c.region = n.region
                          /\ CancelsByName(c, n) \/ CancelsByDate(c, n) \/ Supersedes(c, n)
                          => ~Active(Withdrawn(n, new))
    BY <1>1, <1>3, <2>1, WithdrawnIs
  <2> QED BY <2>2 DEF Retires, IsKeptOf
<1>9. ASSUME NEW f \in S
      PROVE  LET w == Withdrawn(Notice(f), later(Notice(f)))
             IN /\ w.id = f /\ IsKeptOf(w, f)
                /\ \A g \in S : Retires(Notice(g), Notice(f)) => ~Active(w)
  <2> DEFINE R == {g \in S : g > Notice(f).id}
             w == Withdrawn(Notice(f), {Notice(g) : g \in R})
  <2>1. R \in SUBSET (1..Cardinality(Files))
    BY <1>1
  <2>2. /\ IsKeptOf(w, f)
        /\ \A c \in {Notice(g) : g \in R} :
             /\ c.region = Notice(f).region
             /\ \/ CancelsByName(c, Notice(f)) \/ CancelsByDate(c, Notice(f))
                \/ Supersedes(c, Notice(f))
             => ~Active(w)
    <3> HIDE DEF R
    <3> QED BY <1>1, <1>2, <2>1, WithdrawnIs
  <2>3. \A g \in S : Retires(Notice(g), Notice(f)) => g \in R
    BY <1>2 DEF Retires
  <2> QED BY <2>2, <2>3 DEF Retires, IsKeptOf
<1>10. \A m \in t.notices :
         \/ \E n \in s.notices : m = Withdrawn(n, new)
         \/ \E f \in S : m = Withdrawn(Notice(f), later(Notice(f)))
  BY <1>7
<1>11. \A n \in s.notices : Withdrawn(n, new) \in t.notices
  BY <1>7
<1>12. \A f \in S : Withdrawn(Notice(f), later(Notice(f))) \in t.notices
  BY <1>7
<1>13. ASSUME NEW m \in t.notices PROVE m.id \in 1..s.cursor /\ IsKeptOf(m, m.id)
  <2>1. CASE \E n \in s.notices : m = Withdrawn(n, new)
    <3>1. PICK n \in s.notices : m = Withdrawn(n, new)
      BY <2>1
    <3> HIDE DEF new
    <3> QED BY <1>3, <1>8, <3>1
  <2>2. CASE \E f \in S : m = Withdrawn(Notice(f), later(Notice(f)))
    <3>1. PICK f \in S : m = Withdrawn(Notice(f), later(Notice(f)))
      BY <2>2
    <3>2. m.id = f /\ IsKeptOf(m, f)
      BY <1>9, <3>1
    <3> QED BY <1>1, <3>2
  <2> QED BY <1>10, <2>1, <2>2
<1>14. ASSUME NEW c \in t.notices, NEW m \in t.notices, Retires(Notice(c.id), Notice(m.id))
       PROVE  ~Active(m)
  <2>1. CASE \E f \in S : m = Withdrawn(Notice(f), later(Notice(f)))
    <3>1. PICK f \in S : m = Withdrawn(Notice(f), later(Notice(f))) /\ m.id = f
      BY <1>9, <2>1
    <3>2. c.id > f
      BY <1>14, <3>1 DEF Retires, Notice
    <3>3. c.id \in S
      <4>1. ASSUME NEW n \in s.notices, c = Withdrawn(n, new) PROVE FALSE
        <5>1. c.id = n.id /\ n.id < f /\ n.id \in Nat /\ f \in Nat
          BY <1>1, <1>3, <1>8, <4>1
        <5> QED BY <3>2, <5>1
      <4>2. PICK g \in S : c = Withdrawn(Notice(g), later(Notice(g)))
        BY <1>10, <4>1
      <4> QED BY <1>9, <4>2
    <3> QED BY <1>9, <1>14, <3>1, <3>3
  <2>2. CASE \E n \in s.notices : m = Withdrawn(n, new)
    <3>1. PICK n \in s.notices : m = Withdrawn(n, new) /\ m.id = n.id
      BY <1>8, <2>2
    <3>2. CASE c.id \in S
      <4>1. Retires(Notice(c.id), n)
        BY <1>3, <1>14, <3>1, RetiresByText
      <4> QED BY <1>8, <3>1, <3>2, <4>1
    <3>3. CASE \E b \in s.notices : b.id = c.id
      <4>1. ~Active(n)
        BY <1>14, <3>1, <3>3 DEF StoreOK
      <4> QED BY <1>8, <3>1, <4>1
    <3>4. CASE \E b \in s.notices : c = Withdrawn(b, new)
      <4>1. PICK b \in s.notices : c = Withdrawn(b, new)
        BY <3>4
      <4>2. b.id = c.id
        BY <1>8, <4>1
      <4> QED BY <3>3, <4>2
    <3>5. CASE \E g \in S : c = Withdrawn(Notice(g), later(Notice(g)))
      <4>1. PICK g \in S : c = Withdrawn(Notice(g), later(Notice(g)))
        BY <3>5
      <4>2. c.id = g
        BY <1>9, <4>1
      <4> QED BY <3>2, <4>2
    <3> QED BY <1>10, <3>4, <3>5
  <2> QED BY <1>10, <2>1, <2>2
<1>15. StoreOK(t) /\ t.cursor = s.cursor
  <2>1. DOMAIN t = {"cursor", "notices"} /\ t.cursor = s.cursor
    BY <1>7
  <2> QED BY <1>1, <1>13, <1>14, <2>1 DEF StoreOK
<1> QED BY <1>8, <1>9, <1>11, <1>12, <1>15 DEF t

\* What is pruned is older than the retention.
LEMMA PrunedIs ==
  ASSUME NoticeAssumption, ListingOK, NEW s, StoreOK(s)
  PROVE  /\ StoreOK(PrunedStore(s)) /\ PrunedStore(s).cursor = s.cursor
         /\ \A n \in s.notices : \/ \E m \in PrunedStore(s).notices : m.id = n.id
                                 \/ Notice(n.id).to < day - Retention
<1>1. /\ DOMAIN PrunedStore(s) = {"cursor", "notices"} /\ PrunedStore(s).cursor = s.cursor
      /\ PrunedStore(s).notices = {n \in s.notices : n.to >= day - Retention}
  BY DEF StoreOK, PrunedStore
<1>2. StoreOK(PrunedStore(s))
  BY <1>1 DEF StoreOK
<1>3. ASSUME NEW n \in s.notices PROVE n.to = Notice(n.id).to /\ n.to \in Nat
  <2>1. n.id \in Files /\ fileDay \in [Files -> Nat] /\ IsKeptOf(n, n.id)
    BY FilesAre DEF StoreOK, ListingOK
  <2> QED BY <2>1, EndIsADay DEF IsKeptOf
<1>4. day \in Nat /\ Retention \in Nat
  BY DEF ListingOK, NoticeAssumption
<1> QED BY <1>1, <1>2, <1>3, <1>4

\* The store's cursor goes on; nothing of a copy depends on the poll.
LEMMA AdvancedIs ==
  ASSUME NoticeAssumption, ListingOK, NEW s, StoreOK(s), NEW k \in 0..published, s.cursor <= k
  PROVE  LET t == [s EXCEPT !.cursor = k]
         IN StoreOK(t) /\ t.cursor = k /\ t.notices = s.notices
<1> DEFINE t == [s EXCEPT !.cursor = k]
<1>1. DOMAIN t = {"cursor", "notices"} /\ t.cursor = k /\ t.notices = s.notices
  BY DEF StoreOK
<1>2. s.cursor \in Nat /\ k \in Nat
  BY FilesAre DEF StoreOK, ListingOK
<1>3. 1..s.cursor \subseteq 1..k
  BY <1>2
<1> HIDE DEF t
<1>4. StoreOK(t)
  BY <1>1, <1>3 DEF StoreOK
<1> QED BY <1>1, <1>4 DEF t

LEMMA SameListing ==
  ASSUME UNCHANGED nemweb
  PROVE  /\ ListingOK <=> ListingOK'
         /\ \A f : Notice(f) = Notice(f)'
         /\ \A s : StoreOK(s) <=> StoreOK(s)'
         /\ parsed' \subseteq parsed => \A s : NothingLost(s) => NothingLost(s)'
<1>1. \A f : Notice(f) = Notice(f)'
  <2>1. \A f : PeriodIn(f) = PeriodIn(f)'
    BY DEF nemweb, PeriodIn
  <2> QED BY <2>1 DEF Notice
<1>2. \A n, f : IsKeptOf(n, f) <=> IsKeptOf(n, f)'
  BY <1>1 DEF IsKeptOf
<1>3. \A c, n : Retires(c, n) <=> Retires(c, n)'
  BY DEF Retires, CancelsByName, CancelsByDate, Supersedes
<1>4. \A s : StoreOK(s) <=> StoreOK(s)'
  BY <1>1, <1>2, <1>3 DEF nemweb, StoreOK, Active
<1>5. parsed' \subseteq parsed => \A s : NothingLost(s) => NothingLost(s)'
  BY <1>1 DEF nemweb, NothingLost
<1>6. ListingOK <=> ListingOK'
  BY DEF nemweb, ListingOK
<1> QED BY <1>1, <1>4, <1>5, <1>6

\* Nothing of the stores has changed.
LEMMA SameStores ==
  ASSUME StoresOK, UNCHANGED <<nemweb, store, disk, saving>>, parsed' \subseteq parsed
  PROVE  StoresOK'
<1>1. ASSUME NEW s \in {store, saving, disk.data}
      PROVE  StoreOK(s)' /\ NothingLost(s)' /\ s.cursor <= store.cursor
  BY SameListing DEF StoresOK
<1> QED BY <1>1 DEF StoresOK

-----------------------------------------------------------------------------
(* What a listing leaves to fetch *)

\* The oldest that are wanted are fetched, up to the cap; the cursor passes the
\* stale files before them, and nothing else.
LEMMA PassedIs ==
  ASSUME NoticeAssumption, ListingOK, CursorOK
  PROVE  LET k == Max({cursor} \union Passable)
         IN /\ k \in 0..published /\ cursor <= k
            /\ Passable \subseteq Files /\ 1..k \subseteq examined \union Passable
            /\ Candidates \subseteq 1..published /\ Cardinality(Candidates) <= Cap
            /\ \A b \in Candidates : b > k /\ 1..b \subseteq (examined \union Passable) \union Candidates
<1> DEFINE wanted == {f \in Unseen : ~Stale(f)}
           before(b) == {g \in wanted : g < b}
<1>1. /\ published \in Nat /\ cursor \in Nat /\ cursor <= published
      /\ 1..published \subseteq Files /\ Cap \in Nat \ {0}
  BY FilesAre DEF ListingOK, CursorOK, NoticeAssumption
<1>2. Unseen = {f \in 1..published : f > cursor} /\ Unseen \subseteq 1..published
  BY DEF Unseen
<1>3. wanted \subseteq 1..published /\ Candidates \subseteq wanted /\ Passable \subseteq Unseen
  BY <1>2 DEF Candidates, Passable
<1>4. \A b \in wanted : IsFiniteSet(before(b)) /\ Cardinality(before(b)) \in Nat
  <2>1. IsFiniteSet(1..published)
    BY <1>1, FS_Interval
  <2>2. \A b : before(b) \in SUBSET (1..published)
    BY <1>3
  <2> QED BY <2>1, <2>2, FS_Subset, FS_CardinalityType
<1>5. Candidates = {b \in wanted : Cardinality(before(b)) < Cap}
  BY DEF Candidates
<1>6. \A f \in wanted : \E b \in Candidates : b <= f
  <2> SUFFICES ASSUME NEW f \in wanted PROVE \E b \in Candidates : b <= f
    OBVIOUS
  <2>1. wanted \in SUBSET Nat
    BY <1>1, <1>3
  <2>2. PICK b \in wanted : \A g \in wanted : b <= g
    BY <2>1, LeastExists
  <2>3. before(b) = {}
    BY <2>1, <2>2
  <2>4. Cardinality(before(b)) = 0
    BY <2>3, FS_EmptySet
  <2> QED BY <1>1, <1>5, <2>2, <2>4
<1>7. \A b \in Candidates : \A f \in wanted : f <= b => f \in Candidates
  <2> SUFFICES ASSUME NEW b \in Candidates, NEW f \in wanted, f <= b PROVE f \in Candidates
    OBVIOUS
  <2>1. before(f) \in SUBSET before(b)
    BY <1>1, <1>3
  <2>2. Cardinality(before(f)) <= Cardinality(before(b))
    BY <1>3, <1>4, <2>1, FS_Subset
  <2>3. Cardinality(before(f)) \in Nat /\ Cardinality(before(b)) \in Nat /\ Cardinality(before(b)) < Cap
    BY <1>3, <1>4, <1>5
  <2> QED BY <1>1, <1>5, <2>2, <2>3
<1>8. Cardinality(Candidates) <= Cap
  <2>1. CASE Candidates = {}
    BY <1>1, <2>1, FS_EmptySet
  <2>2. CASE Candidates # {}
    <3>1. Candidates \in SUBSET (0..published)
      BY <1>1, <1>3
    <3>2. PICK m \in Candidates : \A b \in Candidates : b <= m
      BY <1>1, <2>2, <3>1, MaxIs
    <3>3. Candidates \ {m} \in SUBSET before(m)
      BY <1>3, <3>1, <3>2
    <3>4. IsFiniteSet(Candidates)
      <4>1. IsFiniteSet(1..published)
        BY <1>1, FS_Interval
      <4>2. Candidates \in SUBSET (1..published)
        BY <1>3
      <4> QED BY <4>1, <4>2, FS_Subset
    <3>5. Cardinality(Candidates \ {m}) = Cardinality(Candidates) - 1 /\ Cardinality(Candidates) \in Nat
      BY <3>2, <3>4, FS_RemoveElement, FS_CardinalityType
    <3>6. Cardinality(Candidates \ {m}) <= Cardinality(before(m))
      BY <1>3, <1>4, <3>2, <3>3, FS_Subset
    <3>7. Cardinality(before(m)) \in Nat /\ Cardinality(before(m)) < Cap
      BY <1>3, <1>4, <1>5, <3>2
    <3> QED BY <1>1, <3>5, <3>6, <3>7
  <2> QED BY <2>1, <2>2
<1>9. cursor \in 0..published /\ Passable \in SUBSET (0..published)
  BY <1>1, <1>2, <1>3
<1>10. PICK k \in 0..published : /\ k = Max({cursor} \union Passable) /\ cursor <= k
                                  /\ k \in {cursor} \union Passable /\ \A p \in Passable : p <= k
  <2>1. LET m == Max({cursor} \union Passable)
        IN m \in 0..published /\ m \in {cursor} \union Passable /\ cursor <= m /\ \A y \in Passable : y <= m
    BY <1>1, <1>9, MaxOfAny
  <2> QED BY <2>1
<1> HIDE DEF before
<1>11. \A p \in Passable : Stale(p) /\ \A g \in Candidates : p < g
  BY DEF Passable
<1>12. \A b \in Candidates : b > k
  BY <1>1, <1>2, <1>3, <1>10, <1>11
<1>13. \A f \in Unseen : Stale(f) /\ (\A g \in Candidates : f < g) => f \in Passable
  BY DEF Passable
<1>14. 1..k \subseteq examined \union Passable
  <2> SUFFICES ASSUME NEW f \in 1..k, f > cursor PROVE f \in Passable
    BY <1>1 DEF CursorOK
  <2>1. f \in Unseen /\ k \in Passable
    BY <1>1, <1>2, <1>10
  <2>2. \A g \in Candidates : f < g
    BY <1>1, <1>3, <1>12
  <2>3. Stale(f)
    <3> SUFFICES ASSUME ~Stale(f) PROVE FALSE
      OBVIOUS
    <3>1. f \in wanted
      BY <2>1
    <3>2. PICK b \in Candidates : b <= f
      BY <1>6, <3>1
    <3>3. b \in Nat /\ f \in Nat
      BY <1>1, <1>3, <3>2
    <3> QED BY <2>2, <3>2, <3>3
  <2> QED BY <1>13, <2>1, <2>2, <2>3
<1>15. \A b \in Candidates : 1..b \subseteq (examined \union Passable) \union Candidates
  <2> SUFFICES ASSUME NEW b \in Candidates, NEW f \in 1..b, f > cursor, f \notin Candidates
               PROVE  f \in Passable
    BY <1>1, <1>3 DEF CursorOK
  <2>1. b \in 1..published /\ f \in Unseen /\ f \in Nat
    BY <1>1, <1>2, <1>3
  <2>2. Stale(f)
    BY <1>7, <2>1
  <2>3. ASSUME NEW g \in Candidates PROVE f < g
    <3>1. g \in 1..published /\ f \in 1..published /\ ~Stale(g)
      BY <1>2, <1>3, <2>1
    <3>2. g <= f => fileDay[g] <= fileDay[f]
      BY <3>1 DEF ListingOK
    <3>3. fileDay[f] \in Nat /\ fileDay[g] \in Nat /\ day \in Nat /\ CurrentDays \in Nat
      BY <1>1, <3>1 DEF ListingOK, NoticeAssumption
    <3>4. fileDay[f] < day - CurrentDays /\ ~(fileDay[g] < day - CurrentDays)
      BY <2>2, <3>1 DEF Stale
    <3> QED BY <2>1, <3>1, <3>2, <3>3, <3>4
  <2> QED BY <1>13, <2>1, <2>2, <2>3
<1>16. Passable \subseteq Files /\ Candidates \subseteq 1..published
  BY <1>1, <1>2, <1>3
<1> QED BY <1>8, <1>9, <1>10, <1>12, <1>14, <1>15, <1>16

-----------------------------------------------------------------------------
(* The steps *)

\* One coordinator is past the lock at a time.
LEMMA OnePolls ==
  ASSUME PollInv, NEW r \in Regions, pc[r] \in Polling
  PROVE  \A q \in Regions : pc[q] \in Polling => q = r
BY DEF PollInv, HolderPolls

\* The poll concludes with the cursor at k, not behind the store's.
LEMMA ConcludeStands ==
  ASSUME NoticeAssumption, FeedInv, UNCHANGED <<nemweb, disk, parsed>>,
         NEW r \in Regions, pc[r] = "list", NEW by \in {"answer", "silence"},
         NEW k \in 0..published, store.cursor <= k, cursor' = k, Conclude(r, by, k),
         examined \subseteq examined', examined' \subseteq Files, 1..k \subseteq examined'
  PROVE  StoresOK' /\ CursorOK' /\ PollAhead'
<1> DEFINE passed == [store EXCEPT !.cursor = k]
<1>1. ListingOK /\ StoreOK(store) /\ NothingLost(store)
  BY DEF FeedInv, StoresOK
<1>2. /\ published \in Nat /\ store.cursor \in 0..published /\ published' = published
      /\ saving.cursor \in 0..published /\ disk.data.cursor \in 0..published
      /\ saving.cursor <= store.cursor /\ disk.data.cursor <= store.cursor
  BY FilesAre DEF FeedInv, ListingOK, StoresOK, StoreOK, nemweb
<1>3. pc \in [Regions -> {"out", "lock"} \union Polling] /\ \A q \in Regions : pc[q] \in Polling => q = r
  BY OnePolls DEF FeedInv, PollInv, HolderPolls, Polling
<1>4. marked' = by
  BY DEF Conclude
<1>5. CASE k > store.cursor
  <2>1. /\ store' = PrunedStore(passed) /\ saving' = store'
        /\ pc' = [pc EXCEPT ![r] = "save"] /\ UNCHANGED batch
    BY <1>5 DEF Conclude
  <2>2. StoreOK(passed) /\ passed.cursor = k /\ passed.notices = store.notices
    BY <1>1, AdvancedIs
  <2> HIDE DEF passed
  <2>3. PICK s : s = PrunedStore(passed)
    OBVIOUS
  <2>4. StoreOK(s) /\ s.cursor = k /\ \A n \in store.notices :
          (\E m \in s.notices : m.id = n.id) \/ Notice(n.id).to < day - Retention
    BY <1>1, <2>2, <2>3, PrunedIs
  <2>5. NothingLost(s)
    <3> SUFFICES ASSUME NEW f \in parsed, ~ \E m \in s.notices : m.id = f
                 PROVE  Notice(f).to < day - Retention
      BY DEF NothingLost
    <3>1. f <= store.cursor
      BY <1>2 DEF FeedInv, CursorOK
    <3>2. (\E n \in store.notices : n.id = f) \/ Notice(f).to < day - Retention
      BY <1>1, <3>1 DEF NothingLost
    <3> QED BY <2>4, <3>2
  <2>6. StoreOK(s)' /\ NothingLost(s)'
    BY <2>4, <2>5, SameListing
  <2>7. store' = s /\ saving' = s /\ disk' = disk
    BY <2>1, <2>3
  <2>8. StoreOK(disk.data)' /\ NothingLost(disk.data)'
    <3>1. StoreOK(disk.data) /\ NothingLost(disk.data)
      BY DEF FeedInv, StoresOK
    <3>2. PICK d : d = disk.data
      OBVIOUS
    <3>3. StoreOK(d)' /\ NothingLost(d)'
      BY <3>1, <3>2, SameListing
    <3> QED BY <2>7, <3>2, <3>3
  <2>9. StoresOK'
    <3>1. \A c \in {store', saving', disk'.data} : StoreOK(c)' /\ NothingLost(c)'
      BY <2>6, <2>7, <2>8
    <3>2. s.cursor = k /\ disk'.data.cursor <= k
      BY <1>2, <2>4, <2>7
    <3>3. \A c \in {store', saving', disk'.data} : c.cursor <= store'.cursor
      BY <1>2, <2>7, <3>2
    <3> QED BY <2>7, <3>1, <3>3 DEF FeedInv, StoresOK
  <2>10. CursorOK'
    BY <1>2, <1>4, <2>1, <2>4, <2>7 DEF FeedInv, CursorOK
  <2>11. PollAhead'
    BY <1>3, <2>1 DEF PollAhead, Polling
  <2> QED BY <2>9, <2>10, <2>11
<1>6. CASE ~(k > store.cursor)
  <2>1. UNCHANGED <<store, saving>> /\ pc' = [pc EXCEPT ![r] = "out"] /\ batch' = {}
    BY <1>6 DEF Conclude, EndPoll
  <2>2. StoresOK'
    BY <2>1, SameStores DEF FeedInv
  <2>3. CursorOK'
    BY <1>2, <1>4, <1>6, <2>1, FS_EmptySet DEF FeedInv, CursorOK, NoticeAssumption
  <2>4. PollAhead'
    BY <1>3, <2>1 DEF PollAhead, Polling
  <2> QED BY <2>2, <2>3, <2>4
<1> QED BY <1>5, <1>6

\* NEMWEB lists one more file, of today: what was said stays said.
LEMMA PublishStands ==
  ASSUME NoticeAssumption, FeedInv, PublishNotice
  PROVE  ListingOK' /\ StoresOK' /\ CursorOK' /\ PollAhead'
<1>1. /\ published' = published + 1 /\ published + 1 \in Files /\ day' = day
      /\ fileDay' = [fileDay EXCEPT ![published + 1] = day]
      /\ UNCHANGED <<pc, batch, cursor, store, disk, saving, marked, examined, parsed>>
  BY DEF PublishNotice, feedHistory
<1>2. /\ published \in Nat /\ day \in Nat /\ fileDay \in [Files -> Nat]
      /\ published + 1 \in 1..Cardinality(Files) /\ 1..published \subseteq Files
  BY <1>1, FilesAre DEF FeedInv, ListingOK
<1>3. ListingOK'
  <2>1. fileDay' \in [Files -> Nat] /\ fileDay'[published + 1] = day
    BY <1>1, <1>2
  <2>2. \A f \in 1..published : fileDay'[f] = fileDay[f]
    BY <1>1, <1>2
  <2>3. \A f \in 1..(published + 1) : f = published + 1 \/ f \in 1..published
    BY <1>2
  <2>4. \A f \in 1..(published + 1) : fileDay'[f] <= day
    BY <1>2, <2>1, <2>2, <2>3 DEF FeedInv, ListingOK
  <2>5. ASSUME NEW f \in 1..(published + 1), NEW g \in 1..(published + 1), f <= g
        PROVE  fileDay'[f] <= fileDay'[g]
    <3>1. CASE g = published + 1
      BY <2>1, <2>4, <3>1
    <3>2. CASE g # published + 1
      <4>1. f \in 1..published /\ g \in 1..published
        BY <1>2, <2>5, <3>2
      <4> QED BY <2>2, <2>5, <4>1 DEF FeedInv, ListingOK
    <3> QED BY <3>1, <3>2
  <2> QED BY <1>1, <1>2, <2>1, <2>4, <2>5, FilesAre DEF ListingOK
<1>4. \A f \in 1..published : Notice(f)' = Notice(f)
  <2>1. \A f \in 1..published : fileDay'[f] = fileDay[f]
    BY <1>1, <1>2
  <2>2. \A f \in 1..published : PeriodIn(f)' = PeriodIn(f)
    BY <2>1 DEF PeriodIn
  <2> QED BY <2>2 DEF Notice
<1>5. ASSUME NEW s, StoreOK(s) PROVE StoreOK(s)'
  <2>1. s.cursor \in 0..published /\ 1..s.cursor \subseteq 1..published
    BY <1>2, <1>5 DEF StoreOK
  <2>2. s.cursor \in 0..published'
    BY <1>1, <1>2, <2>1
  <2>3. \A n \in s.notices : n.id \in 1..s.cursor /\ IsKeptOf(n, n.id)' /\ Notice(n.id)' = Notice(n.id)
    BY <1>4, <1>5, <2>1 DEF StoreOK, IsKeptOf
  <2>4. \A c, n \in s.notices : Retires(Notice(c.id)', Notice(n.id)') => ~Active(n)
    BY <1>5, <2>3 DEF StoreOK
  <2> QED BY <1>5, <2>2, <2>3, <2>4 DEF StoreOK, Retires, Active, CancelsByName, CancelsByDate, Supersedes
<1>6. ASSUME NEW s, StoreOK(s), NothingLost(s) PROVE NothingLost(s)'
  <2>1. \A f \in parsed : f \in 1..published
    BY <1>2 DEF FeedInv, CursorOK, StoresOK, StoreOK
  <2> QED BY <1>1, <1>4, <1>6, <2>1 DEF NothingLost
<1>7. StoresOK'
  <2>1. \A s \in {store, saving, disk.data} : StoreOK(s)' /\ NothingLost(s)'
    BY <1>5, <1>6 DEF FeedInv, StoresOK
  <2> QED BY <1>1, <2>1 DEF FeedInv, StoresOK
<1>8. CursorOK' /\ PollAhead'
  BY <1>1, <1>2 DEF FeedInv, CursorOK, PollAhead
<1> QED BY <1>3, <1>7, <1>8

\* Another day: what was pruned for its age is older still.
LEMMA DayStands ==
  ASSUME NoticeAssumption, FeedInv, NextDay
  PROVE  ListingOK' /\ StoresOK' /\ CursorOK' /\ PollAhead'
<1>1. /\ day' = day + 1
      /\ UNCHANGED <<published, fileDay, pc, batch, cursor, store, disk, saving, marked, examined, parsed>>
  BY DEF NextDay, feedHistory
<1>2. day \in Nat /\ Retention \in Nat /\ published \in Nat /\ fileDay \in [Files -> Nat]
  BY FilesAre DEF FeedInv, ListingOK, NoticeAssumption
<1>3. ListingOK'
  <2>1. \A f \in 1..published : f \in Files /\ fileDay[f] \in Nat /\ fileDay[f] <= day
    BY <1>2, FilesAre DEF FeedInv, ListingOK
  <2>2. \A f \in 1..published : fileDay[f] <= day + 1
    BY <1>2, <2>1
  <2> QED BY <1>1, <1>2, <2>2 DEF FeedInv, ListingOK
<1>4. \A f : Notice(f)' = Notice(f)
  <2>1. \A f : PeriodIn(f)' = PeriodIn(f)
    BY <1>1 DEF PeriodIn
  <2> QED BY <2>1 DEF Notice
<1>5. \A s : StoreOK(s) => StoreOK(s)'
  BY <1>1, <1>4 DEF StoreOK, IsKeptOf, Retires, Active, CancelsByName, CancelsByDate, Supersedes
<1>6. ASSUME NEW s, NothingLost(s) PROVE NothingLost(s)'
  <2>1. \A f \in parsed : Notice(f).to \in Nat
    BY <1>2, EndIsADay DEF FeedInv, CursorOK
  <2>2. \A f \in parsed : Notice(f).to < day - Retention => Notice(f).to < day + 1 - Retention
    BY <1>2, <2>1
  <2>3. \A f \in parsed : f <= s.cursor =>
          (\E n \in s.notices : n.id = f) \/ Notice(f).to < day + 1 - Retention
    BY <1>6, <2>2 DEF NothingLost
  <2>4. \A f \in parsed : Notice(f)' = Notice(f)
    BY <1>4
  <2> QED BY <1>1, <1>2, <2>1, <2>3, <2>4 DEF NothingLost
<1>7. StoresOK'
  <2>1. \A s \in {store, saving, disk.data} : StoreOK(s)' /\ NothingLost(s)'
    BY <1>5, <1>6 DEF FeedInv, StoresOK
  <2> QED BY <1>1, <2>1 DEF FeedInv, StoresOK
<1>8. CursorOK' /\ PollAhead'
  BY <1>1 DEF FeedInv, CursorOK, PollAhead
<1> QED BY <1>3, <1>7, <1>8

\* A batch is fetched, or nothing is left to fetch: the cursor passes the stale.
LEMMA ListingStands ==
  ASSUME NoticeAssumption, FeedInv, NEW r \in Regions,
         ListingFails(r) \/ NothingToFetch(r) \/ StartBatch(r)
  PROVE  StoresOK' /\ CursorOK' /\ PollAhead'
<1>1. ListingOK /\ CursorOK /\ pc[r] = "list" /\ store.cursor <= cursor
  BY DEF FeedInv, PollAhead, ListingFails, NothingToFetch, StartBatch
<1>2. PICK k \in 0..published :
        /\ k = Max({cursor} \union Passable) /\ cursor <= k
        /\ Passable \subseteq Files /\ 1..k \subseteq examined \union Passable
        /\ Candidates \subseteq 1..published /\ Cardinality(Candidates) <= Cap
        /\ \A b \in Candidates : b > k /\ 1..b \subseteq (examined \union Passable) \union Candidates
  BY <1>1, PassedIs
<1>3. /\ published \in Nat /\ cursor \in 0..published /\ store.cursor \in Nat /\ store.cursor <= k
      /\ cursor \in Nat /\ k \in Nat
  BY <1>1, <1>2, FilesAre DEF FeedInv, ListingOK, CursorOK, StoresOK, StoreOK
<1>4. CASE ListingFails(r)
  <2>1. UNCHANGED <<nemweb, disk, parsed, examined, cursor>> /\ Conclude(r, "silence", cursor)
    BY <1>4 DEF ListingFails
  <2>2. examined \subseteq Files /\ 1..cursor \subseteq examined
    BY <1>1 DEF CursorOK
  <2> QED BY <1>1, <1>3, <2>1, <2>2, ConcludeStands
<1>5. CASE NothingToFetch(r)
  <2>1. /\ UNCHANGED <<nemweb, disk, parsed>> /\ cursor' = k /\ examined' = examined \union Passable
        /\ Conclude(r, "answer", k)
    BY <1>2, <1>5 DEF NothingToFetch
  <2>2. examined' \subseteq Files /\ 1..k \subseteq examined'
    BY <1>1, <1>2, <2>1 DEF CursorOK
  <2> QED BY <1>1, <1>2, <1>3, <2>1, <2>2, ConcludeStands
<1>6. CASE StartBatch(r)
  <2>1. /\ UNCHANGED <<nemweb, store, disk, saving, marked, parsed>> /\ cursor' = k
        /\ examined' = examined \union Passable /\ batch' = Candidates
        /\ pc' = [pc EXCEPT ![r] = "fetch"]
    BY <1>2, <1>6 DEF StartBatch
  <2>2. StoresOK'
    BY <2>1, SameStores DEF FeedInv
  <2>3. published' = published /\ UNCHANGED <<store, disk, saving, marked, parsed>>
    BY <2>1 DEF nemweb
  <2>4. CursorOK'
    BY <1>1, <1>2, <1>3, <2>1, <2>3 DEF CursorOK
  <2>5. PollAhead'
    <3>1. pc \in [Regions -> {"out", "lock"} \union Polling] /\ \A q \in Regions : pc[q] \in Polling => q = r
      BY <1>1, OnePolls DEF FeedInv, PollInv, HolderPolls, Polling
    <3>2. \A q \in Regions : pc'[q] \in {"list", "fetch"} => q = r
      BY <2>1, <3>1 DEF Polling
    <3> QED BY <1>2, <1>3, <2>1, <2>3, <3>2 DEF PollAhead
  <2> QED BY <2>2, <2>4, <2>5
<1> QED BY <1>4, <1>5, <1>6

\* A batch is read: the store takes its notices and the cursor together.
LEMMA BatchStands ==
  ASSUME NoticeAssumption, FeedInv, NEW r \in Regions, NEW some \in SUBSET batch, FinishBatch(r, some)
  PROVE  StoresOK' /\ CursorOK' /\ PollAhead'
<1> DEFINE k == Max({cursor} \union batch)
           S == {f \in some : IsNotice(f)}
           passed == [store EXCEPT !.cursor = Max({@, k})]
<1>1. /\ cursor' = k /\ examined' = examined \union batch /\ parsed' = parsed \union S
      /\ marked' = "answer" /\ store' = PrunedStore(AddNotices(passed, S)) /\ saving' = store'
      /\ pc[r] = "fetch" /\ pc' = [pc EXCEPT ![r] = "save"]
      /\ UNCHANGED <<nemweb, batch, disk>> /\ published' = published
  BY DEF FinishBatch, nemweb
<1>2. /\ ListingOK /\ StoreOK(store) /\ NothingLost(store) /\ published \in Nat
      /\ 1..published \subseteq Files
  BY FilesAre DEF FeedInv, StoresOK, ListingOK
<1>3. /\ cursor \in 0..published /\ batch \subseteq 1..published /\ store.cursor \in 0..published
      /\ store.cursor <= cursor /\ (\A b \in batch : b > cursor)
  BY <1>1, <1>2 DEF FeedInv, CursorOK, PollAhead, StoreOK
<1>4. k \in 0..published /\ cursor <= k /\ k \in {cursor} \union batch /\ \A b \in batch : b <= k
  <2>1. batch \in SUBSET (0..published)
    BY <1>3
  <2> QED BY <1>2, <1>3, <2>1, MaxOfAny
<1>5. 1..k \subseteq examined \union batch
  BY <1>4 DEF FeedInv, CursorOK
<1> HIDE DEF k, S
<1>6. Max({store.cursor, k}) = k
  <2>1. {store.cursor} \in SUBSET (0..published) /\ store.cursor <= k
    BY <1>2, <1>3, <1>4
  <2>2. Max({k} \union {store.cursor}) = k
    BY <1>2, <1>4, <2>1, MaxOfBehind
  <2>3. {k} \union {store.cursor} = {store.cursor, k}
    OBVIOUS
  <2> QED BY <2>2, <2>3
<1>7. PICK s : s = [store EXCEPT !.cursor = k]
  OBVIOUS
<1>8. passed = s
  BY <1>6, <1>7
<1>9. StoreOK(s) /\ s.cursor = k /\ s.notices = store.notices
  <2>1. store.cursor <= k
    BY <1>2, <1>3, <1>4
  <2> QED BY <1>2, <1>4, <1>7, <2>1, AdvancedIs
<1> HIDE DEF passed
<1>10. S \in SUBSET (1..published) /\ S \subseteq batch
  BY <1>3 DEF S
<1>11. \A n \in store.notices : \A f \in S : n.id < f
  <2>1. \A n \in store.notices : n.id \in 1..store.cursor
    BY <1>2 DEF StoreOK
  <2> QED BY <1>2, <1>3, <1>10, <2>1
<1>12. PICK t : t = AddNotices(s, S)
  OBVIOUS
<1>13. /\ StoreOK(t) /\ t.cursor = k
       /\ \A n \in store.notices : \E m \in t.notices : m.id = n.id
       /\ \A f \in S : \E m \in t.notices : m.id = f
  <2>1. /\ \A f \in S : f <= s.cursor
        /\ \A n \in s.notices : \A f \in S : n.id < f
    BY <1>4, <1>9, <1>10, <1>11
  <2> QED BY <1>2, <1>9, <1>10, <1>12, <2>1, AddedIs
<1>14. PICK u : u = PrunedStore(t)
  OBVIOUS
<1>15. /\ StoreOK(u) /\ u.cursor = k
       /\ \A n \in t.notices : (\E m \in u.notices : m.id = n.id) \/ Notice(n.id).to < day - Retention
  BY <1>2, <1>13, <1>14, PrunedIs
<1>16. store' = u /\ saving' = u /\ disk' = disk
  BY <1>1, <1>8, <1>12, <1>14
<1>17. ASSUME NEW f \in parsed' PROVE (\E m \in u.notices : m.id = f) \/ Notice(f).to < day - Retention
  <2>1. CASE f \in S
    BY <1>13, <1>15, <2>1
  <2>2. CASE f \in parsed
    <3>1. f <= store.cursor
      BY <1>2, <1>3, <2>2 DEF FeedInv, CursorOK
    <3>2. (\E n \in store.notices : n.id = f) \/ Notice(f).to < day - Retention
      BY <1>2, <2>2, <3>1 DEF NothingLost
    <3> QED BY <1>13, <1>15, <3>2
  <2> QED BY <1>1, <2>1, <2>2
<1>18. /\ \A c : StoreOK(c) => StoreOK(c)'
       /\ (\A f : Notice(f)' = Notice(f)) /\ day' = day
  BY <1>1, SameListing DEF nemweb
<1>19. StoreOK(u)' /\ NothingLost(u)'
  BY <1>15, <1>17, <1>18 DEF NothingLost
<1>20. StoreOK(disk.data)' /\ NothingLost(disk.data)'
  <2>1. PICK d : d = disk.data
    OBVIOUS
  <2>2. StoreOK(d) /\ NothingLost(d) /\ d.cursor <= store.cursor /\ d.cursor \in Nat
    BY <1>2, <2>1 DEF FeedInv, StoresOK, StoreOK
  <2>3. \A f \in S : ~(f <= d.cursor)
    BY <1>2, <1>3, <1>10, <2>2
  <2>4. StoreOK(d)' /\ NothingLost(d)'
    BY <1>1, <1>18, <2>2, <2>3 DEF NothingLost
  <2> QED BY <1>16, <2>1, <2>4
<1>21. StoresOK'
  <2>1. \A c \in {store', saving', disk'.data} : StoreOK(c)' /\ NothingLost(c)'
    BY <1>16, <1>19, <1>20
  <2>2. disk'.data.cursor <= k
    BY <1>2, <1>3, <1>4, <1>16 DEF FeedInv, StoresOK, StoreOK
  <2>3. \A c \in {store', saving', disk'.data} : c.cursor <= store'.cursor
    BY <1>4, <1>15, <1>16, <2>2
  <2> QED BY <1>16, <2>1, <2>3 DEF FeedInv, StoresOK
<1>22. CursorOK'
  <2>1. parsed' \subseteq examined' /\ parsed' \subseteq 1..k
    BY <1>1, <1>2, <1>3, <1>4, <1>10 DEF FeedInv, CursorOK
  <2>2. examined' \subseteq Files /\ 1..k \subseteq examined'
    BY <1>1, <1>2, <1>3, <1>5 DEF FeedInv, CursorOK
  <2>3. \A b \in batch : 1..b \subseteq examined' \union batch
    BY <1>1 DEF FeedInv, CursorOK
  <2> QED BY <1>1, <1>3, <1>4, <1>15, <1>16, <2>1, <2>2, <2>3 DEF FeedInv, CursorOK
<1>23. PollAhead'
  <2>1. pc \in [Regions -> {"out", "lock"} \union Polling] /\ \A q \in Regions : pc[q] \in Polling => q = r
    BY <1>1, OnePolls DEF FeedInv, PollInv, HolderPolls, Polling
  <2> QED BY <1>1, <2>1 DEF PollAhead, Polling
<1> QED BY <1>21, <1>22, <1>23

\* A save ends, the task is cancelled, or the lock is asked for or taken.
LEMMA PollerStands ==
  ASSUME NoticeAssumption, FeedInv, NEW r \in Regions,
         AskNotices(r) \/ SharePoll(r) \/ BeginPoll(r) \/ StoreSaved(r) \/ Cancel(r)
  PROVE  StoresOK' /\ CursorOK' /\ PollAhead'
<1>1. /\ UNCHANGED <<nemweb, store, saving, marked, examined, parsed>> /\ published' = published
      /\ disk' = disk \/ disk' = [schema |-> 2, data |-> saving]
  BY DEF AskNotices, SharePoll, BeginPoll, StoreSaved, Cancel, nemweb, feedHistory
<1>2. StoresOK'
  <2>1. CASE disk' = disk
    BY <1>1, <2>1, SameStores DEF FeedInv
  <2>2. CASE disk' = [schema |-> 2, data |-> saving]
    <3>1. \A c \in {store, saving} : StoreOK(c)' /\ NothingLost(c)'
      BY <1>1, SameListing DEF FeedInv, StoresOK
    <3>2. DOMAIN disk' = {"schema", "data"} /\ disk'.schema = 2 /\ disk'.data = saving
      BY <2>2
    <3> QED BY <1>1, <3>1, <3>2 DEF FeedInv, StoresOK
  <2> QED BY <1>1, <2>1, <2>2
<1>3. batch' = batch \/ batch' = {}
  BY DEF AskNotices, SharePoll, BeginPoll, StoreSaved, Cancel, EndPoll
<1>4. cursor' = cursor \/ cursor' = store.cursor
  BY DEF AskNotices, SharePoll, BeginPoll, StoreSaved, Cancel
<1>5. CursorOK'
  <2>1. store.cursor \in 0..published
    BY DEF FeedInv, StoresOK, StoreOK
  <2>2. Cardinality(batch') <= Cap
    <3>1. Cardinality({}) = 0 /\ Cap \in Nat
      BY FS_EmptySet DEF NoticeAssumption
    <3>2. Cardinality(batch) <= Cap
      BY DEF FeedInv, CursorOK
    <3> QED BY <1>3, <3>1, <3>2
  <2>3. cursor' \in 0..published /\ 1..cursor' \subseteq examined
    BY <1>4, <2>1 DEF FeedInv, CursorOK
  <2>4. batch' \subseteq 1..published /\ \A b \in batch' : 1..b \subseteq examined \union batch'
    BY <1>3 DEF FeedInv, CursorOK
  <2> QED BY <1>1, <2>2, <2>3, <2>4 DEF FeedInv, CursorOK
<1>6. PollAhead'
  <2>1. pc \in [Regions -> {"out", "lock"} \union Polling]
    BY DEF FeedInv, PollInv, HolderPolls, Polling
  <2>2. CASE BeginPoll(r)
    <3>1. fetchLock = Unheld /\ cursor' = store.cursor /\ pc' = [pc EXCEPT ![r] = "list"]
      BY <2>2 DEF BeginPoll
    <3>2. \A q \in Regions : pc[q] \notin Polling
      BY <3>1 DEF FeedInv, PollInv, HolderPolls, NoticeAssumption
    <3>3. store.cursor \in Nat
      BY FilesAre DEF FeedInv, StoresOK, StoreOK, ListingOK
    <3> QED BY <1>1, <2>1, <3>1, <3>2, <3>3 DEF PollAhead, Polling
  <2>3. CASE AskNotices(r) \/ SharePoll(r)
    <3>1. cursor' = cursor /\ batch' = batch /\ \E at \in {"out", "lock"} : pc' = [pc EXCEPT ![r] = at]
      BY <2>3 DEF AskNotices, SharePoll
    <3> QED BY <1>1, <2>1, <3>1 DEF FeedInv, PollAhead
  <2>4. CASE StoreSaved(r) \/ Cancel(r)
    <3>1. cursor' = cursor /\ pc' = [pc EXCEPT ![r] = "out"]
      BY <2>4 DEF StoreSaved, Cancel, EndPoll
    <3> QED BY <1>1, <1>3, <2>1, <3>1 DEF FeedInv, PollAhead
  <2> QED BY <2>2, <2>3, <2>4
<1> QED BY <1>2, <1>5, <1>6

\* The store is what the disk has; what was passed since is passed again.
LEMMA ForgetStands ==
  ASSUME NoticeAssumption, FeedInv, FeedReload \/ FeedCrash
  PROVE  ListingOK' /\ StoresOK' /\ CursorOK' /\ PollAhead'
<1>1. Forget /\ UNCHANGED nemweb /\ published' = published
  BY DEF FeedReload, FeedCrash, nemweb
<1>2. PICK d : d = disk.data
  OBVIOUS
<1>3. Load(disk) = d /\ disk.schema \in {1, 2} /\ (disk.schema < 2 => d = Empty)
  BY <1>2 DEF Load, FeedInv, StoresOK
<1>4. /\ pc' = [r \in Regions |-> "out"] /\ batch' = {} /\ store' = d /\ cursor' = 0
      /\ saving' = Empty /\ marked' = "none"
      /\ examined' = {f \in examined : f <= d.cursor} /\ parsed' = {f \in parsed : f <= d.cursor}
  BY <1>1, <1>2, <1>3 DEF Forget
<1>5. DOMAIN disk' = {"schema", "data"} /\ disk'.data = d /\ disk'.schema \in {1, 2}
      /\ (disk'.schema < 2 => d = Empty)
  <2>1. CASE disk.schema < 2
    <3>1. disk' = [schema |-> 2, data |-> Empty]
      BY <1>1, <2>1 DEF Forget
    <3> QED BY <1>3, <2>1, <3>1
  <2>2. CASE ~(disk.schema < 2)
    <3>1. disk' = disk
      BY <1>1, <2>2 DEF Forget
    <3> QED BY <1>2, <1>3, <3>1 DEF FeedInv, StoresOK
  <2> QED BY <2>1, <2>2
<1>6. StoreOK(d) /\ NothingLost(d) /\ d.cursor \in 0..published /\ published \in Nat
      /\ d.cursor <= store.cursor /\ store.cursor \in Nat
  BY <1>2, FilesAre DEF FeedInv, StoresOK, StoreOK, ListingOK
<1>7. StoreOK(d)' /\ NothingLost(d)'
  BY <1>1, <1>4, <1>6, SameListing
<1>8. StoreOK(Empty)' /\ NothingLost(Empty)' /\ Empty.cursor = 0
  <2>1. DOMAIN Empty = {"cursor", "notices"} /\ Empty.cursor = 0 /\ Empty.notices = {}
    BY DEF Empty
  <2>2. StoreOK(Empty)'
    BY <1>1, <1>6, <2>1 DEF StoreOK
  <2>3. \A f \in parsed' : ~(f <= 0)
    BY <1>4, FilesAre DEF FeedInv, CursorOK
  <2>4. NothingLost(Empty)'
    BY <2>1, <2>3 DEF NothingLost
  <2> QED BY <2>1, <2>2, <2>4
<1>9. StoresOK'
  <2>1. \A c \in {store', saving', disk'.data} : c \in {d, Empty} /\ c.cursor <= d.cursor
    BY <1>4, <1>5, <1>6, <1>8
  <2> QED BY <1>4, <1>5, <1>7, <1>8, <2>1 DEF StoresOK
<1>10. CursorOK'
  <2>1. 1..d.cursor \subseteq examined'
    BY <1>4, <1>6 DEF FeedInv, CursorOK
  <2>2. parsed' \subseteq examined' /\ parsed' \subseteq 1..d.cursor /\ examined' \subseteq Files
    <3>1. parsed \subseteq examined /\ parsed \subseteq 1..store.cursor /\ examined \subseteq Files
      BY DEF FeedInv, CursorOK
    <3>2. \A f \in 1..store.cursor : f <= d.cursor => f \in 1..d.cursor
      BY <1>6
    <3> QED BY <1>4, <3>1, <3>2
  <2>3. cursor' \in 0..published /\ 1..cursor' \subseteq examined'
    BY <1>4, <1>6
  <2>4. batch' \subseteq 1..published /\ Cardinality(batch') <= Cap
    BY <1>4, FS_EmptySet DEF NoticeAssumption
  <2> QED BY <1>1, <1>4, <2>1, <2>2, <2>3, <2>4 DEF CursorOK
<1>11. PollAhead'
  BY <1>4 DEF PollAhead
<1>12. ListingOK'
  BY <1>1, SameListing DEF FeedInv
<1> QED BY <1>9, <1>10, <1>11, <1>12

LEMMA FeedInvInit == ASSUME NoticeAssumption, FeedInit PROVE FeedInv
<1>1. /\ day = 1 /\ published = 0 /\ fileDay = [f \in Files |-> 0] /\ fetchLock = Unheld
      /\ stamp = "none" /\ pc = [r \in Regions |-> "out"] /\ batch = {} /\ cursor = 0
      /\ store = Empty /\ saving = Empty /\ marked = "none" /\ examined = {} /\ parsed = {}
  BY DEF FeedInit
<1>2. PICK v \in {1, 2} : disk = [schema |-> v, data |-> Empty]
  BY DEF FeedInit
<1>3. PollInv
  BY <1>1 DEF PollInv, HolderPolls, HolderFoundItOld, Polling, NoticeAssumption
<1>4. ListingOK
  BY <1>1, FilesAre DEF ListingOK
<1>5. StoreOK(Empty) /\ NothingLost(Empty) /\ Empty.cursor = 0
  <2>1. DOMAIN Empty = {"cursor", "notices"} /\ Empty.cursor = 0 /\ Empty.notices = {}
    BY DEF Empty
  <2> QED BY <1>1, <2>1 DEF StoreOK, NothingLost
<1>6. StoresOK
  <2>1. DOMAIN disk = {"schema", "data"} /\ disk.schema = v /\ disk.data = Empty
    BY <1>2
  <2> QED BY <1>1, <1>5, <2>1 DEF StoresOK
<1>7. CursorOK
  BY <1>1, <1>5, FS_EmptySet DEF CursorOK, NoticeAssumption
<1>8. PollAhead
  BY <1>1 DEF PollAhead
<1> QED BY <1>3, <1>4, <1>6, <1>7, <1>8 DEF FeedInv

LEMMA FeedInvStep == ASSUME NoticeAssumption, FeedInv, [FeedNext]_feedVars PROVE FeedInv'
<1> USE DEF FeedInv
<1>1. CASE UNCHANGED feedVars
  <2>1. PollInv'
    BY <1>1 DEF feedVars, PollInv, HolderPolls, HolderFoundItOld
  <2>2. UNCHANGED nemweb /\ UNCHANGED <<store, disk, saving, parsed>>
    BY <1>1 DEF feedVars, nemweb
  <2>3. ListingOK' /\ StoresOK'
    BY <2>2, SameListing, SameStores
  <2>4. CursorOK' /\ PollAhead'
    BY <1>1 DEF feedVars, CursorOK, PollAhead
  <2> QED BY <2>1, <2>3, <2>4
<1>2. CASE PublishNotice \/ NextDay
  <2>1. PollInv'
    BY <1>2 DEF PublishNotice, NextDay, PollInv, HolderPolls, HolderFoundItOld
  <2> QED BY <1>2, <2>1, PublishStands, DayStands
<1>3. CASE WindowPasses
  <2>1. PollInv'
    BY <1>3 DEF WindowPasses, PollInv, HolderPolls, HolderFoundItOld
  <2>2. UNCHANGED nemweb /\ UNCHANGED <<store, disk, saving, parsed>>
    BY <1>3 DEF WindowPasses, feedHistory
  <2>3. ListingOK' /\ StoresOK'
    BY <2>2, SameListing, SameStores
  <2>4. CursorOK' /\ PollAhead'
    BY <1>3 DEF WindowPasses, nemweb, feedHistory, CursorOK, PollAhead
  <2> QED BY <2>1, <2>3, <2>4
<1>4. ASSUME NEW r \in Regions, Poll(r) PROVE FeedInv'
  <2>1. PollInv'
    BY <1>4, PollStep
  <2>2. UNCHANGED nemweb
    BY <1>4 DEF Poll, AskNotices, SharePoll, BeginPoll, ListingFails, NothingToFetch, StartBatch,
                FinishBatch, StoreSaved, Cancel
  <2>3. ListingOK'
    BY <2>2, SameListing
  <2>4. CASE AskNotices(r) \/ SharePoll(r) \/ BeginPoll(r) \/ StoreSaved(r) \/ Cancel(r)
    BY <2>1, <2>3, <2>4, PollerStands
  <2>5. CASE ListingFails(r) \/ NothingToFetch(r) \/ StartBatch(r)
    BY <2>1, <2>3, <2>5, ListingStands
  <2>6. CASE \E some \in SUBSET batch : FinishBatch(r, some)
    BY <2>1, <2>3, <2>6, BatchStands
  <2> QED BY <1>4, <2>4, <2>5, <2>6 DEF Poll
<1>5. CASE FeedReload \/ FeedCrash
  BY <1>5, RestartStep, ForgetStands
<1> QED BY <1>1, <1>2, <1>3, <1>4, <1>5 DEF FeedNext

\* The inductive invariant holds in every reachable state.
THEOREM FeedInvariant == ASSUME NoticeAssumption PROVE FeedSpec => []FeedInv
<1>1. FeedInit => FeedInv
  BY FeedInvInit
<1>2. FeedInv /\ [FeedNext]_feedVars => FeedInv'
  BY FeedInvStep
<1> QED BY <1>1, <1>2, PTL DEF FeedSpec

\* The variables keep their types: only listed files are fetched, no more than
\* the cap in one batch.
THEOREM FeedTypeCorrect == ASSUME NoticeAssumption PROVE FeedSpec => []FeedTypeOK
<1>1. FeedInv => FeedTypeOK
  <2> SUFFICES ASSUME FeedInv PROVE FeedTypeOK
    OBVIOUS
  <2>1. /\ fetchLock \in Regions \union {Unheld} /\ stamp \in {"none", "recent", "old"}
        /\ pc \in [Regions -> {"out", "lock", "list", "fetch", "save"}]
        /\ \A r \in Regions : pc[r] \in {"list", "fetch", "save"} <=> fetchLock = r
    <3>1. {"out", "lock"} \union Polling = {"out", "lock", "list", "fetch", "save"}
      BY DEF Polling
    <3> QED BY <3>1 DEF FeedInv, PollInv, HolderPolls, HolderFoundItOld, Polling
  <2>2. \A s \in {store, saving, disk.data} : s.cursor \in Nat /\ \A n \in s.notices : DOMAIN n = NoticeFields
    BY FilesAre DEF FeedInv, ListingOK, StoresOK, StoreOK, IsKeptOf
  <2>3. cursor \in Nat
    BY FilesAre DEF FeedInv, ListingOK, CursorOK
  <2> QED BY <2>1, <2>2, <2>3 DEF FeedInv, ListingOK, CursorOK, FeedTypeOK, NoticeFields
<1> QED BY <1>1, FeedInvariant, PTL

\* market_notice_client.py, fetch_new_notices: below the cursor, in memory or on
\* disk, every file was examined, and what was read there is stored there or too old.
THEOREM CursorHonest == ASSUME NoticeAssumption PROVE FeedSpec => []CursorIsHonest
<1>1. FeedInv => CursorIsHonest
  <2> SUFFICES ASSUME FeedInv PROVE CursorIsHonest
    OBVIOUS
  <2>1. Max({store.cursor} \union {disk.data.cursor}) = store.cursor
    <3>1. /\ published \in Nat /\ store.cursor \in 0..published /\ disk.data.cursor <= store.cursor
          /\ {disk.data.cursor} \in SUBSET (0..published)
      BY FilesAre DEF FeedInv, ListingOK, StoresOK, StoreOK
    <3> QED BY <3>1, MaxOfBehind
  <2>2. {store.cursor} \union {disk.data.cursor} = {store.cursor, disk.data.cursor}
    OBVIOUS
  <2>3. \A f \in Files : f <= store.cursor => f \in examined
    <3>1. store.cursor \in Int /\ \A f \in Files : f \in Int /\ f >= 1
      BY FilesAre DEF FeedInv, ListingOK, StoresOK, StoreOK
    <3> QED BY <3>1 DEF FeedInv, CursorOK
  <2>4. NoGapBelowCursor
    BY <2>1, <2>2, <2>3 DEF NoGapBelowCursor
  <2>5. CursorKeepsItsNotices
    BY DEF FeedInv, StoresOK, NothingLost, CursorKeepsItsNotices
  <2> QED BY <2>4, <2>5 DEF CursorIsHonest
<1> QED BY <1>1, FeedInvariant, PTL

\* notice_store.py, add_notices and _apply_withdrawal: what a later stored notice
\* cancels or replaces is not active, after any polls, reloads and restarts.
THEOREM WithdrawnRetired == ASSUME NoticeAssumption PROVE FeedSpec => []WithdrawnStaysRetired
<1>1. FeedInv => WithdrawnStaysRetired
  <2> SUFFICES ASSUME FeedInv, NEW s \in {store, disk.data}, NEW c \in s.notices, NEW n \in s.notices,
                      c.id > n.id, c.region = n.region,
                      CancelsByName(c, n) \/ CancelsByDate(c, n) \/ Supersedes(c, n)
               PROVE  ~Active(n)
    BY DEF WithdrawnStaysRetired
  <2>1. IsKeptOf(c, c.id) /\ IsKeptOf(n, n.id) /\ c.id \in Files
    BY FilesAre DEF FeedInv, ListingOK, StoresOK, StoreOK
  <2>2. /\ Notice(c.id).cancels # 0 \/ Notice(c.id).date # 0 => Notice(c.id).isCancelled
        /\ ~Text[c.id].cancels => ~Notice(c.id).isCancelled
    BY DEF Notice, References
  <2>3. Retires(Notice(c.id), n)
    <3>1. Notice(c.id).id = c.id
      BY DEF Notice
    <3> QED BY <2>1, <2>2, <3>1 DEF Retires, IsKeptOf, CancelsByName, CancelsByDate, Supersedes
  <2>4. Retires(Notice(c.id), Notice(n.id))
    BY <2>1, <2>3, RetiresByText
  <2> QED BY <2>4 DEF FeedInv, StoresOK, StoreOK
<1> QED BY <1>1, FeedInvariant, PTL

-----------------------------------------------------------------------------
(* The poll chain and the guard *)

\* A coordinator has its handle exactly while it has a timer, so that a
\* shutdown finds what it must cancel.
HandlesAreTimers == \A d \in Ids : handle[d] <=> timers[d] > 0

\* Only what the last unload finds in hass.data is ever stopped.
StoppedWereMade ==
  /\ \A d \in Ids : stopped[d] => d <= made
  /\ shared # 0 => shared \in unsubs /\ ~stopped[shared]

\* Who creates a coordinator holds the lock over its first refresh, nothing is
\* shared meanwhile, and nobody else can reach the new one to stop it.
CreatorsHoldTheLock ==
  \A e \in Entries : entry[e] = "creating" =>
    /\ setupLock = e /\ shared = 0
    /\ mine[e] # 0 /\ mine[e] \notin unsubs /\ ~stopped[mine[e]]

ChainInv ==
  /\ DispatchTypeOK /\ GuardTracksCurrent
  /\ OneChain /\ ChainGoesOn
  /\ HandlesAreTimers /\ StoppedWereMade /\ CreatorsHoldTheLock

-----------------------------------------------------------------------------
\* A request takes the free slot, or replaces what is stuck in it.
LEMMA RequestKeepsGuard ==
  ASSUME DPAssumption, GuardTracksCurrent, DispatchTypeOK, NEW d \in Ids, Notify(d)
  PROVE  /\ busy' \in BOOLEAN /\ stuck' \in BOOLEAN /\ current' \in BOOLEAN /\ old' \in 0..MaxOld
         /\ GuardTracksCurrent'
<1>1. CASE UNCHANGED guardVars
  BY <1>1 DEF GuardTracksCurrent, DispatchTypeOK, guardVars
<1>2. CASE ~UNCHANGED guardVars
  <2>1. GuardRequest /\ ~(busy /\ ~stuck)
    BY <1>2 DEF Notify, GuardRequest
  <2>2. busy' = TRUE /\ stuck' = FALSE /\ current' = TRUE /\ old' = IF current THEN old + 1 ELSE old
    BY <2>1 DEF GuardRequest
  <2>3. current => old < MaxOld
    BY <2>1 DEF Notify, GuardTracksCurrent
  <2>4. old' \in 0..MaxOld
    BY <2>2, <2>3 DEF DispatchTypeOK, DPAssumption
  <2>5. GuardTracksCurrent'
    BY <2>2 DEF GuardTracksCurrent
  <2> QED BY <2>2, <2>4, <2>5
<1> QED BY <1>1, <1>2

\* Scheduling sets a timer and its handle, or neither.
LEMMA ScheduleKeepsHandles ==
  ASSUME DispatchTypeOK, HandlesAreTimers, NEW d \in Ids, Schedule(d)
  PROVE  /\ timers' \in [Ids -> Nat] /\ handle' \in [Ids -> BOOLEAN]
         /\ HandlesAreTimers'
         /\ \A o \in Ids : timers'[o] = IF o = d /\ ~stopped[d] THEN timers[d] + 1 ELSE timers[o]
<1>1. CASE stopped[d]
  BY <1>1 DEF DispatchTypeOK, HandlesAreTimers, Schedule
<1>2. CASE ~stopped[d]
  <2>1. timers' = [timers EXCEPT ![d] = @ + 1] /\ handle' = [handle EXCEPT ![d] = TRUE]
    BY <1>2 DEF Schedule
  <2>2. timers \in [Ids -> Nat] /\ handle \in [Ids -> BOOLEAN]
    BY DEF DispatchTypeOK
  <2>3. timers' \in [Ids -> Nat] /\ handle' \in [Ids -> BOOLEAN]
    BY <2>1, <2>2
  <2>4. \A o \in Ids : timers'[o] = IF o = d THEN timers[d] + 1 ELSE timers[o]
    BY <2>1, <2>2
  <2>5. \A o \in Ids : handle'[o] <=> (o = d \/ handle[o])
    BY <2>1, <2>2
  <2>6. HandlesAreTimers'
    BY <2>2, <2>4, <2>5 DEF HandlesAreTimers
  <2> QED BY <1>2, <2>3, <2>4, <2>6
<1> QED BY <1>1, <1>2

\* The prices that came or the error that kept old ones: the refresh ends and
\* the next poll is scheduled.
LEMMA ServedKeepsInv ==
  ASSUME DPAssumption, ChainInv, NEW d \in Ids, Served(d)
  PROVE  ChainInv'
<1> USE DEF ChainInv
<1>1. UNCHANGED <<setupVars, tries, stopped, raised, source>>
  BY DEF Served
<1>2. refresh[d] = "fetch" /\ refresh' = [refresh EXCEPT ![d] = "none"] /\ Notify(d) /\ Schedule(d)
  BY DEF Served
<1>3. timers' \in [Ids -> Nat] /\ handle' \in [Ids -> BOOLEAN] /\ HandlesAreTimers'
      /\ \A o \in Ids : timers'[o] = IF o = d /\ ~stopped[d] THEN timers[d] + 1 ELSE timers[o]
  BY <1>2, ScheduleKeepsHandles
<1>4. busy' \in BOOLEAN /\ stuck' \in BOOLEAN /\ current' \in BOOLEAN /\ old' \in 0..MaxOld /\ GuardTracksCurrent'
  BY <1>2, RequestKeepsGuard
<1>5. DispatchTypeOK'
  <2>1. refresh' \in [Ids -> {"none", "fetch"}]
    BY <1>2 DEF DispatchTypeOK
  <2> QED BY <1>1, <1>3, <1>4, <2>1 DEF DispatchTypeOK, setupVars
<1>6. d = shared /\ timers[d] = 0
  BY <1>2 DEF OneChain, Alive, DispatchTypeOK
<1>7. shared \in Ids /\ shared # 0 /\ ~stopped[d]
  BY <1>6 DEF StoppedWereMade, Ids, DPAssumption
<1>8. OneChain'
  BY <1>1, <1>2, <1>3, <1>6, <1>7 DEF OneChain, Alive, DispatchTypeOK, setupVars
<1>9. ChainGoesOn'
  BY <1>1, <1>3, <1>6, <1>7 DEF ChainGoesOn, Alive, setupVars
<1>10. StoppedWereMade' /\ CreatorsHoldTheLock'
  BY <1>1 DEF StoppedWereMade, CreatorsHoldTheLock, setupVars
<1> QED BY <1>3, <1>4, <1>5, <1>8, <1>9, <1>10

\* The refresh a timer starts, its retries, and a listener that ends the chain.
LEMMA RefreshKeepsInv ==
  ASSUME DPAssumption, ChainInv, NEW d \in Ids, PollFires(d) \/ StillStale(d) \/ ListenerRaises(d)
  PROVE  ChainInv'
<1> USE DEF ChainInv
<1>1. UNCHANGED <<setupVars, stopped, source, guardVars>>
  BY DEF PollFires, StillStale, ListenerRaises
<1>2. GuardTracksCurrent' /\ StoppedWereMade' /\ CreatorsHoldTheLock'
  BY <1>1 DEF GuardTracksCurrent, StoppedWereMade, CreatorsHoldTheLock, setupVars, guardVars
<1>3. CASE PollFires(d)
  <2>1. timers[d] = 1 /\ refresh[d] = "none" /\ d = shared
    BY <1>3 DEF PollFires, OneChain, Alive, DispatchTypeOK
  <2>2. ~stopped[d]
    BY <2>1 DEF StoppedWereMade, Ids, DPAssumption
  <2>3. /\ timers' = [timers EXCEPT ![d] = @ - 1] /\ handle' = [handle EXCEPT ![d] = FALSE]
        /\ refresh' = [refresh EXCEPT ![d] = "fetch"] /\ tries' = [tries EXCEPT ![d] = Retries]
        /\ raised' = raised
    BY <1>3, <2>2 DEF PollFires
  <2>4. DispatchTypeOK'
    <3>1. timers' \in [Ids -> Nat] /\ refresh' \in [Ids -> {"none", "fetch"}] /\ tries' \in [Ids -> 0..Retries]
      BY <2>1, <2>3 DEF DispatchTypeOK, DPAssumption
    <3>2. handle' \in [Ids -> BOOLEAN]
      BY <2>3 DEF DispatchTypeOK
    <3> QED BY <1>1, <2>3, <3>1, <3>2 DEF DispatchTypeOK, setupVars, guardVars
  <2>5. OneChain' /\ ChainGoesOn'
    BY <1>1, <2>1, <2>3 DEF OneChain, ChainGoesOn, Alive, DispatchTypeOK, setupVars
  <2>6. HandlesAreTimers'
    BY <2>1, <2>3 DEF HandlesAreTimers, DispatchTypeOK
  <2> QED BY <1>2, <2>4, <2>5, <2>6
<1>4. CASE StillStale(d)
  <2>1. UNCHANGED <<timers, handle, refresh, raised>>
    BY <1>4 DEF StillStale
  <2>2. tries' \in [Ids -> 0..Retries]
    BY <1>4 DEF StillStale, DispatchTypeOK, DPAssumption
  <2>3. DispatchTypeOK'
    BY <1>1, <2>1, <2>2 DEF DispatchTypeOK, setupVars, guardVars
  <2> QED BY <1>1, <1>2, <2>1, <2>3
          DEF OneChain, ChainGoesOn, HandlesAreTimers, Alive, setupVars
<1>5. CASE ListenerRaises(d)
  <2>1. /\ refresh[d] = "fetch" /\ refresh' = [refresh EXCEPT ![d] = "none"]
        /\ raised' = [raised EXCEPT ![d] = TRUE] /\ UNCHANGED <<timers, handle, tries>>
    BY <1>5 DEF ListenerRaises
  <2>2. d = shared
    BY <2>1 DEF OneChain, Alive
  <2>3. refresh' \in [Ids -> {"none", "fetch"}] /\ raised' \in [Ids -> BOOLEAN] /\ raised'[d]
    BY <2>1 DEF DispatchTypeOK
  <2>4. DispatchTypeOK'
    BY <1>1, <2>1, <2>3 DEF DispatchTypeOK, setupVars, guardVars
  <2>5. OneChain'
    BY <1>1, <2>1 DEF OneChain, Alive, DispatchTypeOK, setupVars
  <2>6. ChainGoesOn'
    BY <1>1, <2>2, <2>3 DEF ChainGoesOn, setupVars
  <2> QED BY <1>2, <2>1, <2>4, <2>5, <2>6 DEF HandlesAreTimers
<1> QED BY <1>3, <1>4, <1>5

\* The guard alone: a refresh becomes stuck, ends, or ends too late.
LEMMA GuardKeepsInv ==
  ASSUME DPAssumption, ChainInv, BecomesStuck \/ CurrentEnds \/ OldEnds
  PROVE  ChainInv'
<1> USE DEF ChainInv
<1>1. UNCHANGED <<setupVars, chainVars, source>>
  BY DEF BecomesStuck, CurrentEnds, OldEnds
<1>2. busy' \in BOOLEAN /\ stuck' \in BOOLEAN /\ current' \in BOOLEAN /\ old' \in 0..MaxOld
  <2>1. CASE BecomesStuck
    BY <2>1 DEF BecomesStuck, DispatchTypeOK
  <2>2. CASE CurrentEnds
    BY <2>2 DEF CurrentEnds, DispatchTypeOK
  <2>3. CASE OldEnds
    BY <2>3 DEF OldEnds, DispatchTypeOK, DPAssumption
  <2> QED BY <2>1, <2>2, <2>3
<1>3. GuardTracksCurrent'
  BY DEF BecomesStuck, CurrentEnds, OldEnds, GuardTracksCurrent
<1>4. DispatchTypeOK'
  BY <1>1, <1>2 DEF DispatchTypeOK, setupVars, chainVars
<1> QED BY <1>1, <1>3, <1>4 DEF OneChain, ChainGoesOn, Alive, HandlesAreTimers, StoppedWereMade,
                                CreatorsHoldTheLock, setupVars, chainVars

\* The steps of a setup that leave the chain alone: they find the shared
\* coordinator, create one of their own, or give up.
LEMMA SetupKeepsInv ==
  ASSUME DPAssumption, ChainInv, NEW e \in Entries,
         SetupStart(e) \/ UseShared(e) \/ Create(e) \/ FinishSetup(e) \/ SetupFails(e)
  PROVE  ChainInv'
<1> USE DEF ChainInv
<1>1. UNCHANGED <<shared, unsubs, chainVars, guardVars>>
  BY DEF SetupStart, UseShared, Create, FinishSetup, SetupFails
<1>2. DispatchTypeOK'
  <2>1. entry' \in [Entries -> {"off", "before", "creating", "platforms", "loaded"}]
    BY DEF SetupStart, UseShared, Create, FinishSetup, SetupFails, DispatchTypeOK
  <2>2. made' \in 0..MaxMade /\ made <= made'
    BY DEF SetupStart, UseShared, Create, FinishSetup, SetupFails, DispatchTypeOK, DPAssumption
  <2>3. mine' \in [Entries -> 0..made'] /\ source' \in 0..made' /\ setupLock' \in Entries \cup {Nobody}
    <3>1. CASE Create(e)
      BY <2>2, <3>1 DEF Create, DispatchTypeOK
    <3>2. CASE ~Create(e)
      <4>1. made' = made
        BY <3>2 DEF SetupStart, UseShared, FinishSetup, SetupFails
      <4> QED BY <3>2, <4>1 DEF SetupStart, UseShared, FinishSetup, SetupFails, DispatchTypeOK
    <3> QED BY <3>1, <3>2
  <2>4. shared' \in 0..made' /\ unsubs' \subseteq 1..made'
    BY <1>1, <2>2 DEF DispatchTypeOK
  <2> QED BY <1>1, <2>1, <2>2, <2>3, <2>4 DEF DispatchTypeOK, chainVars, guardVars
<1>3. OneChain' /\ ChainGoesOn' /\ HandlesAreTimers' /\ GuardTracksCurrent'
  BY <1>1 DEF OneChain, ChainGoesOn, Alive, HandlesAreTimers, GuardTracksCurrent, chainVars, guardVars
<1>4. StoppedWereMade'
  <2>1. made' \in Nat /\ made <= made' /\ made \in Nat
    BY DEF SetupStart, UseShared, Create, FinishSetup, SetupFails, DispatchTypeOK, DPAssumption
  <2> QED BY <1>1, <2>1 DEF StoppedWereMade, Ids, chainVars
<1>5. CreatorsHoldTheLock'
  <2>1. CASE SetupStart(e) \/ UseShared(e) \/ FinishSetup(e)
    BY <1>1, <2>1 DEF SetupStart, UseShared, FinishSetup, CreatorsHoldTheLock, DispatchTypeOK, chainVars
  <2>2. CASE Create(e)
    <3>1. \A o \in Entries : entry[o] # "creating"
      BY <2>2 DEF Create, CreatorsHoldTheLock, DPAssumption
    <3>2. /\ entry' = [entry EXCEPT ![e] = "creating"] /\ mine' = [mine EXCEPT ![e] = made + 1]
          /\ setupLock' = e /\ shared = 0 /\ made < MaxMade
      BY <2>2 DEF Create
    <3>3. made + 1 \in Ids /\ made + 1 \notin unsubs /\ ~stopped[made + 1]
      BY <3>2 DEF DispatchTypeOK, StoppedWereMade, Ids, DPAssumption
    <3> QED BY <1>1, <3>1, <3>2, <3>3 DEF CreatorsHoldTheLock, DispatchTypeOK, chainVars
  <2>3. CASE SetupFails(e)
    <3>1. /\ entry' = [entry EXCEPT ![e] = "off"] /\ mine' = [mine EXCEPT ![e] = 0]
          /\ setupLock' = IF setupLock = e THEN Nobody ELSE setupLock
      BY <2>3 DEF SetupFails
    <3> QED BY <1>1, <3>1 DEF CreatorsHoldTheLock, DispatchTypeOK, chainVars
  <2> QED BY <2>1, <2>2, <2>3
<1> QED BY <1>2, <1>3, <1>4, <1>5

\* The first refresh is over: the new coordinator is shared and begins its chain.
LEMMA PublishKeepsInv ==
  ASSUME DPAssumption, ChainInv, NEW e \in Entries, PublishShared(e)
  PROVE  ChainInv'
<1> USE DEF ChainInv
<1> DEFINE d == mine[e]
<1>1. /\ entry[e] = "creating" /\ shared' = d /\ unsubs' = unsubs \cup {d} /\ Schedule(d)
      /\ setupLock' = Nobody /\ entry' = [entry EXCEPT ![e] = "platforms"]
      /\ UNCHANGED <<mine, made, refresh, tries, stopped, raised, source, guardVars>>
  BY DEF PublishShared
<1>2. d \in 1..made /\ d \in Ids /\ shared = 0 /\ setupLock = e /\ ~stopped[d]
  BY <1>1 DEF CreatorsHoldTheLock, DispatchTypeOK, Ids, DPAssumption
<1>3. timers' \in [Ids -> Nat] /\ handle' \in [Ids -> BOOLEAN] /\ HandlesAreTimers'
      /\ \A o \in Ids : timers'[o] = IF o = d /\ ~stopped[d] THEN timers[d] + 1 ELSE timers[o]
  <2>1. Schedule(d)
    BY <1>1
  <2>2. d \in Ids
    BY <1>2
  <2> HIDE DEF d
  <2> QED BY <2>1, <2>2, ScheduleKeepsHandles
<1> HIDE DEF d
<1>4. DispatchTypeOK'
  <2>1. entry' \in [Entries -> {"off", "before", "creating", "platforms", "loaded"}]
    BY <1>1 DEF DispatchTypeOK
  <2>2. shared' \in 0..made' /\ unsubs' \subseteq 1..made'
    BY <1>1, <1>2 DEF DispatchTypeOK
  <2> QED BY <1>1, <1>3, <2>1, <2>2 DEF DispatchTypeOK, guardVars
<1>5. \A o \in Ids : timers[o] = 0 /\ refresh[o] = "none"
  BY <1>2 DEF OneChain, Alive, DispatchTypeOK, Ids
<1>6. OneChain' /\ ChainGoesOn'
  BY <1>1, <1>2, <1>3, <1>5 DEF OneChain, ChainGoesOn, Alive
<1>7. StoppedWereMade'
  BY <1>1, <1>2 DEF StoppedWereMade
<1>8. CreatorsHoldTheLock'
  <2>1. \A o \in Entries : o # e => entry[o] # "creating"
    BY <1>2 DEF CreatorsHoldTheLock
  <2> QED BY <1>1, <2>1 DEF CreatorsHoldTheLock, DispatchTypeOK
<1> QED BY <1>1, <1>3, <1>4, <1>6, <1>7, <1>8 DEF GuardTracksCurrent, guardVars

\* Shutting down whatever hass.data knows of leaves no chain alive.
LEMMA ShutdownEndsTheChain ==
  ASSUME DPAssumption, ChainInv, Shutdown(unsubs)
  PROVE  /\ timers' \in [Ids -> Nat] /\ handle' \in [Ids -> BOOLEAN]
         /\ refresh' \in [Ids -> {"none", "fetch"}] /\ stopped' \in [Ids -> BOOLEAN]
         /\ \A d \in Ids : timers'[d] = 0 /\ ~handle'[d] /\ refresh'[d] = "none"
         /\ \A d \in Ids : stopped'[d] => stopped[d] \/ d \in unsubs
<1> USE DEF ChainInv
<1>1. /\ stopped' = [d \in Ids |-> stopped[d] \/ d \in unsubs]
      /\ timers' = [d \in Ids |-> IF d \in unsubs /\ handle[d] THEN timers[d] - 1 ELSE timers[d]]
      /\ handle' = [d \in Ids |-> handle[d] /\ d \notin unsubs]
      /\ refresh' = [d \in Ids |-> IF d \in unsubs THEN "none" ELSE refresh[d]]
  BY DEF Shutdown
<1>2. ASSUME NEW d \in Ids
      PROVE  timers'[d] = 0 /\ ~handle'[d] /\ refresh'[d] = "none"
  <2>1. timers[d] \in Nat /\ timers[d] <= 1 /\ (handle[d] <=> timers[d] > 0)
    BY DEF OneChain, HandlesAreTimers, DispatchTypeOK
  <2>2. handle'[d] <=> handle[d] /\ d \notin unsubs
    BY <1>1, Zenon
  <2>3. timers'[d] = IF d \in unsubs /\ handle[d] THEN timers[d] - 1 ELSE timers[d]
    BY <1>1, Zenon
  <2>4. refresh'[d] = IF d \in unsubs THEN "none" ELSE refresh[d]
    BY <1>1, Zenon
  <2>5. CASE d \in unsubs
    BY <2>1, <2>2, <2>3, <2>4, <2>5
  <2>6. CASE d \notin unsubs
    <3>1. ~Alive(d)
      <4>1. d # shared
        BY <2>6 DEF StoppedWereMade, Ids
      <4> QED BY <4>1 DEF OneChain
    <3>2. ~(timers[d] > 0) /\ refresh[d] = "none"
      BY <3>1 DEF Alive
    <3> QED BY <2>1, <2>2, <2>3, <2>4, <2>6, <3>2
  <2> QED BY <2>5, <2>6
<1>3. \A d \in Ids : timers'[d] = 0 /\ ~handle'[d] /\ refresh'[d] = "none"
  BY <1>2
<1>4. stopped' \in [Ids -> BOOLEAN] /\ handle' \in [Ids -> BOOLEAN]
  BY <1>1, Zenon
<1>5. timers' \in [Ids -> Nat] /\ refresh' \in [Ids -> {"none", "fetch"}]
  BY <1>1, <1>3
<1>6. \A d \in Ids : stopped'[d] => stopped[d] \/ d \in unsubs
  BY <1>1
<1> QED BY <1>3, <1>4, <1>5, <1>6

\* The last loaded entry drops what is shared, any other leaves it alone.
LEMMA UnloadKeepsInv ==
  ASSUME DPAssumption, ChainInv, NEW e \in Entries, UnloadEntry(e)
  PROVE  ChainInv'
<1> USE DEF ChainInv
<1>1. /\ entry[e] = "loaded" /\ entry' = [entry EXCEPT ![e] = "off"] /\ mine' = [mine EXCEPT ![e] = 0]
      /\ UNCHANGED <<setupLock, made, tries, raised>>
  BY DEF UnloadEntry
<1>2. entry' \in [Entries -> {"off", "before", "creating", "platforms", "loaded"}]
      /\ mine' \in [Entries -> 0..made']
  BY <1>1 DEF DispatchTypeOK
<1>3. \A o \in Entries : entry'[o] = "creating" => entry[o] = "creating" /\ mine'[o] = mine[o]
  BY <1>1 DEF DispatchTypeOK
<1>4. CASE \E o \in Entries \ {e} : entry[o] = "loaded"
  <2>1. UNCHANGED <<shared, unsubs, timers, handle, refresh, stopped, source, guardVars>>
    BY <1>4 DEF UnloadEntry
  <2>2. DispatchTypeOK'
    BY <1>1, <1>2, <2>1 DEF DispatchTypeOK, guardVars
  <2>3. CreatorsHoldTheLock'
    BY <1>1, <1>3, <2>1 DEF CreatorsHoldTheLock
  <2> QED BY <1>1, <2>1, <2>2, <2>3 DEF GuardTracksCurrent, OneChain, ChainGoesOn, Alive,
                                       HandlesAreTimers, StoppedWereMade, guardVars
<1>5. CASE ~\E o \in Entries \ {e} : entry[o] = "loaded"
  <2>1. /\ Shutdown(unsubs) /\ unsubs' = {} /\ shared' = 0 /\ source' = 0
        /\ busy' = FALSE /\ stuck' = FALSE /\ current' = FALSE /\ old' = 0
    BY <1>5 DEF UnloadEntry
  <2>2. /\ timers' \in [Ids -> Nat] /\ handle' \in [Ids -> BOOLEAN]
        /\ refresh' \in [Ids -> {"none", "fetch"}] /\ stopped' \in [Ids -> BOOLEAN]
        /\ \A d \in Ids : timers'[d] = 0 /\ ~handle'[d] /\ refresh'[d] = "none"
        /\ \A d \in Ids : stopped'[d] => stopped[d] \/ d \in unsubs
    BY <2>1, ShutdownEndsTheChain
  <2>3. DispatchTypeOK'
    <3>1. setupLock' \in Entries \cup {Nobody} /\ made' \in 0..MaxMade /\ tries' \in [Ids -> 0..Retries]
          /\ raised' \in [Ids -> BOOLEAN]
      BY <1>1 DEF DispatchTypeOK
    <3>2. shared' \in 0..made' /\ source' \in 0..made' /\ unsubs' \subseteq 1..made' /\ old' \in 0..MaxOld
      BY <2>1, <3>1 DEF DPAssumption
    <3>3. busy' \in BOOLEAN /\ stuck' \in BOOLEAN /\ current' \in BOOLEAN
      BY <2>1
    <3> QED BY <1>2, <2>2, <3>1, <3>2, <3>3 DEF DispatchTypeOK
  <2>4. OneChain' /\ ChainGoesOn' /\ HandlesAreTimers' /\ GuardTracksCurrent'
    BY <2>1, <2>2 DEF OneChain, ChainGoesOn, Alive, HandlesAreTimers, GuardTracksCurrent
  <2>5. StoppedWereMade'
    BY <1>1, <2>1, <2>2 DEF StoppedWereMade, DispatchTypeOK, Ids
  <2>6. CreatorsHoldTheLock'
    <3>1. ASSUME NEW o \in Entries, entry'[o] = "creating"
          PROVE  setupLock' = o /\ mine'[o] # 0 /\ ~stopped'[mine'[o]]
      <4>1. setupLock = o /\ mine[o] # 0 /\ mine[o] \notin unsubs /\ ~stopped[mine[o]] /\ mine'[o] = mine[o]
        BY <1>3, <3>1 DEF CreatorsHoldTheLock
      <4>2. mine[o] \in Ids
        BY <4>1 DEF DispatchTypeOK, Ids, DPAssumption
      <4> QED BY <1>1, <2>2, <4>1, <4>2
    <3> QED BY <2>1, <3>1 DEF CreatorsHoldTheLock
  <2> QED BY <2>3, <2>4, <2>5, <2>6
<1> QED BY <1>4, <1>5

-----------------------------------------------------------------------------
LEMMA ChainInvHolds == ASSUME DPAssumption PROVE DispatchSpec => []ChainInv
<1>1. DispatchInit => ChainInv
  <2> SUFFICES ASSUME DispatchInit PROVE ChainInv
    OBVIOUS
  <2> USE DEF DispatchInit
  <2>1. DispatchTypeOK
    <3>1. handle \in [Ids -> BOOLEAN] /\ stopped \in [Ids -> BOOLEAN] /\ raised \in [Ids -> BOOLEAN]
      BY Zenon
    <3>2. busy \in BOOLEAN /\ stuck \in BOOLEAN /\ current \in BOOLEAN
      BY Zenon
    <3>7. old \in 0..MaxOld
      BY DEF DPAssumption
    <3>3. made \in 0..MaxMade /\ shared \in 0..made /\ source \in 0..made /\ unsubs \subseteq 1..made
      BY DEF DPAssumption
    <3>6. mine \in [Entries -> 0..made] /\ tries \in [Ids -> 0..Retries]
      <4>1. 0 \in 0..made /\ 0 \in 0..Retries
        BY DEF DPAssumption
      <4> QED BY <4>1
    <3>4. timers \in [Ids -> Nat] /\ refresh \in [Ids -> {"none", "fetch"}]
      OBVIOUS
    <3>5. entry \in [Entries -> {"off", "before", "creating", "platforms", "loaded"}]
          /\ setupLock \in Entries \cup {Nobody}
      OBVIOUS
    <3> QED BY <3>1, <3>2, <3>3, <3>4, <3>5, <3>6, <3>7 DEF DispatchTypeOK
  <2>2. OneChain /\ ChainGoesOn /\ HandlesAreTimers /\ GuardTracksCurrent
    BY DEF OneChain, ChainGoesOn, Alive, HandlesAreTimers, GuardTracksCurrent
  <2>3. StoppedWereMade /\ CreatorsHoldTheLock
    BY DEF StoppedWereMade, CreatorsHoldTheLock
  <2> QED BY <2>1, <2>2, <2>3 DEF ChainInv
<1>2. ChainInv /\ [DispatchNext]_dispatchVars => ChainInv'
  <2> SUFFICES ASSUME ChainInv, [DispatchNext]_dispatchVars PROVE ChainInv'
    OBVIOUS
  <2>1. ASSUME NEW e \in Entries, SetupEntry(e) \/ UnloadEntry(e) PROVE ChainInv'
    BY <2>1, SetupKeepsInv, PublishKeepsInv, UnloadKeepsInv DEF SetupEntry
  <2>2. ASSUME NEW d \in Ids, Chain(d) PROVE ChainInv'
    BY <2>2, RefreshKeepsInv, ServedKeepsInv DEF Chain
  <2>3. CASE BecomesStuck \/ CurrentEnds \/ OldEnds
    BY <2>3, GuardKeepsInv
  <2>4. CASE UNCHANGED dispatchVars
    BY <2>4 DEF dispatchVars, setupVars, chainVars, guardVars, ChainInv, DispatchTypeOK, GuardTracksCurrent, OneChain,
                ChainGoesOn, Alive, HandlesAreTimers, StoppedWereMade, CreatorsHoldTheLock
  <2> QED BY <2>1, <2>2, <2>3, <2>4 DEF DispatchNext
<1> QED BY <1>1, <1>2, PTL DEF DispatchSpec

\* The variables of the poll chain, its claim and its guard have their types.
THEOREM PollingTypeCorrect == ASSUME DPAssumption PROVE DispatchSpec => []DispatchTypeOK
<1>1. ChainInv => DispatchTypeOK
  BY DEF ChainInv
<1> QED BY <1>1, ChainInvHolds, PTL

\* However many entries set up at once, reload and fail, at most one chain polls,
\* with one timer or one refresh, and hass.data knows it (async_shared_dispatch,
\* async_shutdown_polling).
THEOREM ChainsAreOne == ASSUME DPAssumption PROVE DispatchSpec => []OneChain
<1>1. ChainInv => OneChain
  BY DEF ChainInv
<1> QED BY <1>1, ChainInvHolds, PTL

\* A poll always leads to the next, whatever comes back and however often it was
\* retried, unless a listener raised (_aligned_refresh, schedule_next_poll).
THEOREM ChainsGoOn == ASSUME DPAssumption PROVE DispatchSpec => []ChainGoesOn
<1>1. ChainInv => ChainGoesOn
  BY DEF ChainInv
<1> QED BY <1>1, ChainInvHolds, PTL

\* The guard is busy exactly while the refresh of its generation runs, however
\* many cancelled ones are still to end (RefreshGuard.request and _run).
THEOREM GuardIsExact == ASSUME DPAssumption PROVE DispatchSpec => []GuardTracksCurrent
<1>1. ChainInv => GuardTracksCurrent
  BY DEF ChainInv
<1> QED BY <1>1, ChainInvHolds, PTL

-----------------------------------------------------------------------------
(* The runs held *)

\* The ends of intervals are integers.
LEMMA EndOfIsInt ==
  ASSUME NEW t \in Int, NEW length \in Nat \ {0}
  PROVE  EndOf(t, length) \in Int
  BY DEF EndOf

\* A refresh keeps what it held or replaces it by what it read.
LEMMA StoredType ==
  ASSUME NEW k \in Kinds, NEW r \in Int \union {None}, RunsTypeOK
  PROVE  Stored(k, r) \in Int \union {None}
  BY DEF Stored, RunsTypeOK

\* A guard's request changes the refreshes running and what they read only.
LEMMA RequestType ==
  ASSUME NEW kinds \in SUBSET Kinds, RunsTypeOK, Request(kinds)
  PROVE  /\ running' \subseteq Tasks
         /\ reading' \in [Tasks -> Int \union {None}]
<1>1. running' \subseteq Tasks
  BY DEF Request, RunsTypeOK
<1>2. \A t \in Tasks : t.kind \in Kinds
  BY DEF Tasks
<1>3. \A k \in Kinds : listed[k] \in Int \union {None}
  BY DEF RunsTypeOK
<1>4. \A t \in Tasks : reading[t] \in Int \union {None}
  BY DEF RunsTypeOK
<1>5. reading' \in [Tasks -> Int \union {None}]
  BY <1>2, <1>3, <1>4 DEF Request
<1> QED BY <1>1, <1>5

\* The model's variables have their types, in every reachable state of
\* P5MinCoordinator and PredispatchCoordinator.
THEOREM RunsTypeCorrect == RunsSpec => []RunsTypeOK
<1> USE RunsAssumption DEF RunsAssumption
<1>1. RunsInit => RunsTypeOK
  <2> SUFFICES ASSUME RunsInit PROVE RunsTypeOK
    OBVIOUS
  <2>1. listed \in [Kinds -> Int \union {None}] /\ latest \in [Kinds -> Int \union {None}]
    BY DEF RunsInit, Kinds
  <2>2. reading \in [Tasks -> Int \union {None}]
    BY <2>1 DEF RunsInit, Tasks
  <2>3. now \in 0..MaxNow /\ retries \in 0..RetryLimit /\ running \subseteq Tasks
    BY DEF RunsInit
  <2>4. retrying \in BOOLEAN /\ listening \in BOOLEAN
    BY Zenon DEF RunsInit
  <2> QED BY <2>1, <2>2, <2>3, <2>4 DEF RunsTypeOK
<1>2. RunsTypeOK /\ [RunsNext]_runVars => RunsTypeOK'
  <2> SUFFICES ASSUME RunsTypeOK, [RunsNext]_runVars PROVE RunsTypeOK'
    OBVIOUS
  <2> USE DEF RunsTypeOK
  <2>1. CASE Tick
    BY <2>1 DEF Tick
  <2>2. CASE ListRun
    <3>1. EndOf(now + 1, Interval) \in Int /\ EndOf(now, Period) \in Int
      BY EndOfIsInt
    <3>2. listed' \in [Kinds -> Int \union {None}]
      BY <2>2, <3>1 DEF ListRun, Kinds
    <3> QED BY <2>2, <3>2 DEF ListRun
  <2>3. CASE OnDispatch
    <3>1. running' \subseteq Tasks /\ reading' \in [Tasks -> Int \union {None}]
      BY <2>3, RequestType DEF OnDispatch
    <3>2. retries' \in 0..RetryLimit /\ now' \in 0..MaxNow
      BY <2>3 DEF OnDispatch
    <3>3. retrying' \in BOOLEAN /\ listening' \in BOOLEAN
      BY <2>3, Zenon DEF OnDispatch
    <3>4. listed' = listed /\ latest' = latest
      BY <2>3 DEF OnDispatch
    <3> QED BY <3>1, <3>2, <3>3, <3>4
  <2>4. CASE Retry
    <3>1. running' \subseteq Tasks /\ reading' \in [Tasks -> Int \union {None}]
      BY <2>4, RequestType DEF Retry, Kinds
    <3>2. now' = now /\ listed' = listed /\ latest' = latest /\ retries' = retries
      BY <2>4 DEF Retry
    <3>3. retrying' \in BOOLEAN /\ listening' \in BOOLEAN
      BY <2>4, Zenon DEF Retry
    <3> QED BY <3>1, <3>2, <3>3
  <2>5. CASE ShutDown
    <3>1. /\ now' = now /\ listed' = listed /\ latest' = latest
          /\ running' = running /\ reading' = reading
      BY <2>5 DEF ShutDown
    <3>2. retries' \in 0..RetryLimit
      BY <2>5 DEF ShutDown
    <3>3. retrying' \in BOOLEAN /\ listening' \in BOOLEAN
      BY <2>5, Zenon DEF ShutDown
    <3> QED BY <3>1, <3>2, <3>3
  <2>6. ASSUME NEW t \in Tasks, RefreshEnds(t) PROVE RunsTypeOK'
    <3>1. t.kind \in Kinds
      BY DEF Tasks
    <3>2. latest' \in [Kinds -> Int \union {None}]
      <4>1. PICK r \in {reading[t], None} : latest' = [latest EXCEPT ![t.kind] = Stored(t.kind, r)]
        BY <2>6 DEF RefreshEnds
      <4>2. Stored(t.kind, r) \in Int \union {None}
        BY <3>1, <4>1, StoredType
      <4> QED BY <4>1, <4>2
    <3>3. reading' \in [Tasks -> Int \union {None}] /\ running' \subseteq Tasks
      BY <2>6 DEF RefreshEnds
    <3>4. retries' \in 0..RetryLimit
      BY <2>6 DEF RefreshEnds
    <3>5. retrying' \in BOOLEAN
      BY <2>6, Zenon DEF RefreshEnds
    <3>6. now' = now /\ listed' = listed /\ listening' = listening
      BY <2>6 DEF RefreshEnds
    <3> QED BY <3>2, <3>3, <3>4, <3>5, <3>6
  <2>7. CASE UNCHANGED runVars
    BY <2>7 DEF runVars
  <2> QED BY <2>1, <2>2, <2>3, <2>4, <2>5, <2>6, <2>7 DEF RunsNext
<1> QED BY <1>1, <1>2, PTL DEF RunsSpec

\* async_shutdown_listener() ends the retries for good: no timer is left, and a
\* refresh that was running then, which it does not cancel, schedules none (#381).
THEOREM QuietAfterShutDown == RunsSpec => []QuietOnceShutDown
<1>1. RunsInit => QuietOnceShutDown
  BY DEF RunsInit, QuietOnceShutDown
<1>2. QuietOnceShutDown /\ [RunsNext]_runVars => QuietOnceShutDown'
  <2> SUFFICES ASSUME QuietOnceShutDown, [RunsNext]_runVars PROVE QuietOnceShutDown'
    OBVIOUS
  <2> USE DEF QuietOnceShutDown
  <2>1. CASE Tick \/ ListRun
    BY <2>1 DEF Tick, ListRun
  <2>2. CASE OnDispatch
    BY <2>2 DEF OnDispatch
  <2>3. CASE Retry
    BY <2>3 DEF Retry
  <2>4. CASE ShutDown
    BY <2>4 DEF ShutDown
  <2>5. ASSUME NEW t \in Tasks, RefreshEnds(t) PROVE QuietOnceShutDown'
    <3>1. listening' = listening
      BY <2>5 DEF RefreshEnds
    <3>2. ASSUME ~listening PROVE retries' = retries /\ retrying' = retrying
      <4>1. ~(retries > 0)
        BY <3>2
      <4> QED BY <2>5, <4>1 DEF RefreshEnds
    <3> QED BY <3>1, <3>2
  <2>6. CASE UNCHANGED runVars
    BY <2>6 DEF runVars
  <2> QED BY <2>1, <2>2, <2>3, <2>4, <2>5, <2>6 DEF RunsNext
<1> QED BY <1>1, <1>2, PTL DEF RunsSpec

\* Whatever two refreshes read and in whichever order they end, the run held
\* never goes back (_async_update_data() of both coordinators).
THEOREM RunsAdvance == RunsSpec => HeldRunsAdvance
<1>1. RunsTypeOK /\ [RunsNext]_runVars => [NewerRunsOnly]_latest
  <2> SUFFICES ASSUME RunsTypeOK, RunsNext, latest' # latest PROVE NewerRunsOnly
    BY DEF runVars
  <2>1. PICK t \in Tasks : RefreshEnds(t)
    BY DEF RunsNext, Tick, ListRun, OnDispatch, Retry, ShutDown
  <2>2. PICK r \in {reading[t], None} :
          latest' = [latest EXCEPT ![t.kind] = Stored(t.kind, r)]
    BY <2>1 DEF RefreshEnds
  <2>3. latest \in [Kinds -> Int \union {None}] /\ t.kind \in Kinds
    BY DEF RunsTypeOK, Tasks
  <2>4. Stored(t.kind, r) # latest[t.kind] =>
          latest[t.kind] = None \/ Stored(t.kind, r) > latest[t.kind]
    BY DEF Stored
  <2> QED BY <2>2, <2>3, <2>4 DEF NewerRunsOnly
<1> QED BY <1>1, RunsTypeCorrect, PTL DEF RunsSpec, HeldRunsAdvance

-----------------------------------------------------------------------------
(* PublishCycle: the order of the refreshes *)

\* How far a refresh is.
Rank(st) ==
  IF st = "idle" THEN 0 ELSE IF st = "asked" THEN 1 ELSE IF st = "fetched" THEN 2 ELSE 3
HasRun(k) == stage[k] \in {"fetched", "noticing"}

\* The refreshes advance in the order in which they came, and a later one has
\* no older run.
QueueInOrder ==
  \A i, j \in DOMAIN order : i < j =>
    /\ Rank(stage[order[i]]) >= Rank(stage[order[j]])
    /\ HasRun(order[j]) => got[order[i]].run <= got[order[j]].run

\* What is served, saved or about to be is no newer than what NEMWEB lists or
\* the shared fetcher would answer with.
RunsAreBehind ==
  /\ held <= newest /\ data <= newest /\ cache.run <= newest
  /\ orphan.run <= held
  /\ held # Absent => data <= held /\ cache.run <= held
  /\ \A k \in Refreshes : /\ got[k].run <= held
                          /\ HasRun(k) => got[k].run # Absent /\ data <= got[k].run

\* How far the entry is says what may be under way for it.
PhasesHold ==
  /\ phase = "off" => order = <<>> /\ data = Absent
  /\ phase = "loading" => Len(order) <= 1
  /\ phase # "off" => ~halted
  /\ phase = "loaded" => data # Absent
  /\ ~firstDone => \A k \in Refreshes : stage[k] # "noticing"

-----------------------------------------------------------------------------
(* The queue of refreshes *)

LEMMA RunsAreTicks ==
  ASSUME PublishAssumption
  PROVE  /\ Runs \subseteq Nat /\ Runs \subseteq Ticks /\ Ticks \subseteq Nat /\ 0 \in Ticks
         /\ Absent \notin Runs /\ Absent \in Int /\ NoCache \in Saves
  BY DEF PublishAssumption, Runs, Ticks, Absent, NoCache, Saves

LEMMA RemoveAtIs ==
  ASSUME NEW S, NEW s \in Seq(S), NEW p \in 1..Len(s)
  PROVE  /\ RemoveAt(s, p) \in Seq(S)
         /\ Len(RemoveAt(s, p)) = Len(s) - 1
         /\ \A i \in 1..(Len(s) - 1) : RemoveAt(s, p)[i] = IF i < p THEN s[i] ELSE s[i + 1]
<1> DEFINE a == SubSeq(s, 1, p - 1)
           b == SubSeq(s, p + 1, Len(s))
<1>1. s \in [1..Len(s) -> S] /\ Len(s) \in Nat
  BY LenProperties
<1>2. /\ a \in Seq(S) /\ Len(a) = p - 1
      /\ \A i \in 1..(p - 1) : a[i] = s[i]
  BY <1>1, SubSeqProperties
<1>3. /\ b \in Seq(S) /\ Len(b) = Len(s) - p
      /\ \A i \in 1..(Len(s) - p) : b[i] = s[p + i]
  <2>1. \A i \in (p + 1)..Len(s) : s[i] \in S
    BY <1>1
  <2>2. p + 1 \in 1..(Len(s) + 1) /\ Len(s) \in p..Len(s) /\ p + 1 \in Int
    BY <1>1
  <2>3. /\ b \in Seq(S)
        /\ Len(b) = IF p + 1 <= Len(s) THEN Len(s) - (p + 1) + 1 ELSE 0
        /\ \A i \in 1..(Len(s) - (p + 1) + 1) : b[i] = s[p + 1 + i - 1]
    BY <1>1, <2>1, <2>2, SubSeqProperties
  <2> HIDE DEF b
  <2>4. Len(b) = Len(s) - p
    <3>1. p \in Int /\ Len(s) \in Int /\ p <= Len(s)
      BY <1>1
    <3>2. Len(b) = IF p + 1 <= Len(s) THEN Len(s) - (p + 1) + 1 ELSE 0
      BY <2>3
    <3> QED BY <3>1, <3>2
  <2>5. ASSUME NEW i \in 1..(Len(s) - p) PROVE b[i] = s[p + i]
    <3>1. p + 1 + i - 1 = p + i /\ i \in 1..(Len(s) - (p + 1) + 1)
      BY <1>1
    <3>2. b[i] = s[p + 1 + i - 1]
      BY <2>3, <3>1
    <3> QED BY <3>1, <3>2
  <2> QED BY <2>3, <2>4, <2>5
<1>4. RemoveAt(s, p) = a \o b
  BY DEF RemoveAt
<1> HIDE DEF a, b
<1>5. /\ a \o b \in Seq(S) /\ Len(a \o b) = Len(a) + Len(b)
      /\ \A i \in 1..(Len(a) + Len(b)) : (a \o b)[i] = IF i <= Len(a) THEN a[i] ELSE b[i - Len(a)]
  BY <1>2, <1>3, ConcatProperties
<1>6. ASSUME NEW i \in 1..(Len(s) - 1), i < p PROVE (a \o b)[i] = s[i]
  <2>1. i \in 1..(p - 1) /\ i \in 1..(Len(a) + Len(b)) /\ i <= Len(a)
    BY <1>1, <1>2, <1>3, <1>6
  <2> QED BY <1>2, <1>5, <2>1
<1>7. ASSUME NEW i \in 1..(Len(s) - 1), ~(i < p) PROVE (a \o b)[i] = s[i + 1]
  <2>1. /\ i - (p - 1) \in 1..(Len(s) - p) /\ p + (i - (p - 1)) = i + 1
        /\ i \in 1..(Len(a) + Len(b)) /\ ~(i <= Len(a))
    <3>1. Len(a) = p - 1 /\ Len(b) = Len(s) - p /\ p \in Int /\ i \in Int
      BY <1>1, <1>2, <1>3
    <3> QED BY <1>1, <1>7, <3>1
  <2> QED BY <1>2, <1>3, <1>5, <2>1
<1>8. Len(a \o b) = Len(s) - 1
  BY <1>1, <1>2, <1>3, <1>5
<1> QED BY <1>4, <1>5, <1>6, <1>7, <1>8

\* Whatever is under way has one place in the queue.
LEMMA PlaceIsFound ==
  ASSUME PublishTypeOK, NEW k \in Refreshes, stage[k] # "idle"
  PROVE  /\ PlaceOf(k) \in DOMAIN order /\ order[PlaceOf(k)] = k
         /\ \A i \in DOMAIN order : order[i] = k => i = PlaceOf(k)
<1>1. \E i \in DOMAIN order : order[i] = k
  BY DEF PublishTypeOK, ToSet
<1>2. PlaceOf(k) \in DOMAIN order /\ order[PlaceOf(k)] = k
  BY <1>1 DEF PlaceOf
<1> QED BY <1>2 DEF PublishTypeOK, IsInjective

\* Whoever is first at its stage is behind others only if they are further.
LEMMA FirstIsFirst ==
  ASSUME PublishTypeOK, NEW k \in Refreshes, NEW st, st # "idle", FirstAt(k, st)
  PROVE  /\ stage[k] = st /\ PlaceOf(k) \in DOMAIN order
         /\ order[PlaceOf(k)] = k
         /\ \A i \in DOMAIN order : order[i] = k => i = PlaceOf(k)
         /\ \A i \in DOMAIN order : i < PlaceOf(k) => stage[order[i]] # st
<1>1. stage[k] = st /\ \A j \in Earlier(k) : stage[j] # st
  BY DEF FirstAt
<1>2. /\ PlaceOf(k) \in DOMAIN order /\ order[PlaceOf(k)] = k
      /\ \A i \in DOMAIN order : order[i] = k => i = PlaceOf(k)
  BY <1>1, PlaceIsFound
<1>3. DOMAIN order = 1..Len(order) /\ Len(order) \in Nat
  BY LenProperties DEF PublishTypeOK
<1>4. ASSUME NEW i \in DOMAIN order, i < PlaceOf(k) PROVE order[i] \in Earlier(k)
  BY <1>2, <1>3, <1>4 DEF Earlier
<1> QED BY <1>1, <1>2, <1>4

LEMMA RanksTell ==
  ASSUME NEW a \in {"idle", "asked", "fetched", "noticing"},
         NEW b \in {"idle", "asked", "fetched", "noticing"}
  PROVE  /\ Rank(a) \in 0..3
         /\ Rank(a) = Rank(b) => a = b
  BY DEF Rank

\* A refresh that ends leaves the others in their order.
LEMMA EndedKeepsQueue ==
  ASSUME PublishAssumption, PublishTypeOK, QueueInOrder,
         NEW k \in Refreshes, stage[k] # "idle", Ended(k)
  PROVE  /\ order' \in Seq(Refreshes) /\ IsInjective(order')
         /\ Len(order') = Len(order) - 1
         /\ stage' \in [Refreshes -> {"idle", "asked", "fetched", "noticing"}]
         /\ ToSet(order') = {j \in Refreshes : stage'[j] # "idle"}
         /\ got' \in [Refreshes -> Saves]
         /\ QueueInOrder'
<1> DEFINE p == PlaceOf(k)
<1>1. p \in 1..Len(order) /\ Len(order) \in Nat /\ order[p] = k
      /\ DOMAIN order = 1..Len(order)
      /\ \A i \in DOMAIN order : order[i] = k => i = p
  BY PlaceIsFound, LenProperties DEF PublishTypeOK
<1>2. /\ order' \in Seq(Refreshes) /\ Len(order') = Len(order) - 1
      /\ \A i \in 1..(Len(order) - 1) : order'[i] = IF i < p THEN order[i] ELSE order[i + 1]
  BY <1>1, RemoveAtIs DEF Ended, PublishTypeOK
<1>3. DOMAIN order' = 1..(Len(order) - 1)
  BY <1>2, LenProperties
<1>4. PICK was \in [1..(Len(order) - 1) -> 1..Len(order)] :
        /\ \A i \in DOMAIN order' : order'[i] = order[was[i]] /\ was[i] # p
        /\ \A i, j \in DOMAIN order' : i < j => was[i] < was[j]
        /\ \A i \in 1..Len(order) : i # p => \E j \in DOMAIN order' : was[j] = i
  <2> DEFINE o == [i \in 1..(Len(order) - 1) |-> IF i < p THEN i ELSE i + 1]
  <2>1. o \in [1..(Len(order) - 1) -> 1..Len(order)]
    BY <1>1
  <2>2. \A i \in DOMAIN order' : order'[i] = order[o[i]] /\ o[i] # p
    BY <1>1, <1>2, <1>3
  <2>3. \A i, j \in DOMAIN order' : i < j => o[i] < o[j]
    BY <1>1, <1>3
  <2>4. ASSUME NEW i \in 1..Len(order), i # p PROVE \E j \in DOMAIN order' : o[j] = i
    <3>1. CASE i < p
      <4>1. i \in DOMAIN order' /\ o[i] = i
        BY <1>1, <1>3, <3>1
      <4> QED BY <4>1
    <3>2. CASE i > p
      <4>1. i - 1 \in DOMAIN order' /\ o[i - 1] = i
        BY <1>1, <1>3, <3>2
      <4> QED BY <4>1
    <3> QED BY <1>1, <2>4, <3>1, <3>2
  <2> QED BY <2>1, <2>2, <2>3, <2>4
<1> HIDE DEF p
<1>5. /\ stage' = [stage EXCEPT ![k] = "idle"]
      /\ got' = [got EXCEPT ![k] = NoCache]
  BY DEF Ended
<1>6. /\ stage' \in [Refreshes -> {"idle", "asked", "fetched", "noticing"}]
      /\ got' \in [Refreshes -> Saves]
  BY <1>5, RunsAreTicks DEF PublishTypeOK
<1>7. IsInjective(order')
  <2> SUFFICES ASSUME NEW i \in DOMAIN order', NEW j \in DOMAIN order', order'[i] = order'[j]
               PROVE  i = j
    BY DEF IsInjective
  <2>1. was[i] \in DOMAIN order /\ was[j] \in DOMAIN order /\ order[was[i]] = order[was[j]]
    BY <1>1, <1>3, <1>4
  <2>2. was[i] = was[j]
    BY <2>1 DEF PublishTypeOK, IsInjective
  <2>3. ~(i < j) /\ ~(j < i)
    BY <1>1, <1>3, <1>4, <2>1, <2>2
  <2> QED BY <1>1, <1>3, <2>3
<1>8. \A i \in DOMAIN order' : order'[i] # k /\ order'[i] \in Refreshes
  BY <1>1, <1>2, <1>3, <1>4
<1>9. ToSet(order') = {j \in Refreshes : stage'[j] # "idle"}
  <2>1. ASSUME NEW i \in DOMAIN order' PROVE stage'[order'[i]] # "idle"
    <3>1. order'[i] \in ToSet(order)
      BY <1>1, <1>3, <1>4 DEF ToSet
    <3> QED BY <1>5, <1>8, <3>1 DEF PublishTypeOK
  <2>2. ASSUME NEW j \in Refreshes, stage'[j] # "idle" PROVE j \in ToSet(order')
    <3>1. j # k /\ stage[j] # "idle"
      BY <1>5, <2>2 DEF PublishTypeOK
    <3>2. PICK i \in DOMAIN order : order[i] = j
      BY <3>1 DEF PublishTypeOK, ToSet
    <3>3. i # p
      BY <1>1, <3>1, <3>2
    <3> QED BY <1>1, <1>4, <3>2, <3>3 DEF ToSet
  <2> QED BY <1>8, <2>1, <2>2 DEF ToSet
<1>10. QueueInOrder'
  <2> SUFFICES ASSUME NEW i \in DOMAIN order', NEW j \in DOMAIN order', i < j
               PROVE  /\ Rank(stage'[order'[i]]) >= Rank(stage'[order'[j]])
                      /\ stage'[order'[j]] \in {"fetched", "noticing"} =>
                           got'[order'[i]].run <= got'[order'[j]].run
    BY DEF QueueInOrder, HasRun
  <2>1. /\ order'[i] = order[was[i]] /\ order'[j] = order[was[j]] /\ was[i] < was[j]
    BY <1>4
  <2>2. was[i] \in DOMAIN order /\ was[j] \in DOMAIN order
    BY <1>1, <1>3, <1>4
  <2>3. /\ stage'[order'[i]] = stage[order[was[i]]] /\ got'[order'[i]] = got[order[was[i]]]
        /\ stage'[order'[j]] = stage[order[was[j]]] /\ got'[order'[j]] = got[order[was[j]]]
    BY <1>5, <1>8, <2>1 DEF PublishTypeOK
  <2> QED BY <2>1, <2>2, <2>3 DEF QueueInOrder, HasRun
<1> QED BY <1>2, <1>6, <1>7, <1>9, <1>10

\* A refresh that is asked for goes behind the others.
LEMMA AskKeepsQueue ==
  ASSUME PublishAssumption, PublishTypeOK, QueueInOrder,
         NEW k \in Refreshes, stage[k] = "idle", AskRefresh(k)
  PROVE  /\ order' \in Seq(Refreshes) /\ IsInjective(order')
         /\ Len(order') = Len(order) + 1
         /\ stage' \in [Refreshes -> {"idle", "asked", "fetched", "noticing"}]
         /\ ToSet(order') = {j \in Refreshes : stage'[j] # "idle"}
         /\ QueueInOrder'
<1> DEFINE n == Len(order)
<1>1. n \in Nat /\ DOMAIN order = 1..n /\ \A i \in 1..n : order[i] \in Refreshes
  BY LenProperties DEF PublishTypeOK
<1>2. /\ order' \in Seq(Refreshes) /\ Len(order') = n + 1 /\ DOMAIN order' = 1..(n + 1)
      /\ \A i \in 1..n : order'[i] = order[i]
      /\ order'[n + 1] = k
  BY <1>1, AppendProperties, LenProperties DEF AskRefresh, PublishTypeOK
<1> HIDE DEF n
<1>3. /\ stage' = [stage EXCEPT ![k] = "asked"] /\ got' = got
      /\ stage' \in [Refreshes -> {"idle", "asked", "fetched", "noticing"}]
  BY DEF AskRefresh, PublishTypeOK
<1>4. \A i \in 1..n : order[i] # k /\ stage[order[i]] # "idle"
  BY <1>1 DEF PublishTypeOK, ToSet
<1>5. IsInjective(order')
  <2> SUFFICES ASSUME NEW i \in 1..(n + 1), NEW j \in 1..(n + 1), order'[i] = order'[j]
               PROVE  i = j
    BY <1>2 DEF IsInjective
  <2>1. CASE i \in 1..n /\ j \in 1..n
    BY <1>1, <1>2, <2>1 DEF PublishTypeOK, IsInjective
  <2>2. CASE i = n + 1 \/ j = n + 1
    BY <1>1, <1>2, <1>4, <2>2
  <2> QED BY <1>1, <2>1, <2>2
<1>6. ToSet(order') = {j \in Refreshes : stage'[j] # "idle"}
  <2>1. ASSUME NEW i \in 1..(n + 1)
        PROVE  order'[i] \in Refreshes /\ stage'[order'[i]] # "idle"
    <3>1. CASE i \in 1..n
      BY <1>1, <1>2, <1>3, <1>4, <3>1 DEF PublishTypeOK
    <3>2. CASE i = n + 1
      BY <1>2, <1>3, <3>2 DEF PublishTypeOK
    <3> QED BY <1>1, <3>1, <3>2
  <2>2. ASSUME NEW j \in Refreshes, stage'[j] # "idle"
        PROVE  \E i \in 1..(n + 1) : order'[i] = j
    <3>1. CASE j = k
      BY <1>1, <1>2, <3>1
    <3>2. CASE j # k
      <4>1. stage[j] # "idle"
        BY <1>3, <2>2, <3>2 DEF PublishTypeOK
      <4>2. PICK i \in 1..n : order[i] = j
        BY <1>1, <4>1 DEF PublishTypeOK, ToSet
      <4> QED BY <1>1, <1>2, <4>2
    <3> QED BY <3>1, <3>2
  <2> QED BY <1>2, <2>1, <2>2 DEF ToSet
<1>7. QueueInOrder'
  <2> SUFFICES ASSUME NEW i \in 1..(n + 1), NEW j \in 1..(n + 1), i < j
               PROVE  /\ Rank(stage'[order'[i]]) >= Rank(stage'[order'[j]])
                      /\ stage'[order'[j]] \in {"fetched", "noticing"} =>
                           got'[order'[i]].run <= got'[order'[j]].run
    BY <1>2 DEF QueueInOrder, HasRun
  <2>1. /\ i \in 1..n /\ order'[i] = order[i] /\ stage'[order'[i]] = stage[order[i]]
        /\ order[i] \in Refreshes
    BY <1>1, <1>2, <1>3, <1>4 DEF PublishTypeOK
  <2>2. CASE j = n + 1
    <3>1. stage'[order'[j]] = "asked"
      BY <1>2, <1>3, <2>2 DEF PublishTypeOK
    <3>2. Rank(stage[order[i]]) >= 1
      BY <1>4, <2>1 DEF Rank, PublishTypeOK
    <3> QED BY <2>1, <3>1, <3>2 DEF Rank
  <2>3. CASE j \in 1..n
    <3>1. order'[j] = order[j] /\ stage'[order'[j]] = stage[order[j]]
      BY <1>1, <1>2, <1>3, <1>4, <2>3 DEF PublishTypeOK
    <3> QED BY <1>1, <1>3, <2>1, <2>3, <3>1 DEF QueueInOrder, HasRun
  <2> QED BY <1>1, <2>2, <2>3
<1> QED BY <1>2, <1>3, <1>5, <1>6, <1>7 DEF n

\* A refresh that moves on to its next stage, with the newest run of them all if
\* it was asking, stays in its place.
LEMMA AdvanceKeepsQueue ==
  ASSUME PublishAssumption, PublishTypeOK, QueueInOrder,
         NEW k \in Refreshes, NEW st, NEW next, FirstAt(k, st),
         \/ st = "asked" /\ next = "fetched"
         \/ st = "fetched" /\ next = "noticing" /\ got' = got,
         order' = order, stage' = [stage EXCEPT ![k] = next],
         \A j \in Refreshes : j # k => got'[j] = got[j],
         \A j \in Refreshes : st = "asked" /\ HasRun(j) => got[j].run <= got'[k].run
  PROVE  /\ stage' \in [Refreshes -> {"idle", "asked", "fetched", "noticing"}]
         /\ ToSet(order') = {j \in Refreshes : stage'[j] # "idle"}
         /\ QueueInOrder'
<1> DEFINE p == PlaceOf(k)
<1>1. /\ stage[k] = st /\ p \in DOMAIN order /\ order[p] = k
      /\ \A i \in DOMAIN order : order[i] = k => i = p
      /\ \A i \in DOMAIN order : i < p => stage[order[i]] # st
  BY FirstIsFirst
<1>2. /\ DOMAIN order = 1..Len(order) /\ Len(order) \in Nat
      /\ \A i \in DOMAIN order : order[i] \in Refreshes /\ stage[order[i]] # "idle"
  BY LenProperties DEF PublishTypeOK, ToSet
<1> HIDE DEF p
<1>3. /\ stage' \in [Refreshes -> {"idle", "asked", "fetched", "noticing"}]
      /\ stage'[k] = next /\ next # "idle"
      /\ \A j \in Refreshes : j # k => stage'[j] = stage[j]
  BY DEF PublishTypeOK
<1>4. \A i \in DOMAIN order :
        Rank(stage[order[i]]) \in 0..3 /\ stage[order[i]] \in {"asked", "fetched", "noticing"}
  BY <1>2, RanksTell DEF PublishTypeOK
<1>5. ToSet(order') = {j \in Refreshes : stage'[j] # "idle"}
  BY <1>1, <1>3 DEF PublishTypeOK
<1>6. QueueInOrder'
  <2> SUFFICES ASSUME NEW i \in DOMAIN order, NEW j \in DOMAIN order, i < j
               PROVE  /\ Rank(stage'[order[i]]) >= Rank(stage'[order[j]])
                      /\ stage'[order[j]] \in {"fetched", "noticing"} =>
                           got'[order[i]].run <= got'[order[j]].run
    BY DEF QueueInOrder, HasRun
  <2>1. /\ Rank(stage[order[i]]) >= Rank(stage[order[j]])
        /\ stage[order[j]] \in {"fetched", "noticing"} => got[order[i]].run <= got[order[j]].run
        /\ order[i] \in Refreshes /\ order[j] \in Refreshes
    BY <1>2 DEF QueueInOrder, HasRun
  <2>2. CASE i # p /\ j # p
    <3>1. /\ stage'[order[i]] = stage[order[i]] /\ got'[order[i]] = got[order[i]]
          /\ stage'[order[j]] = stage[order[j]] /\ got'[order[j]] = got[order[j]]
      BY <1>1, <1>3, <2>1, <2>2
    <3> QED BY <2>1, <3>1
  <2>3. CASE i = p
    <3>1. j # p
      BY <1>2, <2>3
    <3>2. stage'[order[j]] = stage[order[j]] /\ got'[order[j]] = got[order[j]]
      BY <1>1, <1>3, <2>1, <3>1
    <3>3. Rank(next) >= Rank(st)
      BY DEF Rank
    <3>4. order[i] = k /\ stage[order[i]] = st /\ stage'[order[i]] = next
      BY <1>1, <1>3, <2>3
    <3>5. Rank(stage'[order[i]]) >= Rank(stage'[order[j]])
      BY <1>4, <2>1, <3>2, <3>3, <3>4, RanksTell
    <3>6. st = "asked" => stage[order[j]] \notin {"fetched", "noticing"}
      BY <2>1, <3>4 DEF Rank
    <3> QED BY <2>1, <3>2, <3>4, <3>5, <3>6
  <2>4. CASE j = p
    <3>1. i # p
      BY <1>2, <2>4
    <3>2. stage'[order[i]] = stage[order[i]] /\ got'[order[i]] = got[order[i]]
      BY <1>1, <1>3, <2>1, <3>1
    <3>3. order[j] = k /\ stage[order[j]] = st /\ stage'[order[j]] = next
      BY <1>1, <1>3, <2>4
    <3>4. stage[order[i]] # st
      BY <1>1, <2>4
    <3>5. Rank(stage[order[i]]) >= Rank(next) /\ HasRun(order[i])
      BY <1>4, <2>1, <3>3, <3>4 DEF Rank, HasRun
    <3> QED BY <2>1, <3>2, <3>3, <3>5
  <2> QED BY <2>2, <2>3, <2>4
<1> QED BY <1>3, <1>5, <1>6

\* Whoever is first of those furthest on has the oldest run under way.
LEMMA HeadHasTheOldest ==
  ASSUME PublishTypeOK, QueueInOrder, NEW k \in Refreshes,
         \/ FirstAt(k, "noticing")
         \/ FirstAt(k, "fetched") /\ (\A j \in Refreshes : stage[j] # "noticing"),
         NEW j \in Refreshes, j # k, HasRun(j)
  PROVE  got[k].run <= got[j].run
<1> DEFINE p == PlaceOf(k)
<1>1. /\ HasRun(k) /\ p \in DOMAIN order /\ order[p] = k
      /\ \A i \in DOMAIN order : i < p => stage[order[i]] # stage[k]
  BY FirstIsFirst DEF HasRun
<1>2. PICK i \in DOMAIN order : order[i] = j
  BY PlaceIsFound DEF HasRun
<1> HIDE DEF p
<1>3. DOMAIN order \subseteq Int /\ i # p
  BY <1>1, <1>2, LenProperties DEF PublishTypeOK
<1>4. CASE i < p
  <2>1. Rank(stage[j]) >= Rank(stage[k]) /\ stage[j] # stage[k]
    BY <1>1, <1>2, <1>4 DEF QueueInOrder
  <2>2. \/ stage[k] = "noticing"
        \/ stage[k] = "fetched" /\ stage[j] # "noticing"
    BY DEF FirstAt
  <2> QED BY <2>1, <2>2 DEF Rank, HasRun
<1>5. CASE p < i
  BY <1>1, <1>2, <1>5 DEF QueueInOrder
<1> QED BY <1>1, <1>3, <1>4, <1>5

-----------------------------------------------------------------------------
(* The clock *)

\* A quotient as its multiples bound it, and a number as its quotient gives it.
LEMMA QuotientIs ==
  ASSUME NEW d \in Nat \ {0}, NEW a \in Nat
  PROVE  a \div d \in Nat /\ d * (a \div d) <= a /\ a < d * (a \div d) + d
<1>1. a \div d \in Nat
  OBVIOUS
<1>2. PICK q \in Nat : q = a \div d
  BY <1>1
<1>3. d * q <= a
  BY <1>2
<1>4. a < d * q + d
  BY <1>2
<1> QED BY <1>2, <1>3, <1>4

LEMMA DivisionIs ==
  ASSUME NEW d \in Nat \ {0}, NEW q \in Nat, NEW r \in 0..(d - 1)
  PROVE  (d * q + r) \div d = q /\ (d * q + r) % d = r
  OBVIOUS

\* A slot comes again within a day, after now.
LEMMA NextFireIsAhead ==
  ASSUME PublishAssumption, NEW s \in Slots, clock \in Nat
  PROVE  NextFire(s) \in Nat /\ NextFire(s) > clock
<1> DEFINE S == {t \in (clock + 1)..(clock + Day) : t % Day = s}
<1>1. Day \in Nat \ {0} /\ s \in 0..(Day - 1)
  BY DEF PublishAssumption
<1>2. PICK q \in Nat : q = clock \div Day /\ Day * q <= clock /\ clock < Day * q + Day
  BY <1>1, QuotientIs
<1>3. PICK m \in Nat : m = Day * q
  BY <1>1, <1>2
<1>4. Day * (q + 1) = m + Day
  BY <1>1, <1>2, <1>3
<1>5. (m + s) % Day = s
  BY <1>1, <1>2, <1>3, DivisionIs
<1>6. (m + Day + s) % Day = s
  <2>1. q + 1 \in Nat
    BY <1>2
  <2>2. (Day * (q + 1) + s) % Day = s
    BY <1>1, <2>1, DivisionIs
  <2> QED BY <1>4, <2>2
<1>7. S # {} /\ S \in SUBSET Nat
  <2>1. CASE m + s > clock
    <3>1. m + s \in S
      BY <1>1, <1>2, <1>3, <1>5, <2>1
    <3> QED BY <3>1
  <2>2. CASE ~(m + s > clock)
    <3>1. m + Day + s \in S
      BY <1>1, <1>2, <1>3, <1>6, <2>2
    <3> QED BY <3>1
  <2> QED BY <2>1, <2>2
<1>8. Min(S) \in S
  <2>1. \E x \in S : \A y \in S : x <= y
    BY <1>7, LeastExists
  <2> QED BY <2>1 DEF Min
<1> QED BY <1>8 DEF NextFire

-----------------------------------------------------------------------------
(* The invariant *)

PublishInv ==
  PublishTypeOK /\ QueueInOrder /\ RunsAreBehind /\ PhasesHold /\ SlotsStayArmed

LEMMA RunsAreRuns ==
  ASSUME PublishAssumption, PublishTypeOK
  PROVE  /\ \A x \in Runs \union {Absent} : x \in Int /\ x >= Absent
         /\ {newest, held, data, cache.run, orphan.run} \subseteq Runs \union {Absent}
         /\ \A k \in Refreshes : got[k].run \in Runs \union {Absent}
         /\ Absent = -1
  BY RunsAreTicks DEF PublishTypeOK, Saves, Absent

\* Nothing is under way of an entry with an empty queue.
LEMMA EmptyIsIdle ==
  ASSUME PublishTypeOK, order = <<>>
  PROVE  \A k \in Refreshes : stage[k] = "idle"
  BY EmptySeq DEF PublishTypeOK, ToSet

LEMMA QueueStands ==
  ASSUME QueueInOrder, UNCHANGED tasks
  PROVE  QueueInOrder'
  BY DEF QueueInOrder, HasRun, tasks

LEMMA InitHolds ==
  ASSUME PublishAssumption, PublishInit
  PROVE  PublishInv
<1> USE DEF PublishInit
<1>1. order \in Seq(Refreshes) /\ Len(order) = 0 /\ DOMAIN order = {}
  BY EmptySeq
<1>2. PublishTypeOK
  BY <1>1, RunsAreTicks DEF PublishTypeOK, IsInjective, ToSet
<1>3. QueueInOrder
  BY <1>1 DEF QueueInOrder
<1>4. RunsAreBehind
  BY DEF RunsAreBehind, HasRun, NoCache, Absent
<1> QED BY <1>1, <1>2, <1>3, <1>4 DEF PublishInv, PhasesHold, SlotsStayArmed

LEMMA ClockKeeps ==
  ASSUME PublishAssumption, PublishInv, ClockTick \/ PublishRun
  PROVE  PublishInv'
<1> USE DEF PublishInv
<1>1. UNCHANGED <<held, phase, slotTimers, tasks, served, cache, orphan>>
  BY DEF ClockTick, PublishRun
<1>2. /\ clock \in Nat /\ clock' \in Nat /\ clock' >= clock /\ clock' \in Ticks
      /\ newest' \in Runs \union {Absent} /\ newest <= newest'
  <2>1. clock \in Ticks /\ clock \in Nat /\ newest \in Runs \union {Absent} /\ newest \in Int
    BY RunsAreRuns, RunsAreTicks DEF PublishTypeOK
  <2>2. CASE ClockTick
    BY <2>1, <2>2 DEF ClockTick, Ticks, PublishAssumption
  <2>3. CASE PublishRun
    BY <2>1, <2>3, RunsAreTicks DEF PublishRun
  <2> QED BY <2>2, <2>3
<1>3. PublishTypeOK'
  BY <1>1, <1>2 DEF PublishTypeOK, slotTimers, tasks, served
<1>4. QueueInOrder'
  BY <1>1, QueueStands
<1>5. RunsAreBehind'
  <2>1. newest \in Int /\ newest' \in Int /\ held \in Int /\ data \in Int /\ cache.run \in Int
    BY <1>2, RunsAreRuns
  <2> QED BY <1>1, <1>2, <2>1 DEF RunsAreBehind, HasRun, tasks, served
<1>6. PhasesHold'
  BY <1>1 DEF PhasesHold, tasks, served, slotTimers
<1>7. SlotsStayArmed'
  BY <1>1, <1>2 DEF SlotsStayArmed, slotTimers, ClockTick, PublishRun, SlotDue, PublishTypeOK, Absent
<1> QED BY <1>3, <1>4, <1>5, <1>6, <1>7

\* Asking for a refresh keeps every part of the invariant but what the phase
\* says of the queue.
LEMMA AskKeeps ==
  ASSUME PublishAssumption, PublishInv, NEW k \in Refreshes, stage[k] = "idle", AskRefresh(k)
  PROVE  /\ order' \in Seq(Refreshes) /\ IsInjective(order')
         /\ Len(order') = Len(order) + 1
         /\ stage' \in [Refreshes -> {"idle", "asked", "fetched", "noticing"}]
         /\ ToSet(order') = {j \in Refreshes : stage'[j] # "idle"}
         /\ QueueInOrder' /\ got' = got
         /\ \A j \in Refreshes : stage'[j] \in {"fetched", "noticing"} <=> HasRun(j)
         /\ \A j \in Refreshes : stage'[j] = "noticing" <=> stage[j] = "noticing"
<1>1. stage' = [stage EXCEPT ![k] = "asked"] /\ got' = got
  BY DEF AskRefresh
<1> QED BY <1>1, AskKeepsQueue DEF PublishInv, HasRun, PublishTypeOK

LEMMA SlotKeeps ==
  ASSUME PublishAssumption, PublishInv, NEW s \in Slots, SlotFires(s)
  PROVE  PublishInv'
<1> USE DEF PublishInv
<1>1. UNCHANGED <<world, phase, halted, served, cache, orphan>> /\ clock \in Nat
  BY RunsAreTicks DEF SlotFires, PublishTypeOK
<1>2. phase = "loaded" /\ ~halted
  BY DEF SlotFires, SlotDue, SlotsStayArmed, PhasesHold, PublishTypeOK
<1>3. pending' = [pending EXCEPT ![s] = NextFire(s)]
  BY <1>2 DEF SlotFires, Armed
<1>4. NextFire(s) \in Nat /\ NextFire(s) > clock
  BY <1>1, NextFireIsAhead
<1>5. pending' \in [Slots -> Nat \union {Absent}]
  BY <1>3, <1>4 DEF PublishTypeOK
<1>6. SlotsStayArmed'
  BY <1>1, <1>2, <1>3, <1>4 DEF SlotsStayArmed, PublishTypeOK, world
<1>7. CASE UNCHANGED tasks
  <2>1. PublishTypeOK'
    BY <1>1, <1>5, <1>7 DEF PublishTypeOK, world, tasks, served
  <2>2. RunsAreBehind'
    BY <1>1, <1>7 DEF RunsAreBehind, HasRun, world, tasks, served
  <2>3. PhasesHold'
    BY <1>1, <1>7 DEF PhasesHold, tasks, served
  <2> QED BY <1>6, <1>7, <2>1, <2>2, <2>3, QueueStands
<1>8. CASE stage[SlotRefresh(s)] = "idle" /\ AskRefresh(SlotRefresh(s))
  <2>1. SlotRefresh(s) \in Refreshes
    BY DEF Refreshes
  <2>2. PublishTypeOK' /\ QueueInOrder'
    BY <1>1, <1>5, <1>8, <2>1, AskKeeps DEF PublishTypeOK, world, served
  <2>3. RunsAreBehind'
    BY <1>1, <1>8, <2>1, AskKeeps DEF RunsAreBehind, HasRun, world, served
  <2>4. PhasesHold'
    BY <1>1, <1>2, <1>8, <2>1, AskKeeps DEF PhasesHold, served
  <2> QED BY <1>6, <2>2, <2>3, <2>4
<1> QED BY <1>7, <1>8 DEF SlotFires

LEMMA ForceKeeps ==
  ASSUME PublishAssumption, PublishInv, ForceRefit
  PROVE  PublishInv'
<1> USE DEF PublishInv
<1>1. /\ UNCHANGED <<world, phase, slotTimers, served, cache, orphan>> /\ phase = "loaded"
      /\ ServiceRefresh \in Refreshes /\ stage[ServiceRefresh] = "idle"
      /\ AskRefresh(ServiceRefresh)
  BY DEF ForceRefit, Refreshes
<1>2. PublishTypeOK' /\ QueueInOrder'
  BY <1>1, AskKeeps DEF PublishTypeOK, world, served, slotTimers
<1>3. RunsAreBehind'
  BY <1>1, AskKeeps DEF RunsAreBehind, HasRun, world, served
<1>4. PhasesHold' /\ SlotsStayArmed'
  BY <1>1, AskKeeps DEF PhasesHold, SlotsStayArmed, world, served, slotTimers
<1> QED BY <1>2, <1>3, <1>4

LEMMA SetUpKeeps ==
  ASSUME PublishAssumption, PublishInv, SetUp
  PROVE  PublishInv'
<1> USE DEF PublishInv
<1> DEFINE k == IF Cached THEN DelayedRefresh ELSE SetupRefresh
<1>1. /\ UNCHANGED <<world, pending, cache, orphan>>
      /\ phase = "off" /\ phase' = "loading" /\ halted' = FALSE
      /\ stale' = FALSE /\ firstDone' = FALSE
      /\ data' \in {cache.run, Absent}
      /\ k \in Refreshes /\ AskRefresh(k)
  BY DEF SetUp, Refreshes
<1>2. order = <<>> /\ Len(order) = 0 /\ \A j \in Refreshes : stage[j] = "idle"
  BY <1>1, EmptyIsIdle, EmptySeq DEF PhasesHold
<1> HIDE DEF k
<1>3. PublishTypeOK' /\ QueueInOrder'
  <2>1. data' \in Runs \union {Absent}
    BY <1>1, RunsAreRuns
  <2> QED BY <1>1, <1>2, <2>1, AskKeeps DEF PublishTypeOK, world
<1>4. RunsAreBehind'
  <2>1. data' <= newest /\ (held # Absent => data' <= held)
    BY <1>1, RunsAreRuns DEF RunsAreBehind
  <2> QED BY <1>1, <1>2, <2>1, AskKeeps DEF RunsAreBehind, HasRun, world
<1>5. PhasesHold'
  <2>1. Len(order') = 1 /\ \A j \in Refreshes : stage'[j] # "noticing"
    BY <1>1, <1>2, AskKeeps
  <2> QED BY <1>1, <2>1 DEF PhasesHold
<1>6. SlotsStayArmed'
  BY <1>1 DEF SlotsStayArmed
<1> QED BY <1>3, <1>4, <1>5, <1>6

LEMMA StartKeeps ==
  ASSUME PublishAssumption, PublishInv, StartScheduler
  PROVE  PublishInv'
<1> USE DEF PublishInv, StartScheduler
<1>1. \A s \in Slots : NextFire(s) \in Nat /\ NextFire(s) > clock
  BY NextFireIsAhead, RunsAreTicks DEF PublishTypeOK
<1>2. PublishTypeOK'
  BY <1>1 DEF PublishTypeOK, world, tasks, served
<1>3. RunsAreBehind'
  BY DEF RunsAreBehind, HasRun, world, tasks, served
<1>4. PhasesHold'
  BY DEF PhasesHold, tasks, served
<1>5. SlotsStayArmed'
  <2>1. clock' = clock /\ clock \in Nat
    BY RunsAreTicks DEF world, PublishTypeOK
  <2>2. ASSUME NEW s \in Slots PROVE pending'[s] >= clock'
    BY <1>1, <2>1
  <2> QED BY <2>2 DEF SlotsStayArmed
<1> QED BY <1>2, <1>3, <1>4, <1>5, QueueStands

LEMMA TearDownKeeps ==
  ASSUME PublishAssumption, PublishInv, UnloadRegion \/ RegionCrash
  PROVE  PublishInv'
<1> USE DEF PublishInv
<1>1. /\ phase' = "off" /\ halted' = TRUE
      /\ pending' = [s \in Slots |-> Absent]
      /\ order' = <<>> /\ stage' = [k \in Refreshes |-> "idle"]
      /\ got' = [k \in Refreshes |-> NoCache]
      /\ data' = Absent /\ stale' = FALSE /\ firstDone' = FALSE
      /\ UNCHANGED <<clock, newest, cache>>
  BY DEF UnloadRegion, RegionCrash, TornDown, world
<1>2. \/ held' = held /\ orphan' \in {orphan, got[ServiceRefresh]}
      \/ held' = Absent /\ orphan' = NoCache
  BY DEF UnloadRegion, RegionCrash, world
<1>3. ServiceRefresh \in Refreshes /\ got[ServiceRefresh] \in Saves
  BY DEF Refreshes, PublishTypeOK
<1>4. PublishTypeOK'
  <2>1. order' \in Seq(Refreshes) /\ DOMAIN order' = {}
    BY <1>1, EmptySeq
  <2>2. IsInjective(order') /\ ToSet(order') = {}
    BY <2>1 DEF IsInjective, ToSet
  <2>3. held' \in Runs \union {Absent} /\ orphan' \in Saves
    BY <1>2, <1>3, RunsAreTicks DEF PublishTypeOK
  <2> QED BY <1>1, <2>1, <2>2, <2>3, RunsAreTicks DEF PublishTypeOK
<1>5. QueueInOrder'
  BY <1>1, EmptySeq DEF QueueInOrder
<1>6. RunsAreBehind'
  <2>1. held' <= newest /\ Absent <= held' /\ orphan'.run <= held' /\ (held' # Absent => cache.run <= held')
    BY <1>2, <1>3, RunsAreRuns DEF RunsAreBehind, NoCache
  <2>2. Absent <= newest /\ NoCache.run = Absent
    BY RunsAreRuns DEF NoCache
  <2> QED BY <1>1, <2>1, <2>2 DEF RunsAreBehind, HasRun
<1>7. PhasesHold' /\ SlotsStayArmed'
  BY <1>1 DEF PhasesHold, SlotsStayArmed
<1> QED BY <1>4, <1>5, <1>6, <1>7

LEMMA OrphanKeeps ==
  ASSUME PublishAssumption, PublishInv, OrphanSaves
  PROVE  PublishInv'
<1> USE DEF PublishInv, OrphanSaves
<1>1. PublishTypeOK'
  BY RunsAreTicks DEF PublishTypeOK, world, slotTimers, tasks, served
<1>2. RunsAreBehind'
  BY RunsAreRuns DEF RunsAreBehind, HasRun, world, tasks, served, NoCache
<1>3. PhasesHold' /\ SlotsStayArmed'
  BY DEF PhasesHold, SlotsStayArmed, world, slotTimers, tasks, served
<1> QED BY <1>1, <1>2, <1>3, QueueStands

\* The queue has a place for whoever has its turn, so the entry is not gone.
LEMMA UnderWay ==
  ASSUME PublishInv, NEW k \in Refreshes, stage[k] # "idle"
  PROVE  Len(order) \in Nat \ {0} /\ phase # "off"
<1>1. PlaceOf(k) \in DOMAIN order
  BY PlaceIsFound DEF PublishInv
<1>2. DOMAIN order = 1..Len(order) /\ Len(order) \in Nat
  BY LenProperties DEF PublishInv, PublishTypeOK
<1>3. Len(order) # 0
  BY <1>1, <1>2
<1> QED BY <1>2, <1>3, EmptySeq DEF PublishInv, PhasesHold

LEMMA FetchedKeeps ==
  ASSUME PublishAssumption, PublishInv, NEW k \in Refreshes, RunFetched(k)
  PROVE  PublishInv'
<1> USE DEF PublishInv
<1>1. PICK r \in {newest, held} \ {Absent} :
        held' = r /\ got' = [got EXCEPT ![k] = [run |-> r, at |-> clock]]
  BY DEF RunFetched
<1>2. /\ FirstAt(k, "asked") /\ stage' = [stage EXCEPT ![k] = "fetched"] /\ stale' = FALSE
      /\ UNCHANGED <<clock, newest, phase, slotTimers, order, data, firstDone, cache, orphan>>
  BY DEF RunFetched
<1>3. /\ r \in Runs /\ r \in Int /\ held <= r /\ data <= r /\ cache.run <= r
      /\ r <= newest
  BY RunsAreRuns DEF RunsAreBehind
<1>4. /\ got' \in [Refreshes -> Saves] /\ got'[k].run = r
      /\ \A j \in Refreshes : j # k => got'[j] = got[j]
  BY <1>1, <1>3 DEF PublishTypeOK, Saves
<1>5. ASSUME NEW j \in Refreshes PROVE got[j].run \in Int /\ got[j].run <= r
  <2>1. got[j].run \in Int /\ held \in Int
    BY RunsAreRuns
  <2>2. got[j].run <= held
    BY DEF RunsAreBehind
  <2> QED BY <1>3, <2>1, <2>2
<1>6. /\ stage' \in [Refreshes -> {"idle", "asked", "fetched", "noticing"}]
      /\ ToSet(order') = {j \in Refreshes : stage'[j] # "idle"}
      /\ QueueInOrder'
  BY <1>2, <1>4, <1>5, AdvanceKeepsQueue
<1>7. PublishTypeOK'
  <2>1. newest' \in Runs \union {Absent} /\ held' \in Runs \union {Absent}
        /\ data' \in Runs \union {Absent} /\ clock' \in Ticks
    BY <1>1, <1>2, <1>3 DEF PublishTypeOK
  <2>2. order' \in Seq(Refreshes) /\ IsInjective(order')
    BY <1>2 DEF PublishTypeOK
  <2>3. /\ phase' \in {"off", "loading", "loaded"} /\ pending' \in [Slots -> Nat \union {Absent}]
        /\ halted' \in BOOLEAN /\ {cache', orphan'} \subseteq Saves
        /\ stale' \in BOOLEAN /\ firstDone' \in BOOLEAN
    BY <1>2 DEF PublishTypeOK, slotTimers
  <2> QED BY <1>4, <1>6, <2>1, <2>2, <2>3 DEF PublishTypeOK
<1>8. RunsAreBehind'
  <2>1. ASSUME NEW j \in Refreshes
        PROVE  /\ got'[j].run <= held'
               /\ stage'[j] \in {"fetched", "noticing"} => got'[j].run # Absent /\ data' <= got'[j].run
    <3>1. CASE j = k
      BY <1>1, <1>2, <1>3, <1>4, <3>1, RunsAreTicks
    <3>2. CASE j # k
      <4>1. stage'[j] = stage[j] /\ got'[j] = got[j]
        BY <1>2, <1>4, <3>2 DEF PublishTypeOK
      <4> QED BY <1>1, <1>2, <1>5, <4>1 DEF RunsAreBehind, HasRun
    <3> QED BY <3>1, <3>2
  <2>2. orphan.run <= r
    <3>1. orphan.run \in Int /\ held \in Int
      BY RunsAreRuns
    <3> QED BY <1>3, <3>1 DEF RunsAreBehind
  <2>3. /\ held' <= newest' /\ data' <= newest' /\ cache'.run <= newest'
        /\ orphan'.run <= held' /\ data' <= held' /\ cache'.run <= held'
    <3>1. held' = r
      BY <1>1
    <3>2. /\ newest' = newest /\ data' = data /\ orphan'.run = orphan.run
          /\ cache'.run = cache.run
      BY <1>2
    <3>3. newest \in Int /\ data <= newest /\ cache.run <= newest
      BY RunsAreRuns DEF RunsAreBehind
    <3> QED BY <1>3, <2>2, <3>1, <3>2, <3>3
  <2> QED BY <2>1, <2>3 DEF RunsAreBehind, HasRun
<1>9. PhasesHold' /\ SlotsStayArmed'
  <2>1. \A j \in Refreshes : stage'[j] = "noticing" => stage[j] = "noticing"
    BY <1>2 DEF PublishTypeOK
  <2> QED BY <1>2, <2>1 DEF PhasesHold, SlotsStayArmed, slotTimers
<1> QED BY <1>6, <1>7, <1>8, <1>9

\* What ends keeps the invariant when what it serves and saves is behind what
\* the others have, and an entry it ends had nothing else under way.
LEMMA EndKeeps ==
  ASSUME PublishAssumption, PublishInv, NEW k \in Refreshes, stage[k] # "idle", Ended(k),
         UNCHANGED <<world, pending, orphan>>,
         stale' \in BOOLEAN, firstDone' \in BOOLEAN, halted' \in BOOLEAN,
         \/ data' = data /\ cache' = cache
         \/ HasRun(k) /\ data' = got[k].run /\ cache' \in {cache, got[k]}
            /\ (\A j \in Refreshes : j # k /\ HasRun(j) => got[k].run <= got[j].run),
         \/ phase' = phase /\ halted' = halted
         \/ data = Absent /\ data' = data /\ phase' = "off",
         ~firstDone' => ~firstDone
  PROVE  PublishInv'
<1> USE DEF PublishInv
<1>1. /\ order' \in Seq(Refreshes) /\ IsInjective(order') /\ Len(order') = Len(order) - 1
      /\ stage' \in [Refreshes -> {"idle", "asked", "fetched", "noticing"}]
      /\ ToSet(order') = {j \in Refreshes : stage'[j] # "idle"}
      /\ got' \in [Refreshes -> Saves] /\ QueueInOrder'
  BY EndedKeepsQueue
<1>2. /\ stage'[k] = "idle" /\ got'[k] = NoCache
      /\ \A j \in Refreshes : j # k => stage'[j] = stage[j] /\ got'[j] = got[j]
  BY DEF Ended, PublishTypeOK
<1>3. Len(order) \in Nat \ {0} /\ phase # "off"
  BY UnderWay
<1>4. PublishTypeOK'
  <2>1. data' \in Runs \union {Absent} /\ cache' \in Saves
    BY RunsAreRuns DEF PublishTypeOK
  <2>2. phase' \in {"off", "loading", "loaded"}
    BY DEF PublishTypeOK
  <2> QED BY <1>1, <2>1, <2>2 DEF PublishTypeOK, world
<1>5. RunsAreBehind'
  <2>1. /\ data' <= newest /\ cache'.run <= newest
        /\ held # Absent => data' <= held /\ cache'.run <= held
    BY RunsAreRuns DEF RunsAreBehind
  <2>2. ASSUME NEW j \in Refreshes
        PROVE  /\ got'[j].run <= held
               /\ stage'[j] \in {"fetched", "noticing"} => got'[j].run # Absent /\ data' <= got'[j].run
    <3>1. CASE j = k
      BY <1>2, <3>1, RunsAreRuns DEF NoCache
    <3>2. CASE j # k
      <4>1. stage'[j] = stage[j] /\ got'[j] = got[j]
        BY <1>2, <3>2
      <4>2. got[j].run <= held /\ (HasRun(j) => got[j].run # Absent /\ data <= got[j].run)
        BY DEF RunsAreBehind
      <4>3. HasRun(j) => data' <= got[j].run
        BY <3>2, <4>2
      <4> QED BY <4>1, <4>2, <4>3 DEF HasRun
    <3> QED BY <3>1, <3>2
  <2> QED BY <2>1, <2>2 DEF RunsAreBehind, HasRun, world
<1>6. PhasesHold'
  <2>1. CASE phase' = phase /\ halted' = halted
    <3>1. data # Absent => data' # Absent
      BY RunsAreRuns DEF RunsAreBehind
    <3>2. Len(order) <= 1 => Len(order') <= 1
      BY <1>1, <1>3
    <3>3. \A j \in Refreshes : stage'[j] = "noticing" => stage[j] = "noticing"
      BY <1>2
    <3> QED BY <1>3, <2>1, <3>1, <3>2, <3>3 DEF PhasesHold
  <2>2. CASE data = Absent /\ data' = data /\ phase' = "off"
    <3>1. phase = "loading"
      BY <1>3, <2>2 DEF PhasesHold, PublishTypeOK
    <3>2. Len(order') = 0
      BY <1>1, <1>3, <3>1 DEF PhasesHold
    <3>3. order' = <<>>
      BY <1>1, <3>2, EmptySeq
    <3>4. \A j \in Refreshes : stage'[j] = "noticing" => stage[j] = "noticing"
      BY <1>2
    <3> QED BY <2>2, <3>3, <3>4 DEF PhasesHold
  <2> QED BY <2>1, <2>2
<1>7. SlotsStayArmed'
  BY <1>3 DEF SlotsStayArmed, world, PhasesHold, PublishTypeOK
<1> QED BY <1>1, <1>4, <1>5, <1>6, <1>7

LEMMA FailsKeeps ==
  ASSUME PublishAssumption, PublishInv, NEW k \in Refreshes, FetchFails(k)
  PROVE  PublishInv'
<1>1. /\ stage[k] # "idle" /\ Ended(k) /\ UNCHANGED <<world, pending, orphan, data, cache, firstDone>>
      /\ stale' \in BOOLEAN /\ halted' \in BOOLEAN /\ firstDone' \in BOOLEAN
  BY DEF FetchFails, FirstAt, PublishInv, PublishTypeOK
<1>2. \/ phase' = phase /\ halted' = halted
      \/ data = Absent /\ phase' = "off"
  BY DEF FetchFails
<1> QED BY <1>1, <1>2, EndKeeps

LEMMA NoticedKeeps ==
  ASSUME PublishAssumption, PublishInv, NEW k \in Refreshes, Noticed(k)
  PROVE  PublishInv'
<1>1. /\ HasRun(k) /\ stage[k] # "idle" /\ Ended(k) /\ data' = got[k].run
      /\ UNCHANGED <<world, pending, orphan, phase, halted, stale, firstDone, cache>>
      /\ stale' \in BOOLEAN /\ halted' \in BOOLEAN /\ firstDone' \in BOOLEAN
  BY DEF Noticed, FirstAt, HasRun, PublishInv, PublishTypeOK, slotTimers
<1>2. \A j \in Refreshes : j # k /\ HasRun(j) => got[k].run <= got[j].run
  BY HeadHasTheOldest DEF Noticed, PublishInv
<1> QED BY <1>1, <1>2, EndKeeps

LEMMA SavedKeeps ==
  ASSUME PublishAssumption, PublishInv, NEW k \in Refreshes, CacheSaved(k)
  PROVE  PublishInv'
<1> USE DEF PublishInv
<1>1. /\ HasRun(k) /\ stage[k] = "fetched" /\ FirstAt(k, "fetched")
      /\ cache' = got[k] /\ firstDone' = TRUE
      /\ UNCHANGED <<world, phase, slotTimers, stale, orphan>>
  BY DEF CacheSaved, FirstAt, HasRun
<1>2. CASE ~firstDone
  <2>1. Ended(k) /\ data' = got[k].run
    BY <1>2 DEF CacheSaved
  <2>2. \A j \in Refreshes : stage[j] # "noticing"
    BY <1>2 DEF PhasesHold
  <2>3. \A j \in Refreshes : j # k /\ HasRun(j) => got[k].run <= got[j].run
    BY <1>1, <2>2, HeadHasTheOldest
  <2>4. stale' \in BOOLEAN /\ halted' \in BOOLEAN /\ UNCHANGED <<pending, phase, halted>>
    BY <1>1 DEF PublishTypeOK, slotTimers
  <2> QED BY <1>1, <2>1, <2>3, <2>4, EndKeeps
<1>3. CASE firstDone
  <2>1. stage' = [stage EXCEPT ![k] = "noticing"] /\ UNCHANGED <<order, got, data>>
    BY <1>3 DEF CacheSaved
  <2>2. /\ stage' \in [Refreshes -> {"idle", "asked", "fetched", "noticing"}]
        /\ ToSet(order') = {j \in Refreshes : stage'[j] # "idle"}
        /\ QueueInOrder'
    BY <1>1, <2>1, AdvanceKeepsQueue
  <2>3. got[k] \in Saves /\ got[k].run <= held /\ held <= newest /\ got[k].run \in Int
    BY RunsAreRuns DEF RunsAreBehind, PublishTypeOK
  <2>4. PublishTypeOK'
    BY <1>1, <2>1, <2>2, <2>3 DEF PublishTypeOK, world, slotTimers
  <2>5. RunsAreBehind'
    <3>1. \A j \in Refreshes : stage'[j] \in {"fetched", "noticing"} <=> HasRun(j)
      BY <1>1, <2>1 DEF HasRun, PublishTypeOK
    <3>2. cache'.run <= newest /\ (held # Absent => cache'.run <= held)
      BY <1>1, <2>3, RunsAreRuns
    <3> QED BY <1>1, <2>1, <3>1, <3>2 DEF RunsAreBehind, HasRun, world
  <2>6. PhasesHold' /\ SlotsStayArmed'
    BY <1>1, <2>1 DEF PhasesHold, SlotsStayArmed, world, slotTimers
  <2> QED BY <2>2, <2>4, <2>5, <2>6
<1> QED BY <1>2, <1>3 DEF PublishTypeOK

LEMMA PublishStep ==
  ASSUME PublishAssumption, PublishInv, [PublishNext]_publishVars
  PROVE  PublishInv'
<1>1. CASE PublishNext
  BY <1>1, ClockKeeps, SlotKeeps, ForceKeeps, SetUpKeeps, StartKeeps, TearDownKeeps, OrphanKeeps,
     FetchedKeeps, FailsKeeps, NoticedKeeps, SavedKeeps DEF PublishNext
<1>2. CASE UNCHANGED publishVars
  <2>1. UNCHANGED <<world, phase, slotTimers, tasks, served, cache, orphan>>
    BY <1>2 DEF publishVars
  <2>2. PublishTypeOK'
    BY <2>1 DEF PublishInv, PublishTypeOK, world, slotTimers, tasks, served
  <2>3. RunsAreBehind' /\ PhasesHold' /\ SlotsStayArmed'
    BY <2>1 DEF PublishInv, RunsAreBehind, HasRun, PhasesHold, SlotsStayArmed,
                world, slotTimers, tasks, served
  <2> QED BY <2>1, <2>2, <2>3, QueueStands DEF PublishInv
<1> QED BY <1>1, <1>2

\* The invariant holds of every behaviour.
THEOREM PublishInvariant == ASSUME PublishAssumption PROVE PublishSpec => []PublishInv
<1>1. PublishInit => PublishInv
  BY InitHolds
<1>2. PublishInv /\ [PublishNext]_publishVars => PublishInv'
  BY PublishStep
<1> QED BY <1>1, <1>2, PTL DEF PublishSpec

-----------------------------------------------------------------------------
(* What it promises *)

\* The state stays in its domain, and a refresh is in the queue until it ends.
THEOREM PublishTypeCorrect == ASSUME PublishAssumption PROVE PublishSpec => []PublishTypeOK
<1>1. PublishInv => PublishTypeOK
  BY DEF PublishInv
<1> QED BY <1>1, PublishInvariant, PTL

\* Every slot of a loaded entry has a timer ahead, and none is left of one that
\* is gone.
THEOREM SlotsAreArmed == ASSUME PublishAssumption PROVE PublishSpec => []SlotsStayArmed
<1>1. PublishInv => SlotsStayArmed
  BY DEF PublishInv
<1> QED BY <1>1, PublishInvariant, PTL

\* A slot of yesterday is over by now, on whatever day the run held is from: it
\* is a tick, in the past, and its grace is over.
LEMMA YesterdaysSlot ==
  ASSUME PublishAssumption, clock \in Nat, NEW s \in Slots,
         NEW r \in Nat, r \div Day < clock \div Day - 1
  PROVE  \E t \in PastSlots : r < t
<1>1. Day \in Nat \ {0} /\ s \in 0..(Day - 1) /\ s + Grace <= Day /\ Grace \in Nat
  BY DEF PublishAssumption
<1>2. PICK q \in Nat : q = clock \div Day /\ Day * q <= clock
  BY <1>1, QuotientIs
<1>3. PICK p \in Nat : p = r \div Day /\ r < Day * p + Day
  BY <1>1, QuotientIs
<1>4. p + 2 <= q
  BY <1>2, <1>3
<1>5. PICK y \in Nat : y = q - 1
  BY <1>4
<1>6. PICK m \in Nat : m = Day * y
  BY <1>1, <1>5
<1>7. Day * p + Day <= m
  <2>1. PICK g \in Nat : y = p + 1 + g
    BY <1>4, <1>5
  <2>2. Day * (p + 1 + g) = Day * p + Day + Day * g
    BY <1>1, <1>3, <2>1
  <2>3. Day * g \in Nat /\ Day * p \in Nat
    BY <1>1, <1>3, <2>1
  <2> QED BY <1>1, <1>6, <2>1, <2>2, <2>3
<1>8. m + Day <= clock
  <2>1. Day * q = Day * y + Day
    BY <1>1, <1>2, <1>5
  <2> QED BY <1>2, <1>6, <2>1
<1>9. (m + s) \div Day = y /\ (m + s) % Day = s
  BY <1>1, <1>5, <1>6, DivisionIs
<1>10. m + s \in 0..clock /\ m + s + Grace <= clock /\ r < m + s
  <2>1. Day * p \in Nat
    BY <1>1, <1>3
  <2> QED BY <1>1, <1>3, <1>6, <1>7, <1>8, <2>1
<1>11. m + s \in PastSlots
  BY <1>2, <1>5, <1>9, <1>10 DEF PastSlots
<1> QED BY <1>10, <1>11

\* A run that came out and whose grace is over is the one served, or older than
\* it, or the entities say they are stale.
THEOREM MissedIsTold == ASSUME PublishAssumption PROVE PublishSpec => []MissedRunIsTold
<1>1. ASSUME PublishInv PROVE MissedRunIsTold
  <2> SUFFICES ASSUME data # Absent, ~IsStale,
                      NEW r \in Runs, r <= newest, r + Grace <= clock
               PROVE  r <= data
    BY DEF MissedRunIsTold
  <2>1. /\ clock \in Nat /\ r \in Nat /\ data \in Int /\ r % Day \in Slots
        /\ Day \in Nat \ {0} /\ Grace \in Nat
    <3>1. PublishTypeOK
      BY <1>1 DEF PublishInv
    <3>2. r % Day \in Slots /\ Day \in Nat \ {0} /\ Grace \in Nat
      BY DEF Runs, PublishAssumption
    <3> QED BY <3>1, <3>2, RunsAreTicks, RunsAreRuns DEF PublishTypeOK
  <2>2. \A t \in PastSlots : t <= data
    <3>1. \A t \in PastSlots : t \in Int
      BY DEF PastSlots
    <3>2. \A t \in PastSlots : ~(data < t)
      BY DEF IsStale, MissedSlot
    <3> QED BY <2>1, <3>1, <3>2
  <2>3. CASE r \div Day >= clock \div Day - 1
    <3>1. r \in PastSlots
      BY <2>1, <2>3 DEF PastSlots
    <3> QED BY <2>2, <3>1
  <2>4. CASE r \div Day < clock \div Day - 1
    <3>1. PICK t \in PastSlots : r < t
      BY <2>1, <2>4, YesterdaysSlot
    <3>2. t \in Int
      BY DEF PastSlots
    <3> QED BY <2>1, <2>2, <3>1, <3>2
  <2>5. r \div Day \in Int /\ clock \div Day \in Int
    BY <2>1
  <2> QED BY <2>3, <2>4, <2>5
<1> QED BY <1>1, PublishInvariant, PTL

\* However refreshes overlap, the run served is never replaced by an older one
\* until the entry is unloaded.
THEOREM ServedNeverGoesBack ==
  ASSUME PublishAssumption PROVE PublishSpec => ServedRunNeverGoesBack
<1>1. ASSUME PublishInv, [PublishNext]_publishVars
      PROVE  [data <= data' \/ phase' = "off"]_publishVars
  <2>1. data \in Int
    BY <1>1, RunsAreRuns DEF PublishInv
  <2>2. CASE UNCHANGED data \/ UNCHANGED publishVars
    BY <2>1, <2>2 DEF publishVars
  <2>3. CASE UnloadRegion \/ RegionCrash
    BY <2>3 DEF UnloadRegion, RegionCrash, TornDown
  <2>4. CASE SetUp
    <3>1. data = Absent /\ data' \in {cache.run, Absent}
      BY <1>1, <2>4 DEF SetUp, PublishInv, PhasesHold
    <3> QED BY <1>1, <3>1, RunsAreRuns DEF PublishInv
  <2>5. ASSUME NEW k \in Refreshes, CacheSaved(k) \/ Noticed(k)
        PROVE  data <= data'
    <3>1. HasRun(k) /\ (data' = got[k].run \/ data' = data)
      BY <2>5 DEF CacheSaved, Noticed, FirstAt, HasRun
    <3> QED BY <1>1, <2>1, <3>1 DEF PublishInv, RunsAreBehind
  <2>6. CASE ClockTick \/ PublishRun \/ StartScheduler \/ ForceRefit \/ OrphanSaves
             \/ (\E s \in Slots : SlotFires(s))
             \/ (\E k \in Refreshes : RunFetched(k) \/ FetchFails(k))
    BY <2>2, <2>6 DEF ClockTick, PublishRun, StartScheduler, ForceRefit, OrphanSaves, SlotFires,
                      RunFetched, FetchFails, served
  <2> QED BY <1>1, <2>2, <2>3, <2>4, <2>5, <2>6 DEF PublishNext
<1> QED BY <1>1, PublishInvariant, PTL DEF PublishSpec, ServedRunNeverGoesBack

-----------------------------------------------------------------------------
(* The registry *)

\* What a sensor's registry entry may be.
Entry == [by : {"no", "user", "integration"}, marked : BOOLEAN]

\* A mark is there whenever it will be needed: on what the integration disabled,
\* to undo it, and on what the user then enabled, not to disable it again.
MarksTell ==
  /\ sensors \in [Tariffs -> {Unset} \cup Entry] /\ Unset \notin Entry
  /\ ours \subseteq Tariffs /\ kept \subseteq Tariffs
  /\ \A t \in ours : sensors[t] # Unset /\ sensors[t].by = "integration" /\ sensors[t].marked
  /\ \A t \in kept : sensors[t] # Unset /\ sensors[t].by = "no" /\ (t \notin Defaults \/ sensors[t].marked)

\* The platforms come up: every mark is used or kept.
LEMMA ForwardedKeepsMarks ==
  ASSUME MarksTell, Forwarded
  PROVE  /\ MarksTell'
         /\ \A t \in Tariffs : sensors[t] # Unset =>
              /\ sensors[t].by = "user" => sensors'[t].by = "user"
              /\ t \in kept /\ ~Undo(t) => sensors'[t].by = "no"
              /\ t \in ours /\ Undo(t) => sensors'[t].by = "no"
<1>1. /\ \A t \in Tariffs : sensors'[t] = SyncOne(t, Registered[t])
      /\ sensors' = [t \in Tariffs |-> sensors'[t]]
      /\ ours' = {t \in Tariffs : /\ sensors'[t].by = "integration"
                                  /\ t \in ours \/ Registered[t].by = "no"}
      /\ kept' = {t \in kept : t \notin Defaults \/ ~Undo(t)}
  BY DEF Forwarded
<1>2. \A t \in Tariffs : Registered[t] \in Entry /\ (sensors[t] # Unset => Registered[t] = sensors[t])
  BY DEF Registered, MarksTell, Entry
<1>3. ASSUME NEW t \in Tariffs
      PROVE  /\ sensors'[t] \in Entry
             /\ Undo(t) => sensors'[t].by =
                  IF Registered[t].by = "integration" /\ (t = Wanted \/ Registered[t].marked)
                  THEN "no" ELSE Registered[t].by
             /\ ~Undo(t) => IF Registered[t].by # "no" \/ Registered[t].marked \/ t \notin Defaults
                            THEN sensors'[t] = Registered[t]
                            ELSE sensors'[t] = [by |-> "integration", marked |-> TRUE]
  <2> DEFINE s == Registered[t]
  <2>1. s \in Entry /\ sensors'[t] = SyncOne(t, s)
    BY <1>1, <1>2
  <2> HIDE DEF s
  <2>2. CASE Undo(t)
    <3>1. sensors'[t] = [by |-> IF s.by = "integration" /\ (t = Wanted \/ s.marked) THEN "no" ELSE s.by,
                         marked |-> FALSE]
      BY <2>1, <2>2 DEF SyncOne
    <3> QED BY <2>1, <2>2, <3>1 DEF Entry, s
  <2>3. CASE ~Undo(t)
    <3>1. sensors'[t] = IF s.by # "no" \/ s.marked \/ t \notin Defaults THEN s
                        ELSE [by |-> "integration", marked |-> TRUE]
      BY <2>1, <2>3 DEF SyncOne
    <3> QED BY <2>1, <2>3, <3>1 DEF Entry, s
  <2> QED BY <2>2, <2>3
<1>4. \A t \in Tariffs : sensors[t] # Unset =>
        /\ sensors[t].by = "user" => sensors'[t].by = "user"
        /\ t \in kept /\ ~Undo(t) => sensors'[t].by = "no"
        /\ t \in ours /\ Undo(t) => sensors'[t].by = "no"
  BY <1>2, <1>3 DEF MarksTell, Entry
<1>5. ASSUME NEW t \in ours'
      PROVE  sensors'[t] # Unset /\ sensors'[t].by = "integration" /\ sensors'[t].marked
  BY <1>1, <1>2, <1>3, <1>5 DEF MarksTell, Entry
<1>6. ASSUME NEW t \in kept'
      PROVE  /\ sensors'[t] # Unset /\ sensors'[t].by = "no"
             /\ t \notin Defaults \/ sensors'[t].marked
  BY <1>1, <1>2, <1>3, <1>6 DEF MarksTell, Entry
<1> QED BY <1>1, <1>3, <1>4, <1>5, <1>6 DEF MarksTell, Entry

LEMMA MarksStep ==
  ASSUME MarksTell, [TariffNext]_tariffVars
  PROVE  MarksTell'
<1>1. CASE ForwardPlatforms \/ AmberReports \/ AmberComesOrGoes \/ OptionsChange \/ Restart \/ UNCHANGED tariffVars
  BY <1>1 DEF ForwardPlatforms, AmberReports, AmberComesOrGoes, OptionsChange, Restart, tariffVars, MarksTell
<1>2. CASE Forwarded
  BY <1>2, ForwardedKeepsMarks
<1>3. ASSUME NEW t \in Tariffs, UserEnables(t) \/ UserDisables(t) PROVE MarksTell'
  <2>1. PICK by \in {"no", "user"} : sensors' = [sensors EXCEPT ![t].by = by]
    BY <1>3 DEF UserEnables, UserDisables
  <2>2. sensors[t] \in Entry /\ sensors[t] # Unset
    BY <1>3 DEF UserEnables, UserDisables, MarksTell, Entry
  <2>3. sensors' = [sensors EXCEPT ![t] = [sensors[t] EXCEPT !.by = by]]
    BY <2>1
  <2>4. [sensors[t] EXCEPT !.by = by] \in Entry
    BY <2>2 DEF Entry
  <2>5. /\ sensors'[t] = [sensors[t] EXCEPT !.by = by]
        /\ \A u \in Tariffs \ {t} : sensors'[u] = sensors[u]
        /\ sensors' \in [Tariffs -> {Unset} \cup Entry]
    BY <2>3, <2>4 DEF MarksTell, Entry
  <2>6. sensors'[t] # Unset /\ sensors'[t].by = by /\ sensors'[t].marked = sensors[t].marked
    BY <2>2, <2>4, <2>5 DEF MarksTell, Entry
  <2>7. CASE UserEnables(t)
    BY <2>1, <2>2, <2>5, <2>6, <2>7 DEF UserEnables, MarksTell, Entry
  <2>8. CASE UserDisables(t)
    BY <2>1, <2>2, <2>5, <2>6, <2>8 DEF UserDisables, MarksTell, Entry
  <2> QED BY <1>3, <2>7, <2>8
<1> QED BY <1>1, <1>2, <1>3 DEF TariffNext

\* A sensor the user disabled stays disabled, one the user enabled against the
\* integration stays enabled while it has reason to be off, and what the
\* integration disabled it enables again when the reason is gone: for any
\* tariffs, reports of the site, options and reloads (active_tariff.py).
THEOREM UserChoiceHolds ==
  ASSUME TariffAssumption PROVE TariffSpec => UserChoiceStands
<1> DEFINE Stands == \A t \in Tariffs : sensors[t] # Unset =>
             /\ sensors[t].by = "user" => sensors'[t].by = "user"
             /\ t \in kept /\ ~Undo(t) => sensors'[t].by = "no"
             /\ t \in ours /\ Undo(t) => sensors'[t].by = "no"
<1>1. TariffInit => MarksTell
  BY DEF TariffInit, MarksTell, Entry, TariffAssumption
<1>2. MarksTell /\ [TariffNext]_tariffVars => MarksTell'
  BY MarksStep
<1>3. MarksTell /\ [TariffNext]_tariffVars
        => [load = "forwarding" /\ load' = "loaded" => Stands]_tariffVars
  <2> SUFFICES ASSUME MarksTell, TariffNext, load = "forwarding", load' = "loaded"
               PROVE  Stands
    OBVIOUS
  <2>1. Forwarded
    BY DEF TariffNext, ForwardPlatforms, AmberReports, SiteChanged, AmberComesOrGoes, OptionsChange, Restart,
           UserEnables, UserDisables
  <2> QED BY <2>1, ForwardedKeepsMarks
<1> QED BY <1>1, <1>2, <1>3, PTL DEF TariffSpec, UserChoiceStands

\* The variables keep their types.
THEOREM TariffTypeCorrect == ASSUME TariffAssumption PROVE TariffSpec => []TariffTypeOK
<1> DEFINE OptionsSet == [chosen : Tariffs \union {"auto"}, only : BOOLEAN, days : BOOLEAN]
           Actives == {Unset} \union [t : Tariffs, source : {"option", "amber", "default"}]
           Rest == /\ days27 \subseteq Tariffs /\ options \in OptionsSet
                   /\ amber \in [site : BOOLEAN, says : Reports] /\ active \in Actives
                   /\ watch \in [on : BOOLEAN, key : Tariffs \union {Unset}]
                   /\ load \in {"down", "forwarding", "loaded", "reloading"}
<1>1. TariffInit => MarksTell /\ Rest
  BY DEF TariffInit, MarksTell, Entry, TariffAssumption, Reports, Quiet
<1>2. MarksTell /\ Rest /\ [TariffNext]_tariffVars => MarksTell' /\ Rest'
  <2> SUFFICES ASSUME MarksTell, Rest, [TariffNext]_tariffVars PROVE Rest'
    BY MarksStep
  <2>1. Quiet \in [on : BOOLEAN, key : Tariffs \union {Unset}]
    BY DEF Quiet
  <2>2. CASE ForwardPlatforms
    <3>1. \A a : Detected(a) # Unset => Detected(a) \in Tariffs
      BY DEF Detected
    <3>2. Resolved \in Actives
      BY <3>1 DEF Resolved, TariffAssumption
    <3> QED BY <2>1, <2>2, <3>2 DEF ForwardPlatforms
  <2>3. CASE Forwarded
    <3>1. active # Unset => Wanted \in Tariffs
      BY DEF Wanted
    <3>2. Wanted \in Tariffs \union {Unset}
      BY DEF Wanted
    <3>3. WatchFor \in [on : BOOLEAN, key : Tariffs \union {Unset}]
      BY <2>1, <3>2 DEF WatchFor
    <3> QED BY <2>3, <3>1, <3>3 DEF Forwarded
  <2>4. CASE AmberReports
    <3>1. amber' \in [site : BOOLEAN, says : Reports]
      BY <2>4 DEF AmberReports
    <3>2. watch' \in {watch, Quiet} /\ load' \in {load, "reloading"}
      BY <2>4 DEF AmberReports, SiteChanged
    <3> QED BY <2>1, <2>4, <3>1, <3>2 DEF AmberReports
  <2>5. CASE AmberComesOrGoes
    BY <2>5 DEF AmberComesOrGoes, Reports
  <2>6. CASE OptionsChange
    BY <2>6 DEF OptionsChange
  <2>7. CASE Restart
    BY <2>1, <2>7 DEF Restart
  <2>8. CASE \E t \in Tariffs : UserEnables(t) \/ UserDisables(t)
    BY <2>8 DEF UserEnables, UserDisables
  <2>9. CASE UNCHANGED tariffVars
    BY <2>9 DEF tariffVars
  <2> QED BY <2>2, <2>3, <2>4, <2>5, <2>6, <2>7, <2>8, <2>9 DEF TariffNext
<1>3. MarksTell /\ Rest => TariffTypeOK
  BY DEF MarksTell, Entry, TariffTypeOK
<1> QED BY <1>1, <1>2, <1>3, PTL DEF TariffSpec

-----------------------------------------------------------------------------
(* The writes *)

\* Whoever awaits the memo has a task that does, until the sensor is removed;
\* and a source that is not shown is one whose notice is still to come.
WaitersWait ==
  life = "added" =>
    /\ awaiting => memoTask
    /\ untold \subseteq Silent
    /\ "fit" \in untold => refits > 0 \/ unpushed
    /\ ~memoTask => whole /\ (Sources \ fresh \subseteq untold \/ p5Wait)

\* A handler that writes, writes the latest; one that does not leaves a task.
LEMMA WriteOrWait ==
  ASSUME WaitersWait, life = "added", life' = "added", NEW moved, WriteWhenCalibrated(moved)
  PROVE  WaitersWait'
<1>1. CASE IsCurrent
  BY <1>1 DEF WriteWhenCalibrated, Write, WaitersWait
<1>2. CASE ~IsCurrent
  <2>1. awaiting' = TRUE /\ memoTask' = (memoTask \/ ~awaiting) /\ untold' = {}
    BY <1>2 DEF WriteWhenCalibrated
  <2>2. memoTask'
    BY <2>1 DEF WaitersWait
  <2> QED BY <2>1, <2>2 DEF WaitersWait
<1> QED BY <1>1, <1>2

\* What the sensor does not hear of is counted as untold.
LEMMA UnheardWaits ==
  ASSUME WaitersWait, NEW moved, moved \subseteq Silent, Unheard(moved), life' = life,
         "fit" \in untold' => refits' > 0 \/ unpushed'
  PROVE  WaitersWait'
BY DEF Unheard, WaitersWait, sensorVars

LEMMA HeardWaits ==
  ASSUME WaitersWait, NEW moved, Heard(moved), life' = life
  PROVE  WaitersWait'
<1>1. CASE life = "added"
  BY <1>1, WriteOrWait DEF Heard, Listening
<1>2. CASE life # "added"
  BY <1>2 DEF WaitersWait
<1> QED BY <1>1, <1>2

LEMMA WaitersStep ==
  ASSUME WaitersWait, refits \in Nat, [WritesNext]_(writeVars)
  PROVE  WaitersWait'
<1>1. CASE SensorAdded
  BY <1>1 DEF SensorAdded, Write, WaitersWait, refitVars
<1>2. CASE life # "added" /\ life' = life
  BY <1>2 DEF WaitersWait
<1>3. CASE SensorRemoved
  BY <1>3 DEF SensorRemoved, WaitersWait
<1>4. CASE RunPushed \/ RefitPushed
  BY <1>4, HeardWaits DEF RunPushed, RefitPushed
<1>5. CASE (WaitExpires \/ IntervalTick \/ ForecastRun) /\ life = "added"
  <2>1. life' = "added" /\ \E moved : WriteWhenCalibrated(moved)
    BY <1>5 DEF WaitExpires, IntervalTick, ForecastRun, Listening
  <2> QED BY <1>5, <2>1, WriteOrWait
<1>6. CASE (StpasaSaved \/ FeeSet \/ PublishMemo \/ RunIsDue) /\ life = "added"
  <2>1. life' = life /\ UNCHANGED refitVars
        /\ \E moved : moved \subseteq {"stpasa", "fee"} /\ Unheard(moved)
    BY <1>6 DEF StpasaSaved, FeeSet, PublishMemo, RunIsDue
  <2>2. PICK moved : moved \subseteq {"stpasa", "fee"} /\ Unheard(moved)
    BY <2>1
  <2>3. moved \subseteq Silent /\ ("fit" \in untold' => "fit" \in untold)
    BY <2>2 DEF Unheard, Silent
  <2>4. "fit" \in untold' => refits' > 0 \/ unpushed'
    BY <1>6, <2>1, <2>3 DEF WaitersWait, refitVars
  <2> QED BY <2>1, <2>2, <2>3, <2>4, UnheardWaits
<1>7. CASE (RefitPublishes \/ OlsAttached) /\ life = "added"
  <2>1. life' = life /\ Unheard({"fit"}) /\ refits' > 0
    BY <1>7 DEF RefitPublishes, OlsAttached, refitVars
  <2> QED BY <2>1, UnheardWaits DEF Silent
<1>8. CASE RefitSaveFails
  BY <1>8, UnheardWaits DEF RefitSaveFails, Silent
<1>9. CASE WaitOver
  BY <1>9 DEF WaitOver, Write, WaitersWait
<1>10. CASE DispatchUpdate /\ life = "added"
  <2>1. life' = life
    BY <1>10 DEF DispatchUpdate
  <2>2. CASE Heard({"spot"})
    BY <2>1, <2>2, HeardWaits
  <2>3. CASE p5Wait' = TRUE /\ fresh' = fresh \ {"spot"} /\ UNCHANGED <<sensorVars, untold, refitVars>>
    BY <1>10, <2>1, <2>3 DEF WaitersWait, sensorVars, refitVars
  <2> QED BY <1>10, <2>2, <2>3 DEF DispatchUpdate
<1>11. CASE UNCHANGED writeVars
  BY <1>11 DEF writeVars, sensorVars, refitVars, WaitersWait
<1>12. WritesNext /\ ~SensorAdded /\ ~SensorRemoved => life' = life
  BY DEF WritesNext, RunPushed, RefitPublishes, OlsAttached, RefitPushed, RefitSaveFails, StpasaSaved, FeeSet,
     PublishMemo, WaitOver, RunIsDue, DispatchUpdate, ForecastRun, WaitExpires, IntervalTick
<1> QED BY <1>1, <1>2, <1>3, <1>4, <1>5, <1>6, <1>7, <1>8, <1>9, <1>10, <1>11, <1>12 DEF WritesNext

\* The sources and the refits have their types, and only a sensor that is there
\* waits.
SourcesOK ==
  /\ memoIs \in {"unpublished", "stale", "current"} /\ p5due \in BOOLEAN
  /\ refits \in 0..MaxRefits /\ unpushed \in BOOLEAN
  /\ fresh \subseteq Sources /\ untold \subseteq Sources
SensorOK ==
  /\ life \in {"absent", "added", "removed"} /\ whole \in BOOLEAN
  /\ awaiting \in BOOLEAN /\ memoTask \in BOOLEAN /\ deferred \in BOOLEAN /\ p5Wait \in BOOLEAN
  /\ memoTask => life = "added" /\ awaiting
  /\ p5Wait => life = "added"

\* What the sensor hears of, or does not, is among its sources.
LEMMA MovedOK ==
  ASSUME fresh \subseteq Sources, untold \subseteq Sources, NEW moved, moved \subseteq Sources,
         Unheard(moved) \/ WriteWhenCalibrated(moved)
  PROVE  fresh' \subseteq Sources /\ untold' \subseteq Sources
BY DEF Unheard, WriteWhenCalibrated, Write

LEMMA SourcesStep ==
  ASSUME WritesAssumption, SourcesOK, [WritesNext]_(writeVars)
  PROVE  SourcesOK'
<1> USE DEF SourcesOK, WritesAssumption
<1>1. fresh' \subseteq Sources /\ untold' \subseteq Sources
  <2>1. ASSUME NEW moved, moved \subseteq Sources, Unheard(moved) \/ WriteWhenCalibrated(moved) \/ Heard(moved)
        PROVE  fresh' \subseteq Sources /\ untold' \subseteq Sources
    BY <2>1, MovedOK DEF Heard
  <2>2. CASE SensorAdded \/ SensorRemoved \/ WaitOver \/ UNCHANGED writeVars
    BY <2>2 DEF SensorAdded, SensorRemoved, WaitOver, Write, writeVars
  <2>3. CASE DispatchUpdate
    BY <2>1, <2>3 DEF DispatchUpdate, Sources
  <2>4. CASE ForecastRun
    BY <2>1, <2>4 DEF ForecastRun, Sources
  <2> QED BY <2>1, <2>2, <2>3, <2>4 DEF WritesNext, RunPushed, RefitPublishes, OlsAttached, RefitPushed,
       RefitSaveFails, StpasaSaved, FeeSet, PublishMemo, RunIsDue, WaitExpires, IntervalTick, Sources
<1>2. refits' \in 0..MaxRefits
  BY DEF WritesNext, SensorAdded, SensorRemoved, RunPushed, RefitPublishes, OlsAttached, RefitPushed, RefitSaveFails,
     StpasaSaved, FeeSet, PublishMemo, WaitOver, RunIsDue, DispatchUpdate, ForecastRun, WaitExpires, IntervalTick,
     refitVars, writeVars
<1>4. unpushed' \in BOOLEAN
  BY DEF WritesNext, SensorAdded, SensorRemoved, RunPushed, RefitPublishes, OlsAttached, RefitPushed, RefitSaveFails,
     StpasaSaved, FeeSet, PublishMemo, WaitOver, RunIsDue, DispatchUpdate, ForecastRun, WaitExpires, IntervalTick,
     refitVars, writeVars
<1>3. memoIs' \in {"unpublished", "stale", "current"} /\ p5due' \in BOOLEAN
  BY DEF WritesNext, SensorAdded, SensorRemoved, RunPushed, RefitPublishes, OlsAttached, RefitPushed, RefitSaveFails,
     StpasaSaved, FeeSet, PublishMemo, WaitOver, RunIsDue, DispatchUpdate, ForecastRun, WaitExpires, IntervalTick,
     KeyMoves, writeVars
<1> QED BY <1>1, <1>2, <1>3, <1>4

LEMMA SensorStep ==
  ASSUME SensorOK, [WritesNext]_(writeVars)
  PROVE  SensorOK'
<1> USE DEF SensorOK
<1>1. ASSUME NEW moved, WriteWhenCalibrated(moved), life = "added", life' = "added", p5Wait' \in BOOLEAN
      PROVE  SensorOK'
  <2>1. CASE IsCurrent
    <3>1. deferred' = FALSE /\ whole' = TRUE /\ UNCHANGED <<awaiting, memoTask>>
      BY <1>1, <2>1 DEF WriteWhenCalibrated, Write
    <3> QED BY <1>1, <3>1
  <2>2. CASE ~IsCurrent
    <3>1. awaiting' = TRUE /\ memoTask' \in BOOLEAN /\ UNCHANGED <<deferred, whole>>
      BY <1>1, <2>2 DEF WriteWhenCalibrated
    <3> QED BY <1>1, <3>1
  <2> QED BY <2>1, <2>2
<1>2. ASSUME NEW moved, Unheard(moved), life' = life PROVE SensorOK'
  BY <1>2 DEF Unheard, sensorVars
<1>3. ASSUME NEW moved, Heard(moved), life' = life PROVE SensorOK'
  BY <1>1, <1>2, <1>3 DEF Heard, Listening
<1>4. CASE SensorAdded
  <2>1. deferred' \in BOOLEAN
    BY <1>4 DEF SensorAdded
  <2> QED BY <1>4, <2>1 DEF SensorAdded, Write
<1>5. CASE SensorRemoved
  BY <1>5 DEF SensorRemoved
<1>6. CASE WaitOver
  BY <1>6 DEF WaitOver, Write
<1>7. CASE DispatchUpdate
  <2>1. CASE life = "added" /\ p5Wait' = TRUE /\ UNCHANGED sensorVars
    BY <1>7, <2>1 DEF DispatchUpdate, sensorVars
  <2>2. CASE Heard({"spot"})
    BY <1>3, <1>7, <2>2 DEF DispatchUpdate
  <2> QED BY <1>7, <2>1, <2>2 DEF DispatchUpdate, Listening
<1>8. CASE ForecastRun \/ WaitExpires \/ IntervalTick
  <2>1. CASE life = "added"
    <3>1. life' = "added" /\ p5Wait' \in BOOLEAN /\ \E moved : WriteWhenCalibrated(moved)
      BY <1>8, <2>1 DEF ForecastRun, WaitExpires, IntervalTick, Listening
    <3> QED BY <1>1, <2>1, <3>1
  <2>2. CASE life # "added"
    <3>1. life' = life /\ \E moved : Unheard(moved)
      BY <1>8, <2>2 DEF ForecastRun, WaitExpires, IntervalTick, Listening
    <3> QED BY <1>2, <3>1
  <2> QED BY <2>1, <2>2
<1>9. CASE UNCHANGED writeVars
  BY <1>9 DEF writeVars, sensorVars
<1> QED BY <1>2, <1>3, <1>4, <1>5, <1>6, <1>7, <1>8, <1>9 DEF WritesNext, RunPushed, RefitPublishes, OlsAttached,
     RefitPushed, RefitSaveFails, StpasaSaved, FeeSet, PublishMemo, RunIsDue

\* The variables keep their types, and only a sensor that is there waits.
THEOREM WritesTypeCorrect == ASSUME WritesAssumption PROVE WritesSpec => []WritesTypeOK
<1>1. WritesInit => SourcesOK /\ SensorOK
  <2>1. WritesInit => SourcesOK
    <3>1. 0 \in 0..MaxRefits
      BY DEF WritesAssumption
    <3> QED BY <3>1 DEF WritesInit, SourcesOK
  <2>2. WritesInit => SensorOK
    BY DEF WritesInit, SensorOK
  <2> QED BY <2>1, <2>2
<1>2. SourcesOK /\ SensorOK /\ [WritesNext]_(writeVars) => SourcesOK' /\ SensorOK'
  BY SourcesStep, SensorStep
<1>3. SourcesOK /\ SensorOK => WritesTypeOK
  BY DEF SourcesOK, SensorOK, WritesTypeOK
<1> QED BY <1>1, <1>2, <1>3, PTL DEF WritesSpec

\* Whatever moves in whatever order, a tariff sensor that waits neither for the
\* memo nor for a P5MIN run shows a forecast and the latest of every source it
\* was notified of; a fit it does not show belongs to a refit that is still to
\* push it, or whose save raised (tariff_sensor.py, CalibratedTariffMixin).
THEOREM ShownIsOfNow == ASSUME WritesAssumption PROVE WritesSpec => [](ShownIsCurrent)
<1>1. WritesInit => WaitersWait
  BY DEF WritesInit, WaitersWait
<1>2. WritesTypeOK /\ WaitersWait /\ [WritesNext]_(writeVars) => WaitersWait'
  BY WaitersStep DEF WritesTypeOK, WritesAssumption
<1>3. WaitersWait => ShownIsCurrent
  BY DEF WaitersWait, ShownIsCurrent, Sources
<1> QED BY <1>1, <1>2, <1>3, WritesTypeCorrect, PTL DEF WritesSpec

-----------------------------------------------------------------------------
(* The pre-dispatch record *)

\* An interval's entries are forecasts of it by runs that were kept.
HistoryIsKept(h) ==
  DOMAIN h \subseteq Int /\ \A t \in DOMAIN h : \A e \in h[t] :
    e.run \in 1..time /\ e.at = t /\ e \in RunForecast(e.run)

\* What an observation of an interval and a run is.
Observations ==
  {[at |-> t, run |-> k, x |-> Forecast(k, t + PdPeriod), y |-> Settled(t)] : t \in Int, k \in Nat}

\* The observations are of runs and intervals gone by, one of each pair.
LogIsTrue(l) ==
  /\ l \in Seq(Observations)
  /\ \A i, j \in DOMAIN l : l[i].at = l[j].at /\ l[i].run = l[j].run => i = j
  /\ \A o \in ToSet(l) : o.run \in 1..time /\ o.at <= ClosedInterval(ticked)

\* An interval observed at all is observed with every run a history has of it,
\* and with the run held.
Covers(l, h) ==
  \A o \in ToSet(l) : o.at \in DOMAIN h => \A e \in h[o.at] :
    \E p \in ToSet(l) : p.at = o.at /\ p.run = e.run
CoversHeld(l) ==
  run # Missing => \A o \in ToSet(l) : \A f \in RunForecast(run) :
    f.at = o.at => \E p \in ToSet(l) : p.at = o.at /\ p.run = run

\* The history of a loaded record has all that the disk has, and the run held, but
\* what was pruned.
DiskIsBehind ==
  up => \A t \in DOMAIN onDisk.history :
          IF t \in DOMAIN history THEN onDisk.history[t] \subseteq history[t] ELSE t < RunAt(time)
HeldIsIngested ==
  up /\ run # Missing => \A f \in RunForecast(run) :
    f.at \in DOMAIN history => \E e \in history[f.at] : e.run = run

LedgerInv ==
  /\ time \in 1..MaxHalfHours /\ ticked \in 1..time /\ up \in BOOLEAN
  /\ run \in 1..time \union {Missing} /\ lastRun = (IF up THEN run ELSE Missing)
  /\ asked \in {ClosedInterval(ticked), Missing}
  /\ onDisk = [history |-> onDisk.history, log |-> onDisk.log]
  /\ HistoryIsKept(history) /\ HistoryIsKept(onDisk.history)
  /\ LogIsTrue(log) /\ LogIsTrue(onDisk.log)
  /\ Covers(log, history) /\ Covers(log, onDisk.history)
  /\ Covers(onDisk.log, history) /\ Covers(onDisk.log, onDisk.history)
  /\ CoversHeld(log) /\ CoversHeld(onDisk.log)
  /\ DiskIsBehind /\ HeldIsIngested

\* A finite set as a sequence: each member once.
LEMMA SetAsSeq ==
  ASSUME NEW S, IsFiniteSet(S)
  PROVE  SetToSeq(S) \in Seq(S) /\ IsInjective(SetToSeq(S)) /\ ToSet(SetToSeq(S)) = S
<1> DEFINE n == Cardinality(S)
           f == SetToSeq(S)
<1>1. n \in Nat /\ ExistsBijection(1..n, S)
  BY FS_CardinalityType
<1>2. \E g \in [1..n -> S] : IsInjective(g)
  BY <1>1 DEF ExistsBijection, Bijection, Injection
<1>3. f \in [1..n -> S] /\ IsInjective(f)
  BY <1>2 DEF SetToSeq
<1> HIDE DEF f
<1>4. f \in Seq(S) /\ DOMAIN f = 1..n
  BY <1>1, <1>3
<1> DEFINE T == ToSet(f)
<1>5. T \subseteq S /\ f \in Injection(1..n, T) /\ f \in Surjection(1..n, T)
  BY <1>3, <1>4 DEF ToSet, Injection, Surjection
<1>6. IsFiniteSet(1..n) /\ Cardinality(1..n) = n
  BY <1>1, FS_Interval
<1> HIDE DEF T
<1>7. Cardinality(T) = n
  BY <1>5, <1>6, FS_Surjection
<1>8. T = S
  BY <1>5, <1>7, FS_Subset DEF n
<1> QED BY <1>3, <1>4, <1>8 DEF f, T

LEMMA AppendedSet ==
  ASSUME NEW A, NEW l \in Seq(A), NEW m \in Seq(A)
  PROVE  /\ l \o m \in Seq(A) /\ ToSet(l \o m) = ToSet(l) \union ToSet(m)
         /\ Len(l) \in Nat /\ Len(m) \in Nat
         /\ DOMAIN l = 1..Len(l) /\ DOMAIN m = 1..Len(m) /\ DOMAIN (l \o m) = 1..(Len(l) + Len(m))
         /\ \A i \in 1..Len(l) : (l \o m)[i] = l[i]
         /\ \A i \in 1..Len(m) : (l \o m)[Len(l) + i] = m[i]
<1> DEFINE c == l \o m
<1>1. /\ c \in Seq(A) /\ Len(c) = Len(l) + Len(m)
      /\ \A i \in 1..(Len(l) + Len(m)) : c[i] = IF i <= Len(l) THEN l[i] ELSE m[i - Len(l)]
  BY ConcatProperties
<1>2. Len(l) \in Nat /\ Len(m) \in Nat
  BY LenProperties
<1> HIDE DEF c
<1>3. DOMAIN c = 1..(Len(l) + Len(m)) /\ DOMAIN l = 1..Len(l) /\ DOMAIN m = 1..Len(m)
  BY <1>1, LenProperties
<1>4. ASSUME NEW i \in 1..Len(l) PROVE c[i] = l[i] /\ i \in DOMAIN c
  BY <1>1, <1>2, <1>3
<1>5. ASSUME NEW i \in 1..Len(m) PROVE c[Len(l) + i] = m[i] /\ Len(l) + i \in DOMAIN c
  <2>1. Len(l) + i \in 1..(Len(l) + Len(m)) /\ ~(Len(l) + i <= Len(l)) /\ Len(l) + i - Len(l) = i
    BY <1>2
  <2> QED BY <1>1, <1>3, <2>1
<1>6. ASSUME NEW i \in DOMAIN c PROVE c[i] \in ToSet(l) \union ToSet(m)
  <2>1. CASE i <= Len(l)
    BY <1>1, <1>2, <1>3, <2>1 DEF ToSet
  <2>2. CASE ~(i <= Len(l))
    <3>1. i - Len(l) \in 1..Len(m)
      BY <1>2, <1>3, <2>2
    <3> QED BY <1>1, <1>3, <2>2, <3>1 DEF ToSet
  <2> QED BY <2>1, <2>2
<1>7. ToSet(c) = ToSet(l) \union ToSet(m)
  BY <1>3, <1>4, <1>5, <1>6 DEF ToSet
<1> QED BY <1>1, <1>2, <1>3, <1>4, <1>5, <1>7 DEF c

LEMMA SomeIsLeast == ASSUME NEW S \in SUBSET Nat, S # {} PROVE \E x \in S : \A y \in S : x <= y
<1>1. PICK x \in S : \A y \in S : <<y, x>> \notin OpToRel(<, Nat)
  BY WFMin, NatLessThanWellFounded, Zenon
<1>2. \A y \in S : ~(y < x)
  BY <1>1 DEF OpToRel
<1> QED BY <1>2

\* The multiples of a step, and the difference of two of them.
LEMMA MultiplesApart ==
  ASSUME NEW m \in Nat \ {0}, NEW a \in Nat, NEW b \in Nat, a % m = 0, b % m = 0
  PROVE  (a - b) % m = 0
<1>1. PICK q \in Int : q = a \div m
  OBVIOUS
<1>2. PICK p \in Int : p = b \div m
  OBVIOUS
<1>3. a - (a % m) = m * q
  BY <1>1
<1>4. b - (b % m) = m * p
  BY <1>2
<1>5. a - b = m * (q - p)
  BY <1>1, <1>2, <1>3, <1>4
<1>6. q - p \in Int
  BY <1>1, <1>2
<1>7. \A d \in Int : (m * d) % m = 0
  OBVIOUS
<1> QED BY <1>5, <1>6, <1>7

\* A kept forecast is of an interval after its run, in a band, and the run and
\* the interval tell the rest of it.
LEMMA ForecastIs ==
  ASSUME LedgerAssumption, NEW k \in Nat, NEW f \in RunForecast(k)
  PROVE  /\ f = [at |-> f.at, run |-> k, x |-> Forecast(k, f.at + PdPeriod)]
         /\ f.run = k /\ f.at \in Nat /\ f.at >= RunAt(k)
         /\ f.at - RunAt(k) \in 0..(PdPeriod * Span)
         /\ RunSlot(RunAt(k)) % Bands[BandOf(f.at - RunAt(k))].every = 0
<1>1. PICK e \in Ends(k) :
        /\ Keep(e - PdPeriod - RunAt(k), RunSlot(RunAt(k)))
        /\ f = [at |-> e - PdPeriod, run |-> k, x |-> Forecast(k, e)]
  BY DEF RunForecast
<1>2. PICK i \in 1..Span : e = PdPeriod * (k + i)
  BY <1>1 DEF Ends
<1>3. PdPeriod \in Nat \ {0, 1} /\ Span \in Nat /\ i \in Nat
  BY DEF LedgerAssumption
<1>4. PICK a \in Nat, b \in Nat : a = PdPeriod * k /\ b = PdPeriod * (i - 1)
  BY <1>2, <1>3
<1>5. e = a + b + PdPeriod /\ RunAt(k) = a + 1
  BY <1>2, <1>3, <1>4 DEF RunAt
<1>6. e - PdPeriod - RunAt(k) >= 0
  BY <1>1 DEF Keep
<1>7. PdPeriod * Span \in Nat /\ b <= PdPeriod * Span
  <2>1. PICK g \in Nat : Span = (i - 1) + g
    BY <1>2, <1>3
  <2>2. PdPeriod * Span = b + PdPeriod * g /\ PdPeriod * g \in Nat
    BY <1>2, <1>3, <1>4, <2>1
  <2> QED BY <1>4, <2>2
<1>8. f.at = e - PdPeriod /\ f.run = k /\ f.x = Forecast(k, e)
  BY <1>1
<1>9. f.at + PdPeriod = e /\ f.at = a + b
  BY <1>3, <1>4, <1>5, <1>8
<1>10. f.at - RunAt(k) \in 0..(PdPeriod * Span) /\ f.at \in Nat /\ f.at >= RunAt(k)
  <2>1. PICK w \in Nat : w = PdPeriod * Span
    BY <1>7
  <2>2. f.at = a + b /\ RunAt(k) = a + 1 /\ b <= w
    BY <1>5, <1>7, <1>9, <2>1
  <2>3. b >= 1
    <3>1. (a + b + PdPeriod) - PdPeriod - (a + 1) >= 0
      BY <1>5, <1>6
    <3>2. PdPeriod \in Int /\ a \in Int /\ b \in Int
      BY <1>3, <1>4
    <3> QED BY <3>1, <3>2
  <2>4. f.at - RunAt(k) \in 0..w /\ f.at \in Nat /\ f.at >= RunAt(k)
    <3>1. (a + b) - (a + 1) \in 0..w /\ a + b \in Nat /\ a + b >= a + 1 /\ a + 1 \in Nat
      BY <1>4, <2>1, <2>2, <2>3
    <3> QED BY <2>2, <3>1
  <2> QED BY <2>1, <2>4
<1>11. RunSlot(RunAt(k)) % Bands[BandOf(f.at - RunAt(k))].every = 0
  BY <1>1, <1>8 DEF Keep
<1> QED BY <1>1, <1>8, <1>9, <1>10, <1>11

\* Its run solved in its half hour, a run's slot is its place.
LEMMA SlotIsPlace ==
  ASSUME LedgerAssumption, NEW k \in Nat
  PROVE  RunSlot(RunAt(k)) = k
<1>1. PdPeriod \in Nat \ {0} /\ 1 \in 0..(PdPeriod - 1)
  BY DEF LedgerAssumption
<1>2. (PdPeriod * k + 1) \div PdPeriod = k
  BY <1>1
<1> QED BY <1>2 DEF RunSlot, RunAt

\* Runs and intervals are in the order of their half hours.
LEMMA HalfHoursInOrder ==
  ASSUME LedgerAssumption, NEW j \in Nat, NEW k \in Nat, j <= k
  PROVE  /\ RunAt(j) \in Nat /\ RunAt(j) <= RunAt(k)
         /\ ClosedInterval(j) \in Int /\ ClosedInterval(j) <= ClosedInterval(k)
         /\ ClosedInterval(k) < RunAt(k)
<1>1. PdPeriod \in Nat \ {0}
  BY DEF LedgerAssumption
<1>2. PICK g \in Nat : k = j + g
  OBVIOUS
<1>3. PICK a \in Nat, b \in Nat : a = PdPeriod * j /\ b = PdPeriod * g
  BY <1>1
<1>4. PdPeriod * k = a + b
  BY <1>1, <1>2, <1>3
<1>5. PdPeriod * (j - 1) = a - PdPeriod /\ PdPeriod * (k - 1) = a + b - PdPeriod
  BY <1>1, <1>2, <1>3, <1>4
<1> QED BY <1>1, <1>3, <1>4, <1>5 DEF RunAt, ClosedInterval

\* Ingesting the run held: what is new is its forecasts, what is gone was pruned.
LEMMA IngestIs ==
  ASSUME LedgerAssumption, time \in Nat, NEW h, HistoryIsKept(h),
         NEW last, run' \in 1..time, last # Missing => last \in Int /\ last < run',
         IngestLatest(h, last)
  PROVE  /\ lastRun' = run' /\ DOMAIN history' \subseteq Int
         /\ \A t \in DOMAIN history' : t \in DOMAIN h \/ \E f \in RunForecast(run') : f.at = t
         /\ \A t \in DOMAIN history' : \A e \in history'[t] :
              \/ t \in DOMAIN h /\ e \in h[t]
              \/ e \in RunForecast(run') /\ e.at = t
         /\ \A t \in DOMAIN h : IF t \in DOMAIN history' THEN h[t] \subseteq history'[t]
                                ELSE t < RunAt(time)
         /\ \A f \in RunForecast(run') :
              f.at \in DOMAIN history' => \E e \in history'[f.at] : e.run = run'
<1> DEFINE k == run'
           g == Ingested(h, k)
           new(t) == {f \in RunForecast(k) : f.at = t}
           was(t) == IF t \in DOMAIN h THEN h[t] ELSE {}
<1>1. k \in Nat /\ k # Missing /\ \A f \in RunForecast(k) : f.at \in Int /\ f.run = k
  BY ForecastIs DEF LedgerAssumption
<1>2. history' = PrunedHistory(g) /\ lastRun' = k
  <2>1. ~(run' = Missing \/ (last # Missing /\ run' <= last))
    BY <1>1
  <2> QED BY <2>1 DEF IngestLatest
<1>3. /\ DOMAIN g = DOMAIN h \union {f.at : f \in RunForecast(k)}
      /\ \A t \in DOMAIN g : g[t] = IF \E e \in was(t) : e.run = k THEN was(t)
                                    ELSE was(t) \union new(t)
  BY DEF Ingested
<1> HIDE DEF g, k
<1>4. DOMAIN g \subseteq Int
  BY <1>1, <1>3 DEF HistoryIsKept
<1>5. RunAt(time) \in Nat /\ HistorySpan \in Nat
  <2>1. time <= time
    OBVIOUS
  <2>2. RunAt(time) \in Nat
    BY <2>1, HalfHoursInOrder
  <2> QED BY <2>2 DEF LedgerAssumption
<1>6. /\ DOMAIN history' = {t \in DOMAIN g : t >= RunAt(time) - HistorySpan}
      /\ \A t \in DOMAIN history' : history'[t] = g[t]
  BY <1>2 DEF PrunedHistory
<1>7. \A t \in DOMAIN g : t \notin DOMAIN history' => t < RunAt(time)
  BY <1>4, <1>5, <1>6
<1>8. \A t \in DOMAIN g : \A e \in g[t] : \/ t \in DOMAIN h /\ e \in h[t]
                                          \/ e \in RunForecast(k) /\ e.at = t
  <2> SUFFICES ASSUME NEW t \in DOMAIN g, NEW e \in g[t]
               PROVE  (t \in DOMAIN h /\ e \in h[t]) \/ (e \in RunForecast(k) /\ e.at = t)
    OBVIOUS
  <2>1. e \in was(t) \/ e \in new(t)
    <3>1. g[t] = was(t) \/ g[t] = was(t) \union new(t)
      <4> HIDE DEF was, new
      <4> QED BY <1>3
    <3> QED BY <3>1
  <2>2. e \in was(t) => t \in DOMAIN h /\ e \in h[t]
    OBVIOUS
  <2>3. e \in new(t) => e \in RunForecast(k) /\ e.at = t
    OBVIOUS
  <2> QED BY <2>1, <2>2, <2>3
<1>9. \A t \in DOMAIN h : t \in DOMAIN g /\ h[t] \subseteq g[t]
  BY <1>3
<1>10. ASSUME NEW f \in RunForecast(k), f.at \in DOMAIN g
       PROVE  \E e \in g[f.at] : e.run = k
  <2>1. CASE \E e \in was(f.at) : e.run = k
    BY <1>3, <1>10, <2>1
  <2>2. CASE ~ \E e \in was(f.at) : e.run = k
    <3>1. f \in g[f.at]
      BY <1>3, <1>10, <2>2
    <3> QED BY <1>1, <3>1
  <2> QED BY <2>1, <2>2
<1>11. /\ lastRun' = k /\ DOMAIN history' \subseteq Int
       /\ \A t \in DOMAIN history' : t \in DOMAIN h \/ \E f \in RunForecast(k) : f.at = t
  BY <1>2, <1>3, <1>4, <1>6
<1> QED BY <1>6, <1>7, <1>8, <1>9, <1>10, <1>11 DEF k

\* Recording a price observes each forecast of the interval, once.
LEMMA RecordedIs ==
  ASSUME LedgerAssumption, time \in Nat, HistoryIsKept(history), LogIsTrue(log),
         NEW t \in Int
  PROVE  LET l == Recorded(t, Settled(t))
         IN /\ l \in Seq(Observations)
            /\ \A i, j \in DOMAIN l : l[i].at = l[j].at /\ l[i].run = l[j].run => i = j
            /\ ToSet(log) \subseteq ToSet(l)
            /\ \A o \in ToSet(l) : \/ o \in ToSet(log)
                                   \/ o.at = t /\ t \in DOMAIN history /\ o.run \in 1..time
            /\ t \in DOMAIN history => \A e \in history[t] :
                 \E p \in ToSet(l) : p.at = t /\ p.run = e.run
<1> DEFINE due == IF t \in DOMAIN history THEN history[t] ELSE {}
           observed(e) == \E o \in ToSet(log) : o.at = t /\ o.run = e.run
           unmet == {d \in due : ~observed(d)}
           F == [k \in 1..time |-> [at |-> t, run |-> k, x |-> Forecast(k, t + PdPeriod), y |-> Settled(t)]]
           S == {[at |-> t, run |-> e.run, x |-> e.x, y |-> Settled(t)] : e \in unmet}
           T == {F[k] : k \in 1..time}
           m == SetToSeq(S)
           l == Recorded(t, Settled(t))
<1>1. \A e \in unmet : /\ e.run \in 1..time /\ e.x = Forecast(e.run, t + PdPeriod)
                       /\ [at |-> t, run |-> e.run, x |-> e.x, y |-> Settled(t)] = F[e.run]
  <2>1. ASSUME NEW e \in due
        PROVE  e.run \in 1..time /\ e.x = Forecast(e.run, t + PdPeriod)
    <3>1. e.run \in 1..time /\ e.at = t /\ e \in RunForecast(e.run)
      BY DEF HistoryIsKept
    <3>2. e = [at |-> e.at, run |-> e.run, x |-> Forecast(e.run, e.at + PdPeriod)]
      BY <3>1, ForecastIs
    <3> QED BY <3>1, <3>2
  <2> QED BY <2>1
<1>2. l = log \o m
  BY DEF Recorded
<1>3. /\ DOMAIN F = 1..time
      /\ \A k \in 1..time : F[k] \in Observations /\ F[k].at = t /\ F[k].run = k
  BY DEF Observations
<1>4. \A o \in S : \E e \in unmet : o = F[e.run]
  BY <1>1
<1>5. \A e \in unmet : F[e.run] \in S
  BY <1>1
<1> HIDE DEF S, m, l
<1>0. F \in [1..time -> T]
  OBVIOUS
<1> HIDE DEF F
<1>6. IsFiniteSet(S) /\ S \subseteq Observations
  <2>2. F \in Surjection(1..time, T)
    BY <1>0 DEF Surjection
  <2>3. IsFiniteSet(1..time)
    <3>1. time \in Int /\ 1 \in Int
      OBVIOUS
    <3> QED BY <3>1, FS_Interval
  <2>4. IsFiniteSet(T)
    BY <2>2, <2>3, FS_Surjection
  <2>5. S \subseteq T
    BY <1>1, <1>4
  <2> QED BY <1>3, <2>4, <2>5, FS_Subset
<1>7. \A o \in S : /\ o.at = t /\ o.run \in 1..time /\ t \in DOMAIN history
                   /\ o = F[o.run]
                   /\ \A q \in ToSet(log) : ~(q.at = t /\ q.run = o.run)
  <2> SUFFICES ASSUME NEW o \in S
               PROVE  /\ o.at = t /\ o.run \in 1..time /\ t \in DOMAIN history
                      /\ o = F[o.run]
                      /\ \A q \in ToSet(log) : ~(q.at = t /\ q.run = o.run)
    OBVIOUS
  <2>1. PICK e \in unmet : o = F[e.run]
    BY <1>4
  <2>2. t \in DOMAIN history /\ e \in due /\ ~observed(e)
    BY <2>1
  <2> QED BY <1>1, <1>3, <2>1, <2>2
<1>8. \A e \in due : \/ \E p \in ToSet(log) : p.at = t /\ p.run = e.run
                     \/ \E p \in S : p.at = t /\ p.run = e.run
  <2> SUFFICES ASSUME NEW e \in due, ~observed(e)
               PROVE  \E p \in S : p.at = t /\ p.run = e.run
    OBVIOUS
  <2>1. e \in unmet
    OBVIOUS
  <2> QED BY <1>1, <1>3, <1>5, <2>1
<1>9. due = IF t \in DOMAIN history THEN history[t] ELSE {}
  OBVIOUS
<1> HIDE DEF due, observed, unmet, T
<1>10. m \in Seq(Observations) /\ IsInjective(m) /\ ToSet(m) = S
  <2>1. m \in Seq(S) /\ IsInjective(m) /\ ToSet(m) = S
    BY <1>6, SetAsSeq DEF m
  <2>2. DOMAIN m = 1..Len(m) /\ Len(m) \in Nat /\ \A i \in 1..Len(m) : m[i] \in Observations
    BY <1>6, <2>1, LenProperties
  <2> QED BY <2>1, <2>2
<1>11. /\ l \in Seq(Observations) /\ ToSet(l) = ToSet(log) \union S
       /\ Len(log) \in Nat /\ Len(m) \in Nat
       /\ DOMAIN log = 1..Len(log) /\ DOMAIN m = 1..Len(m) /\ DOMAIN l = 1..(Len(log) + Len(m))
       /\ \A i \in 1..Len(log) : l[i] = log[i]
       /\ \A i \in 1..Len(m) : l[Len(log) + i] = m[i]
  BY <1>2, <1>10, AppendedSet DEF LogIsTrue
<1>12. ASSUME NEW i \in DOMAIN l, NEW j \in DOMAIN l, l[i].at = l[j].at, l[i].run = l[j].run
       PROVE  i = j
  <2>1. \A n \in DOMAIN l : \/ n \in DOMAIN log /\ l[n] = log[n]
                            \/ n - Len(log) \in DOMAIN m /\ l[n] = m[n - Len(log)]
    <3> SUFFICES ASSUME NEW n \in DOMAIN l, n \notin DOMAIN log
                 PROVE  n - Len(log) \in DOMAIN m /\ l[n] = m[n - Len(log)]
      BY <1>11
    <3>1. n - Len(log) \in 1..Len(m) /\ Len(log) + (n - Len(log)) = n
      BY <1>11
    <3> QED BY <1>11, <3>1
  <2>2. CASE i \in DOMAIN log /\ l[i] = log[i] /\ j \in DOMAIN log /\ l[j] = log[j]
    BY <1>12, <2>2 DEF LogIsTrue
  <2>3. ASSUME NEW a \in DOMAIN log, NEW b \in DOMAIN m
        PROVE  ~(log[a].at = m[b].at /\ log[a].run = m[b].run)
    <3>1. log[a] \in ToSet(log) /\ m[b] \in S
      BY <1>10 DEF ToSet
    <3> QED BY <1>7, <3>1
  <2>4. ASSUME NEW a \in DOMAIN m, NEW b \in DOMAIN m, m[a].run = m[b].run
        PROVE  a = b
    <3>1. m[a] \in S /\ m[b] \in S
      BY <1>10 DEF ToSet
    <3>2. m[a] = m[b]
      BY <1>7, <2>4, <3>1
    <3> QED BY <1>10, <3>2 DEF IsInjective
  <2>5. CASE /\ i - Len(log) \in DOMAIN m /\ l[i] = m[i - Len(log)]
             /\ j - Len(log) \in DOMAIN m /\ l[j] = m[j - Len(log)]
    <3>1. i - Len(log) = j - Len(log)
      BY <1>12, <2>4, <2>5
    <3> QED BY <1>11, <3>1
  <2> QED BY <1>12, <2>1, <2>2, <2>3, <2>5
<1>13. \A o \in ToSet(l) : \/ o \in ToSet(log)
                           \/ o.at = t /\ t \in DOMAIN history /\ o.run \in 1..time
  BY <1>7, <1>11
<1>14. t \in DOMAIN history => \A e \in history[t] : \E p \in ToSet(l) : p.at = t /\ p.run = e.run
  BY <1>8, <1>9, <1>11
<1> QED BY <1>11, <1>12, <1>13, <1>14 DEF l

\* An observation's interval is before the run of this half hour.
LEMMA ObservedBefore ==
  ASSUME LedgerAssumption, LedgerInv, NEW l, LogIsTrue(l), NEW o \in ToSet(l),
         NEW f \in RunForecast(time)
  PROVE  f.at # o.at /\ f.at >= RunAt(time)
<1>1. time \in Nat /\ ticked \in Nat /\ ticked <= time
  BY DEF LedgerInv
<1>2. o.at <= ClosedInterval(ticked)
  BY DEF LogIsTrue
<1>3. o.at \in Int
  BY DEF LogIsTrue, Observations, ToSet
<1>4. /\ ClosedInterval(ticked) \in Int /\ ClosedInterval(time) \in Int /\ RunAt(time) \in Nat
      /\ ClosedInterval(ticked) <= ClosedInterval(time) /\ ClosedInterval(time) < RunAt(time)
  BY <1>1, HalfHoursInOrder
<1>5. f.at >= RunAt(time) /\ f.at \in Nat
  BY <1>1, ForecastIs
<1> QED BY <1>2, <1>3, <1>4, <1>5

LEMMA LedgerInitHolds ==
  ASSUME LedgerAssumption, LedgerInit
  PROVE  LedgerInv
<1>1. DOMAIN <<>> = {} /\ <<>> \in Seq(Observations)
  BY EmptySeq, LenProperties
<1>2. ToSet(<<>>) = {}
  BY <1>1 DEF ToSet
<1>3. \A h : h = <<>> => HistoryIsKept(h) /\ LogIsTrue(h)
  BY <1>1, <1>2 DEF HistoryIsKept, LogIsTrue
<1> QED BY <1>1, <1>2, <1>3 DEF LedgerInit, LedgerInv, LedgerAssumption, Covers, CoversHeld,
                               DiskIsBehind, HeldIsIngested

LEMMA HalfHourKeeps ==
  ASSUME LedgerAssumption, LedgerInv, HalfHour \/ TradingTick
  PROVE  LedgerInv'
<1>1. /\ time \in 1..MaxHalfHours /\ ticked \in 1..time /\ MaxHalfHours \in Nat
      /\ UNCHANGED <<run, up, history, lastRun, onDisk, log>>
  BY DEF LedgerInv, HalfHour, TradingTick, LedgerAssumption
<1>2. /\ time' \in 1..MaxHalfHours /\ ticked' \in 1..time' /\ time <= time' /\ ticked <= ticked'
      /\ asked' \in {ClosedInterval(ticked'), Missing}
  BY <1>1 DEF HalfHour, TradingTick
<1>3. /\ RunAt(time) \in Nat /\ RunAt(time') \in Nat /\ RunAt(time) <= RunAt(time')
      /\ ClosedInterval(ticked) \in Int /\ ClosedInterval(ticked') \in Int
      /\ ClosedInterval(ticked) <= ClosedInterval(ticked')
  BY <1>1, <1>2, HalfHoursInOrder
<1>4. \A k \in 1..time : k \in 1..time'
  BY <1>1, <1>2
<1>5. HistoryIsKept(history)' /\ HistoryIsKept(onDisk.history)'
  BY <1>1, <1>4 DEF HistoryIsKept, LedgerInv
<1>6. LogIsTrue(log)' /\ LogIsTrue(onDisk.log)'
  <2>1. \A l : LogIsTrue(l) => \A o \in ToSet(l) :
          o.at \in Int /\ o.run \in 1..time' /\ o.at <= ClosedInterval(ticked')
    <3> SUFFICES ASSUME NEW l, LogIsTrue(l), NEW o \in ToSet(l)
                 PROVE  o.at \in Int /\ o.run \in 1..time' /\ o.at <= ClosedInterval(ticked')
      OBVIOUS
    <3>1. o.at \in Int
      BY DEF LogIsTrue, Observations, ToSet
    <3> QED BY <1>3, <1>4, <3>1 DEF LogIsTrue
  <2> QED BY <1>1, <2>1 DEF LogIsTrue, LedgerInv
<1>7. DiskIsBehind'
  <2>1. DOMAIN onDisk.history \subseteq Int
    BY DEF LedgerInv, HistoryIsKept
  <2> QED BY <1>1, <1>3, <2>1 DEF DiskIsBehind, LedgerInv
<1> QED BY <1>1, <1>2, <1>4, <1>5, <1>6, <1>7 DEF LedgerInv, Covers, CoversHeld, HeldIsIngested

LEMMA SaveKeeps ==
  ASSUME LedgerAssumption, LedgerInv, HistorySaved \/ LogSaved
  PROVE  LedgerInv'
<1>1. /\ UNCHANGED <<time, run, up, history, lastRun, log, ticked, asked>>
      /\ onDisk'.history \in {onDisk.history, history} /\ onDisk'.log \in {onDisk.log, log}
      /\ onDisk' = [history |-> onDisk'.history, log |-> onDisk'.log]
  BY DEF HistorySaved, LogSaved, LedgerInv
<1>2. HistoryIsKept(history)' /\ HistoryIsKept(onDisk.history)'
  BY <1>1 DEF HistoryIsKept, LedgerInv
<1>3. LogIsTrue(log)' /\ LogIsTrue(onDisk.log)'
  BY <1>1 DEF LogIsTrue, LedgerInv
<1>4. /\ Covers(log, history)' /\ Covers(log, onDisk.history)'
      /\ Covers(onDisk.log, history)' /\ Covers(onDisk.log, onDisk.history)'
  BY <1>1 DEF Covers, LedgerInv
<1>5. CoversHeld(log)' /\ CoversHeld(onDisk.log)'
  BY <1>1 DEF CoversHeld, LedgerInv
<1>6. DiskIsBehind' /\ HeldIsIngested'
  BY <1>1 DEF DiskIsBehind, HeldIsIngested, LedgerInv
<1> QED BY <1>1, <1>2, <1>3, <1>4, <1>5, <1>6 DEF LedgerInv

LEMMA StopKeeps ==
  ASSUME LedgerAssumption, LedgerInv, RecordStops
  PROVE  LedgerInv'
<1>1. /\ UNCHANGED <<time, onDisk, ticked, asked>>
      /\ up' = FALSE /\ run' \in {run, Missing}
      /\ history' = <<>> /\ lastRun' = Missing /\ log' = <<>>
  BY DEF RecordStops
<1>2. DOMAIN <<>> = {} /\ <<>> \in Seq(Observations)
  BY EmptySeq, LenProperties
<1>3. ToSet(<<>>) = {}
  BY <1>2 DEF ToSet
<1>4. HistoryIsKept(history)' /\ HistoryIsKept(onDisk.history)'
  BY <1>1, <1>2 DEF HistoryIsKept, LedgerInv
<1>5. LogIsTrue(log)' /\ LogIsTrue(onDisk.log)'
  BY <1>1, <1>2, <1>3 DEF LogIsTrue, LedgerInv
<1>6. /\ Covers(log, history)' /\ Covers(log, onDisk.history)'
      /\ Covers(onDisk.log, history)' /\ Covers(onDisk.log, onDisk.history)'
  BY <1>1, <1>2, <1>3 DEF Covers, LedgerInv
<1>7. CoversHeld(log)' /\ CoversHeld(onDisk.log)'
  BY <1>1, <1>3 DEF CoversHeld, LedgerInv
<1>8. DiskIsBehind' /\ HeldIsIngested'
  BY <1>1 DEF DiskIsBehind, HeldIsIngested
<1>9. /\ time' \in 1..MaxHalfHours /\ ticked' \in 1..time' /\ up' \in BOOLEAN
      /\ run' \in 1..time' \union {Missing} /\ lastRun' = (IF up' THEN run' ELSE Missing)
      /\ asked' \in {ClosedInterval(ticked'), Missing}
      /\ onDisk' = [history |-> onDisk'.history, log |-> onDisk'.log]
  BY <1>1 DEF LedgerInv
<1> QED BY <1>4, <1>5, <1>6, <1>7, <1>8, <1>9 DEF LedgerInv

LEMMA RunKeeps ==
  ASSUME LedgerAssumption, LedgerInv, NewRun
  PROVE  LedgerInv'
<1>1. /\ UNCHANGED <<time, up, onDisk, log, ticked, asked>>
      /\ run # time /\ run' = time /\ time \in 1..MaxHalfHours /\ time \in Nat
      /\ Missing \notin Int
      /\ IF up THEN IngestLatest(history, lastRun) ELSE UNCHANGED <<history, lastRun>>
  BY DEF NewRun, LedgerInv, LedgerAssumption
<1>2. CoversHeld(log)' /\ CoversHeld(onDisk.log)'
  BY <1>1, ObservedBefore DEF CoversHeld, LedgerInv
<1>3. CASE ~up
  <2>1. UNCHANGED <<history, lastRun>>
    BY <1>1, <1>3
  <2>2. HistoryIsKept(history)' /\ HistoryIsKept(onDisk.history)'
    BY <1>1, <2>1 DEF HistoryIsKept, LedgerInv
  <2>3. LogIsTrue(log)' /\ LogIsTrue(onDisk.log)'
    BY <1>1 DEF LogIsTrue, LedgerInv
  <2>4. /\ Covers(log, history)' /\ Covers(log, onDisk.history)'
        /\ Covers(onDisk.log, history)' /\ Covers(onDisk.log, onDisk.history)'
    BY <1>1, <2>1 DEF Covers, LedgerInv
  <2>5. DiskIsBehind' /\ HeldIsIngested'
    BY <1>1, <1>3 DEF DiskIsBehind, HeldIsIngested
  <2> QED BY <1>1, <1>2, <1>3, <2>1, <2>2, <2>3, <2>4, <2>5 DEF LedgerInv
<1>4. CASE up
  <2>1. lastRun # Missing => lastRun \in Int /\ lastRun < run'
    BY <1>1, <1>4 DEF LedgerInv
  <2>2. /\ lastRun' = run' /\ DOMAIN history' \subseteq Int
        /\ \A t \in DOMAIN history' : t \in DOMAIN history \/ \E f \in RunForecast(time) : f.at = t
        /\ \A t \in DOMAIN history' : \A e \in history'[t] :
             \/ t \in DOMAIN history /\ e \in history[t]
             \/ e \in RunForecast(time) /\ e.at = t
        /\ \A t \in DOMAIN history : IF t \in DOMAIN history' THEN history[t] \subseteq history'[t]
                                     ELSE t < RunAt(time)
        /\ \A f \in RunForecast(time) :
             f.at \in DOMAIN history' => \E e \in history'[f.at] : e.run = time
    <3>1. run' \in 1..time /\ IngestLatest(history, lastRun) /\ HistoryIsKept(history)
      BY <1>1, <1>4 DEF LedgerInv
    <3> QED BY <1>1, <2>1, <3>1, IngestIs
  <2>3. HistoryIsKept(history)'
    <3>1. \A e \in RunForecast(time) : e.run = time /\ time \in 1..time
      BY <1>1, ForecastIs
    <3> QED BY <1>1, <2>2, <3>1 DEF HistoryIsKept, LedgerInv
  <2>4. HistoryIsKept(onDisk.history)'
    BY <1>1 DEF HistoryIsKept, LedgerInv
  <2>5. LogIsTrue(log)' /\ LogIsTrue(onDisk.log)'
    BY <1>1 DEF LogIsTrue, LedgerInv
  <2>6. Covers(log, onDisk.history)' /\ Covers(onDisk.log, onDisk.history)'
    BY <1>1 DEF Covers, LedgerInv
  <2>7. \A l : LogIsTrue(l) /\ Covers(l, history) => Covers(l, history')
    <3> SUFFICES ASSUME NEW l, LogIsTrue(l), Covers(l, history), NEW o \in ToSet(l),
                        o.at \in DOMAIN history', NEW e \in history'[o.at]
                 PROVE  \E p \in ToSet(l) : p.at = o.at /\ p.run = e.run
      BY DEF Covers
    <3>1. ~(e \in RunForecast(time) /\ e.at = o.at)
      BY ObservedBefore
    <3> QED BY <2>2, <3>1 DEF Covers
  <2>8. Covers(log, history)' /\ Covers(onDisk.log, history)'
    <3>1. Covers(log, history') /\ Covers(onDisk.log, history')
      BY <2>7 DEF LedgerInv
    <3> QED BY <1>1, <3>1 DEF Covers
  <2>9. DiskIsBehind'
    <3>1. \A f \in RunForecast(time) : f.at >= RunAt(time) /\ f.at \in Int /\ RunAt(time) \in Int
      BY <1>1, ForecastIs, HalfHoursInOrder
    <3>2. ASSUME NEW t \in DOMAIN onDisk.history
          PROVE  IF t \in DOMAIN history' THEN onDisk.history[t] \subseteq history'[t]
                 ELSE t < RunAt(time)
      <4>1. t \in Int
        BY DEF LedgerInv, HistoryIsKept
      <4>2. IF t \in DOMAIN history THEN onDisk.history[t] \subseteq history[t] ELSE t < RunAt(time)
        BY <1>4 DEF LedgerInv, DiskIsBehind
      <4> QED BY <2>2, <3>1, <4>1, <4>2
    <3> QED BY <1>1, <3>2 DEF DiskIsBehind
  <2>10. HeldIsIngested'
    BY <1>1, <2>2 DEF HeldIsIngested
  <2>11. /\ time' \in 1..MaxHalfHours /\ ticked' \in 1..time' /\ up' \in BOOLEAN
         /\ run' \in 1..time' \union {Missing} /\ lastRun' = (IF up' THEN run' ELSE Missing)
         /\ asked' \in {ClosedInterval(ticked'), Missing}
         /\ onDisk' = [history |-> onDisk'.history, log |-> onDisk'.log]
    BY <1>1, <1>4, <2>2 DEF LedgerInv
  <2> QED BY <1>2, <2>3, <2>4, <2>5, <2>6, <2>8, <2>9, <2>10, <2>11 DEF LedgerInv
<1> QED BY <1>3, <1>4 DEF LedgerInv

LEMMA StartsKeeps ==
  ASSUME LedgerAssumption, LedgerInv, RecordStarts
  PROVE  LedgerInv'
<1>1. /\ UNCHANGED <<time, run, onDisk, ticked, asked>>
      /\ ~up /\ up' = TRUE /\ log' = onDisk.log /\ IngestLatest(onDisk.history, Missing)
      /\ time \in Nat /\ Missing \notin Int
  BY DEF RecordStarts, LedgerInv, LedgerAssumption
<1>2. HistoryIsKept(onDisk.history)' /\ LogIsTrue(log)' /\ LogIsTrue(onDisk.log)'
  BY <1>1 DEF HistoryIsKept, LogIsTrue, LedgerInv
<1>3. CoversHeld(log)' /\ CoversHeld(onDisk.log)'
  BY <1>1 DEF CoversHeld, LedgerInv
<1>4. Covers(log, onDisk.history)' /\ Covers(onDisk.log, onDisk.history)'
  BY <1>1 DEF Covers, LedgerInv
<1>5. /\ time' \in 1..MaxHalfHours /\ ticked' \in 1..time' /\ up' \in BOOLEAN
      /\ run' \in 1..time' \union {Missing}
      /\ asked' \in {ClosedInterval(ticked'), Missing}
      /\ onDisk' = [history |-> onDisk'.history, log |-> onDisk'.log]
  BY <1>1 DEF LedgerInv
<1>6. CASE run = Missing
  <2>1. history' = onDisk.history /\ lastRun' = Missing
    BY <1>1, <1>6 DEF IngestLatest
  <2>2. HistoryIsKept(history)'
    BY <1>1, <2>1 DEF HistoryIsKept, LedgerInv
  <2>3. Covers(log, history)' /\ Covers(onDisk.log, history)'
    BY <1>1, <2>1 DEF Covers, LedgerInv
  <2>4. DiskIsBehind' /\ HeldIsIngested' /\ lastRun' = (IF up' THEN run' ELSE Missing)
    BY <1>1, <1>6, <2>1 DEF DiskIsBehind, HeldIsIngested
  <2> QED BY <1>2, <1>3, <1>4, <1>5, <2>2, <2>3, <2>4 DEF LedgerInv
<1>7. CASE run # Missing
  <2>1. run \in 1..time /\ run' = run /\ run \in Nat
    BY <1>1, <1>7 DEF LedgerInv
  <2>2. /\ lastRun' = run /\ DOMAIN history' \subseteq Int
        /\ \A t \in DOMAIN history' : \A e \in history'[t] :
             \/ t \in DOMAIN onDisk.history /\ e \in onDisk.history[t]
             \/ e \in RunForecast(run) /\ e.at = t
        /\ \A t \in DOMAIN onDisk.history :
             IF t \in DOMAIN history' THEN onDisk.history[t] \subseteq history'[t]
             ELSE t < RunAt(time)
        /\ \A f \in RunForecast(run) :
             f.at \in DOMAIN history' => \E e \in history'[f.at] : e.run = run
    <3>1. run' \in 1..time /\ HistoryIsKept(onDisk.history)
      BY <2>1 DEF LedgerInv
    <3> QED BY <1>1, <2>1, <3>1, IngestIs
  <2>3. \A e \in RunForecast(run) : e.run = run
    BY <2>1, ForecastIs
  <2>4. HistoryIsKept(history)'
    BY <1>1, <2>1, <2>2, <2>3 DEF HistoryIsKept, LedgerInv
  <2>5. Covers(onDisk.log, history')
    <3> SUFFICES ASSUME NEW o \in ToSet(onDisk.log), o.at \in DOMAIN history',
                        NEW e \in history'[o.at]
                 PROVE  \E p \in ToSet(onDisk.log) : p.at = o.at /\ p.run = e.run
      BY DEF Covers
    <3>1. CASE o.at \in DOMAIN onDisk.history /\ e \in onDisk.history[o.at]
      BY <3>1 DEF LedgerInv, Covers
    <3>2. CASE e \in RunForecast(run) /\ e.at = o.at
      BY <1>7, <2>3, <3>2 DEF LedgerInv, CoversHeld
    <3> QED BY <2>2, <3>1, <3>2
  <2>6. Covers(log, history)' /\ Covers(onDisk.log, history)'
    BY <1>1, <2>5 DEF Covers
  <2>7. DiskIsBehind' /\ HeldIsIngested' /\ lastRun' = (IF up' THEN run' ELSE Missing)
    BY <1>1, <2>2 DEF DiskIsBehind, HeldIsIngested
  <2> QED BY <1>2, <1>3, <1>4, <1>5, <2>4, <2>6, <2>7 DEF LedgerInv
<1> QED BY <1>6, <1>7

LEMMA PricesKeep ==
  ASSUME LedgerAssumption, LedgerInv, Prices
  PROVE  LedgerInv'
<1>1. /\ UNCHANGED <<time, run, up, history, lastRun, onDisk, ticked>>
      /\ asked # Missing /\ asked' = Missing
      /\ time \in Nat /\ ticked \in 1..time
  BY DEF Prices, LedgerInv
<1>2. /\ asked = ClosedInterval(ticked) /\ asked \in Int
      /\ Settled(asked) # Missing
  <2>1. ticked \in 1..MaxHalfHours /\ ticked \in Nat /\ ticked <= ticked
    BY DEF LedgerInv, LedgerAssumption
  <2>2. asked = ClosedInterval(ticked) /\ asked \in Int
    BY <1>1, <2>1, HalfHoursInOrder DEF LedgerInv
  <2> QED BY <2>1, <2>2 DEF LedgerAssumption, ClosedInterval
<1>3. \A y \in PricesFetched(asked) : y = Missing \/ y = Settled(asked)
  <2> DEFINE rows == <<Missing, Settled(asked), Settled(asked) + 1>>
             S == {i \in DOMAIN rows : rows[i] # Missing}
  <2>1. S \subseteq 1..3 /\ 2 \in S /\ 1 \notin S
    BY <1>2
  <2> HIDE DEF S
  <2>2. Min(S) = 2
    <3>1. 2 \in S /\ \A y \in S : 2 <= y
      BY <2>1
    <3>2. \A x \in S : (\A y \in S : x <= y) => x = 2
      BY <2>1, <3>1
    <3> QED BY <3>1, <3>2 DEF Min
  <2>3. FirstPrice(rows) = Settled(asked)
    BY <2>1, <2>2 DEF FirstPrice, S
  <2> QED BY <2>3 DEF PricesFetched
<1>4. log' = log \/ (up /\ log' = Recorded(asked, Settled(asked)))
  BY <1>3 DEF Prices
<1>5. HistoryIsKept(history)' /\ HistoryIsKept(onDisk.history)' /\ LogIsTrue(onDisk.log)'
  BY <1>1 DEF HistoryIsKept, LogIsTrue, LedgerInv
<1>6. Covers(onDisk.log, history)' /\ Covers(onDisk.log, onDisk.history)' /\ CoversHeld(onDisk.log)'
  BY <1>1 DEF Covers, CoversHeld, LedgerInv
<1>7. DiskIsBehind' /\ HeldIsIngested'
  BY <1>1 DEF DiskIsBehind, HeldIsIngested, LedgerInv
<1>8. /\ time' \in 1..MaxHalfHours /\ ticked' \in 1..time' /\ up' \in BOOLEAN
      /\ run' \in 1..time' \union {Missing} /\ lastRun' = (IF up' THEN run' ELSE Missing)
      /\ asked' \in {ClosedInterval(ticked'), Missing}
      /\ onDisk' = [history |-> onDisk'.history, log |-> onDisk'.log]
  BY <1>1 DEF LedgerInv
<1>9. CASE log' = log
  <2>1. LogIsTrue(log)'
    BY <1>1, <1>9 DEF LogIsTrue, LedgerInv
  <2>2. Covers(log, history)' /\ Covers(log, onDisk.history)' /\ CoversHeld(log)'
    BY <1>1, <1>9 DEF Covers, CoversHeld, LedgerInv
  <2> QED BY <1>5, <1>6, <1>7, <1>8, <2>1, <2>2 DEF LedgerInv
<1>10. CASE up /\ log' = Recorded(asked, Settled(asked))
  <2>1. /\ log' \in Seq(Observations)
        /\ \A i, j \in DOMAIN log' : log'[i].at = log'[j].at /\ log'[i].run = log'[j].run => i = j
        /\ ToSet(log) \subseteq ToSet(log')
        /\ \A o \in ToSet(log') : \/ o \in ToSet(log)
                                  \/ o.at = asked /\ asked \in DOMAIN history /\ o.run \in 1..time
        /\ asked \in DOMAIN history => \A e \in history[asked] :
             \E p \in ToSet(log') : p.at = asked /\ p.run = e.run
    <3>1. HistoryIsKept(history) /\ LogIsTrue(log)
      BY DEF LedgerInv
    <3> QED BY <1>1, <1>2, <1>10, <3>1, RecordedIs
  <2>2. LogIsTrue(log)'
    <3>1. \A o \in ToSet(log') : o.run \in 1..time /\ o.at <= ClosedInterval(ticked)
      BY <1>2, <2>1 DEF LedgerInv, LogIsTrue
    <3> QED BY <1>1, <2>1, <3>1 DEF LogIsTrue
  <2>3. \A h : /\ Covers(log, h)
               /\ asked \in DOMAIN history /\ asked \in DOMAIN h => h[asked] \subseteq history[asked]
               => Covers(log', h)
    BY <2>1 DEF Covers
  <2>4. Covers(log', history) /\ Covers(log', onDisk.history)
    BY <1>10, <2>3 DEF LedgerInv, DiskIsBehind
  <2>5. Covers(log, history)' /\ Covers(log, onDisk.history)'
    BY <1>1, <2>4 DEF Covers
  <2>6. CoversHeld(log)'
    <3> SUFFICES ASSUME run # Missing, NEW o \in ToSet(log'), NEW f \in RunForecast(run), f.at = o.at
                 PROVE  \E p \in ToSet(log') : p.at = o.at /\ p.run = run
      BY <1>1 DEF CoversHeld
    <3>1. CASE o \in ToSet(log)
      BY <2>1, <3>1 DEF LedgerInv, CoversHeld
    <3>2. CASE o.at = asked /\ asked \in DOMAIN history
      <4>1. \E e \in history[asked] : e.run = run
        BY <1>10, <3>2 DEF LedgerInv, HeldIsIngested
      <4> QED BY <2>1, <3>2, <4>1
    <3> QED BY <2>1, <3>1, <3>2
  <2> QED BY <1>5, <1>6, <1>7, <1>8, <2>2, <2>5, <2>6 DEF LedgerInv
<1> QED BY <1>4, <1>9, <1>10

THEOREM LedgerInvariant == ASSUME LedgerAssumption PROVE LedgerSpec => []LedgerInv
<1>1. LedgerInit => LedgerInv
  BY LedgerInitHolds
<1>2. LedgerInv /\ [LedgerNext]_ledgerVars => LedgerInv'
  <2> SUFFICES ASSUME LedgerInv, [LedgerNext]_ledgerVars PROVE LedgerInv'
    OBVIOUS
  <2>1. CASE LedgerNext
    BY <2>1, HalfHourKeeps, RunKeeps, PricesKeep, SaveKeeps, StopKeeps, StartsKeeps DEF LedgerNext
  <2>2. CASE UNCHANGED ledgerVars
    BY <2>2 DEF ledgerVars, LedgerInv, HistoryIsKept, LogIsTrue, Covers, CoversHeld, DiskIsBehind,
                HeldIsIngested
  <2> QED BY <2>1, <2>2
<1> QED BY <1>1, <1>2, PTL DEF LedgerSpec

\* The variables have their types.
THEOREM LedgerTypeCorrect == ASSUME LedgerAssumption PROVE LedgerSpec => []LedgerTypeOK
<1>1. ASSUME LedgerInv PROVE LedgerTypeOK
  <2>1. /\ time \in 1..MaxHalfHours /\ ticked \in 1..time /\ up \in BOOLEAN
        /\ {run, lastRun} \subseteq 1..time \union {Missing}
        /\ asked \in {ClosedInterval(k) : k \in 1..time} \union {Missing}
    BY <1>1 DEF LedgerInv
  <2>2. \A h \in {history, onDisk.history} : \A t \in DOMAIN h :
          h[t] \subseteq UNION {RunForecast(k) : k \in 1..time}
    BY <1>1 DEF LedgerInv, HistoryIsKept
  <2>3. \A o \in ToSet(log \o onDisk.log) : o.run \in 1..time
    <3>1. LogIsTrue(log) /\ LogIsTrue(onDisk.log)
      BY <1>1 DEF LedgerInv
    <3>2. ToSet(log \o onDisk.log) = ToSet(log) \union ToSet(onDisk.log)
      BY <3>1, AppendedSet DEF LogIsTrue
    <3> QED BY <3>1, <3>2 DEF LogIsTrue
  <2> QED BY <2>1, <2>2, <2>3 DEF LedgerTypeOK
<1> QED BY <1>1, LedgerInvariant, PTL

\* Whatever was fetched again, saved late or lost in a restart: an observation
\* pairs a run's forecast with its interval's price, once; the runs kept of an
\* interval in one band are multiples of its step apart; and an interval observed
\* at all is observed with every run the disk has of it.
THEOREM LedgerExact == ASSUME LedgerAssumption PROVE LedgerSpec => []LedgerIsExact
<1>1. ASSUME LedgerInv PROVE PairsAreTrue
  <2>1. LogIsTrue(log)
    BY <1>1 DEF LedgerInv
  <2>2. \A o \in ToSet(log) : o \in Observations
    BY <2>1 DEF LogIsTrue, ToSet
  <2>3. \A o \in Observations : o.x = Forecast(o.run, o.at + PdPeriod) /\ o.y = Settled(o.at)
    BY DEF Observations
  <2> QED BY <2>1, <2>2, <2>3 DEF PairsAreTrue, LogIsTrue
<1>2. ASSUME LedgerInv PROVE StepsHold
  <2> SUFFICES ASSUME NEW t \in DOMAIN history, NEW e \in history[t], NEW f \in history[t],
                      BandOf(t - RunAt(e.run)) = BandOf(t - RunAt(f.run))
               PROVE  (e.run - f.run) % Bands[BandOf(t - RunAt(e.run))].every = 0
    BY DEF StepsHold
  <2>1. \A d \in {e, f} : d.run \in Nat /\ d.at = t /\ d \in RunForecast(d.run)
    BY <1>2 DEF LedgerInv, HistoryIsKept
  <2>2. \A d \in {e, f} : /\ d.run % Bands[BandOf(t - RunAt(d.run))].every = 0
                          /\ t - RunAt(d.run) \in 0..(PdPeriod * Span)
    BY <2>1, ForecastIs, SlotIsPlace
  <2>7. Bands \in Seq([below : Nat, every : Nat \ {0}])
    BY DEF LedgerAssumption
  <2> DEFINE b == BandOf(t - RunAt(e.run))
  <2>3. b \in DOMAIN Bands
    <3> DEFINE h == t - RunAt(e.run)
               S == {i \in DOMAIN Bands : h < Bands[i].below}
    <3>1. \E i \in DOMAIN Bands : h < Bands[i].below
      BY <2>2 DEF LedgerAssumption
    <3>2. S # {} /\ S \in SUBSET Nat
      <4>1. DOMAIN Bands = 1..Len(Bands) /\ Len(Bands) \in Nat
        BY <2>7, LenProperties
      <4> QED BY <3>1, <4>1
    <3>3. Min(S) \in S
      <4>1. \E x \in S : \A y \in S : x <= y
        BY <3>2, SomeIsLeast
      <4> QED BY <4>1 DEF Min
    <3> QED BY <3>3 DEF BandOf
  <2>4. Bands[b].every \in Nat \ {0}
    <3>1. Bands \in [1..Len(Bands) -> [below : Nat, every : Nat \ {0}]]
      BY <2>7, LenProperties
    <3>2. Bands[b] \in [below : Nat, every : Nat \ {0}]
      BY <2>3, <3>1
    <3> QED BY <3>2
  <2> HIDE DEF b
  <2>5. e.run % Bands[b].every = 0 /\ f.run % Bands[b].every = 0
    BY <2>2 DEF b
  <2>6. (e.run - f.run) % Bands[b].every = 0
    BY <2>1, <2>4, <2>5, MultiplesApart
  <2> QED BY <2>6 DEF b
<1>3. ASSUME LedgerInv PROVE NoneIsMissed
  BY <1>3 DEF LedgerInv, Covers, NoneIsMissed
<1> QED BY <1>1, <1>2, <1>3, LedgerInvariant, PTL DEF LedgerIsExact

-----------------------------------------------------------------------------
(* The components together: whichever the behaviour chose, a step of it is a  *)
(* step of that component and leaves the others alone.                        *)

LEMMA EachIsItself ==
  Spec => RunsSpec /\ DispatchSpec /\ FeedSpec /\ PublishSpec /\ TariffSpec /\ WritesSpec /\ LedgerSpec
<1>1. Init => RunsInit /\ DispatchInit /\ FeedInit /\ PublishInit /\ TariffInit /\ WritesInit /\ LedgerInit
  BY DEF Init
<1>2. [Next]_allVars =>
        /\ [RunsNext]_runVars /\ [DispatchNext]_dispatchVars /\ [FeedNext]_feedVars
        /\ [PublishNext]_publishVars /\ [TariffNext]_tariffVars /\ [WritesNext]_writeVars
        /\ [LedgerNext]_ledgerVars
  BY DEF Next, allVars
<1> QED
  BY <1>1, <1>2, PTL DEF Spec, RunsSpec, DispatchSpec, FeedSpec, PublishSpec, TariffSpec, WritesSpec, LedgerSpec

\* The variables of the seven components have their types, whatever each does and
\* for any values of their constants.
THEOREM TypesAreCorrect ==
  ASSUME DPAssumption, NoticeAssumption, PublishAssumption, TariffAssumption, WritesAssumption, LedgerAssumption
  PROVE  Spec => []TypesOK
<1>1. RunsTypeOK /\ DispatchTypeOK /\ FeedTypeOK /\ PublishTypeOK /\ TariffTypeOK /\ WritesTypeOK /\ LedgerTypeOK
        => TypesOK
  BY DEF TypesOK
<1> QED
  BY <1>1, EachIsItself, RunsTypeCorrect, PollingTypeCorrect, FeedTypeCorrect, PublishTypeCorrect,
     TariffTypeCorrect, WritesTypeCorrect, LedgerTypeCorrect, PTL
=============================================================================
