------------------------ MODULE ObservationLog_proofs ------------------------
(* What the observation log keeps, for any rows, days and cap, when an entry  *)
(* is not set up again before the saves of its last log are written.          *)
EXTENDS ObservationLog, WellFoundedInduction, TLAPS

\* What a Store is still to write of a day, and what its file will then hold.
Waiting(d) == delayed[d] \cup orphaned[d]
Final(d) == IF Waiting(d) # {} THEN Waiting(d) ELSE files[d]
Live == {"up", "saving", "stopping"}

\* A row lies under its own date wherever it is.
Placed(f) ==
  /\ f \in [Dates -> SUBSET Rows]
  /\ \A d \in Dates : \A row \in f[d] : SegmentDate(row[1]) = d

Segmented ==
  /\ Placed(segments) /\ Placed(delayed) /\ Placed(orphaned) /\ Placed(files)
  /\ accum \subseteq Rows /\ legacy \subseteq Rows
  /\ unsaved \subseteq Dates /\ gone \subseteq Dates /\ manifest \subseteq Dates
  /\ manDirty \in BOOLEAN /\ day \in Dates
  /\ phase \in {"down", "reading", "splitting"} \cup Live

\* No file is without a name, but those of a split that was cut short.
NamedOnDisk ==
  \A d \in Dates : files[d] # {} =>
    IF manifest = {} THEN OfDate(legacy, d) # {} ELSE d \in manifest

\* Down, the disk and what is still to be written hold what is owed.
WhenDown ==
  phase = "down" =>
    /\ delayed = NoRows /\ gone = {}
    /\ \A d \in Dates : orphaned[d] # {} => d \in manifest /\ files[d] \subseteq orphaned[d]
    /\ owed = IF manifest = {} THEN legacy ELSE UNION {Final(d) : d \in manifest}

WhenReading ==
  phase = "reading" =>
    /\ delayed = NoRows /\ orphaned = NoRows /\ gone = {} /\ manifest # {}
    /\ owed = UNION {files[d] : d \in manifest}

\* A split loses nothing: the single file stays until the manifest names files
\* that hold all of it.
WhenSplitting ==
  phase = "splitting" =>
    /\ delayed = NoRows /\ orphaned = NoRows /\ gone = {}
    /\ owed = legacy /\ \A d \in Dates : segments[d] = OfDate(legacy, d)
    /\ \A d \in Dates \ unsaved : files[d] = segments[d]
    /\ IF manDirty THEN manifest = {} /\ legacy # {}
       ELSE manifest = DatesOf(segments) \/ (manifest = {} /\ legacy = {})
    /\ manifest # {} => unsaved = {}

\* Live, every day that is not being removed will have its segment in its file,
\* and what is being removed was pruned.
WhenLive ==
  phase \in Live =>
    /\ owed = RowsOf(segments) /\ accum = Dated(RowsOf(segments))
    /\ orphaned = NoRows /\ (manifest = {} => legacy = {})
    /\ \A d \in Dates \ gone :
         /\ d \in manifest \/ segments[d] # {} => segments[d] = Final(d)
         /\ files[d] \subseteq segments[d]
    /\ \A d \in gone : segments[d] = {} /\ files[d] \cup delayed[d] \subseteq pruned
    /\ \A d \in Dates : segments[d] # {} \/ delayed[d] # {} =>
         d \in manifest \/ (phase = "saving" /\ d = day /\ segments[d] # {})

\* The manifest that ends a save is not empty, and is only left when it is right.
WhenSaving ==
  /\ phase # "saving" => gone = {}
  /\ phase = "saving" =>
       /\ DatesOf(segments) # {}
       /\ manDirty \/ DatesOf(segments) \subseteq manifest

LogInv ==
  /\ Segmented /\ NamedOnDisk
  /\ WhenDown /\ WhenReading /\ WhenSplitting /\ WhenLive /\ WhenSaving

-----------------------------------------------------------------------------
(* Dates, and what pruning leaves *)

LEMMA DatesOfRows ==
  ASSUME OLAssumption
  PROVE  /\ SegmentDate(MaxInterval) \in Nat
         /\ \A i \in 0..MaxInterval : SegmentDate(i) \in Dates
         /\ \A row \in Rows : SegmentDate(row[1]) \in Dates
<1>1. PerDay \in Nat \ {0} /\ MaxInterval \in Nat
  BY DEF OLAssumption
<1>2. SegmentDate(MaxInterval) \in Nat
  BY <1>1 DEF SegmentDate
<1>3. ASSUME NEW i \in 0..MaxInterval
      PROVE  SegmentDate(i) \in Nat /\ SegmentDate(i) <= SegmentDate(MaxInterval)
  BY <1>1 DEF SegmentDate
<1>4. \A i \in 0..MaxInterval : SegmentDate(i) \in Dates
  BY <1>2, <1>3 DEF Dates
<1>5. \A row \in Rows : row[1] \in 0..MaxInterval
  BY DEF Rows
<1> QED BY <1>2, <1>4, <1>5

LEMMA LeastExists == ASSUME NEW S \in SUBSET Nat, S # {} PROVE \E x \in S : \A y \in S : x <= y
<1>1. PICK x \in S : \A y \in S : <<y, x>> \notin OpToRel(<, Nat)
  BY WFMin, NatLessThanWellFounded, Zenon
<1>2. \A y \in S : ~(y < x)
  BY <1>1 DEF OpToRel
<1> QED BY <1>2

LEMMA GreatestExists ==
  ASSUME NEW n \in Nat, NEW S \in SUBSET (0..n), S # {}
  PROVE  \E x \in S : \A y \in S : x >= y
<1> DEFINE T == {n - x : x \in S}
<1>1. \A x \in S : x \in Nat /\ x <= n /\ n - x \in Nat
  OBVIOUS
<1>2. T \in SUBSET Nat /\ T # {}
  BY <1>1
<1>3. PICK t \in T : \A u \in T : t <= u
  BY <1>2, LeastExists
<1>4. PICK x \in S : t = n - x
  BY <1>3
<1>5. ASSUME NEW y \in S PROVE x >= y
  <2>1. n - x <= n - y
    BY <1>3, <1>4
  <2> QED BY <1>1, <2>1
<1> QED BY <1>5

\* Pruning drops days of the log, and never all of them.
LEMMA PruningLeavesADay ==
  ASSUME OLAssumption, NEW segs, DatesOf(segs) # {}
  PROVE  Dropped(segs) \subseteq DatesOf(segs) /\ DatesOf(segs) \ Dropped(segs) # {}
<1> DEFINE KeptFrom(d) == UNION {segs[e] : e \in d..SegmentDate(MaxInterval)}
           newest == Max(DatesOf(segs))
           few == {d \in DatesOf(segs) : d = newest \/ Cardinality(KeptFrom(d)) <= Cap}
           oldest == Min(few)
<1>1. Dropped(segs) = {d \in DatesOf(segs) : d < oldest}
  BY DEF Dropped
<1>2. DatesOf(segs) \subseteq 0..SegmentDate(MaxInterval) /\ SegmentDate(MaxInterval) \in Nat
  BY DatesOfRows DEF DatesOf, Dates
<1>3. newest \in DatesOf(segs)
  BY <1>2, GreatestExists DEF Max
<1>4. few # {} /\ few \subseteq Nat
  BY <1>2, <1>3
<1> HIDE DEF few
<1>5. oldest \in few
  BY <1>4, LeastExists DEF Min
<1>6. oldest \in DatesOf(segs) /\ oldest \in Nat
  BY <1>4, <1>5 DEF few
<1> HIDE DEF oldest
<1> QED BY <1>1, <1>6

-----------------------------------------------------------------------------
(* Loading *)

LEMMA ReadManifestStep ==
  ASSUME OLAssumption, ~QuickReload, LogInv, ReadManifest
  PROVE  LogInv' /\ UNCHANGED disk
<1> USE DEF LogInv
<1>1. /\ phase = "down" /\ phase' = "reading" /\ orphaned = NoRows /\ manifest # {}
      /\ UNCHANGED <<segments, accum, unsaved, gone, manDirty, delayed, orphaned, files, manifest,
                     legacy, day, owed, pruned>>
  BY DEF ReadManifest, Ready, memory, disk, history
<1>2. Segmented' /\ NamedOnDisk'
  BY <1>1 DEF Segmented, Placed, NamedOnDisk
<1>3. WhenReading'
  <2>1. \A d \in Dates : Waiting(d) = {}
    BY <1>1 DEF Waiting, WhenDown, NoRows
  <2>2. \A d \in manifest : Final(d) = files[d]
    BY <2>1 DEF Final, Segmented
  <2>3. owed = UNION {files[d] : d \in manifest}
    BY <1>1, <2>2 DEF WhenDown
  <2> QED BY <1>1, <2>3 DEF WhenReading, WhenDown
<1>4. WhenDown' /\ WhenSplitting' /\ WhenLive' /\ WhenSaving'
  BY <1>1 DEF WhenDown, WhenSplitting, WhenLive, WhenSaving, Live
<1> QED BY <1>1, <1>2, <1>3, <1>4 DEF disk

\* The rows of a log are those under all dates.
LEMMA InRows == ASSUME NEW segs, NEW row PROVE row \in RowsOf(segs) <=> \E d \in Dates : row \in segs[d]
BY DEF RowsOf

LEMMA ReadSegmentsStep ==
  ASSUME OLAssumption, ~QuickReload, LogInv, ReadSegments
  PROVE  LogInv' /\ UNCHANGED disk
<1> USE DEF LogInv
<1>1. /\ phase = "reading" /\ phase' = "up"
      /\ segments' = [d \in Dates |-> IF d \in manifest THEN files[d] ELSE {}]
      /\ manDirty' = \E d \in manifest : files[d] = {}
      /\ accum' = Dated(RowsOf(segments'))
      /\ UNCHANGED <<unsaved, gone, delayed, orphaned, files, manifest, legacy, day, owed, pruned>>
  BY DEF ReadSegments, disk, history
<1>2. delayed = NoRows /\ orphaned = NoRows /\ gone = {} /\ manifest # {} /\ manifest \subseteq Dates
  BY <1>1 DEF WhenReading, Segmented
<1>3. Placed(segments')
  BY <1>1 DEF Segmented, Placed
<1>4. RowsOf(segments') = owed
  <2>1. owed = UNION {files[d] : d \in manifest}
    BY <1>1 DEF WhenReading
  <2>2. \A d \in Dates : segments'[d] = IF d \in manifest THEN files[d] ELSE {}
    BY <1>1
  <2> QED BY <1>2, <2>1, <2>2 DEF RowsOf
<1>5. Segmented'
  <2>1. RowsOf(segments') \subseteq Rows
    BY <1>3 DEF RowsOf, Placed
  <2>2. accum' \subseteq Rows
    BY <1>1, <2>1 DEF Dated
  <2>3. manDirty' \in BOOLEAN
    BY <1>1
  <2> QED BY <1>1, <1>3, <2>2, <2>3 DEF Segmented, Placed, Live
<1>6. NamedOnDisk' /\ WhenDown' /\ WhenReading' /\ WhenSplitting' /\ WhenSaving'
  BY <1>1, <1>2 DEF NamedOnDisk, WhenDown, WhenReading, WhenSplitting, WhenSaving
<1>7. WhenLive'
  <2>1. \A d \in Dates : Waiting(d)' = {} /\ Final(d)' = files[d] /\ delayed'[d] = {}
    BY <1>1, <1>2 DEF Waiting, Final, NoRows
  <2>2. \A d \in Dates : d \notin manifest => files[d] = {} /\ segments'[d] = {}
    BY <1>1, <1>2 DEF NamedOnDisk
  <2>3. \A d \in Dates : segments'[d] = files[d]
    BY <1>1, <2>2
  <2> QED BY <1>1, <1>2, <1>4, <2>1, <2>2, <2>3 DEF WhenLive
<1> QED BY <1>1, <1>5, <1>6, <1>7 DEF disk

LEMMA SplitStep ==
  ASSUME OLAssumption, ~QuickReload, LogInv, Split
  PROVE  LogInv' /\ UNCHANGED disk
<1> USE DEF LogInv
<1>1. /\ phase = "down" /\ phase' = "splitting" /\ orphaned = NoRows /\ manifest = {}
      /\ segments' = [d \in Dates |-> OfDate(legacy, d)]
      /\ unsaved' = DatesOf(segments') /\ manDirty' = (legacy # {})
      /\ UNCHANGED <<accum, gone, delayed, orphaned, files, manifest, legacy, day, owed, pruned>>
  BY DEF Split, Ready, disk, history
<1>2. delayed = NoRows /\ gone = {} /\ owed = legacy
  BY <1>1 DEF WhenDown
<1>3. Placed(segments')
  BY <1>1 DEF Segmented, Placed, OfDate
<1>4. Segmented'
  <2>1. unsaved' \subseteq Dates /\ manDirty' \in BOOLEAN
    BY <1>1 DEF DatesOf
  <2> QED BY <1>1, <1>3, <2>1 DEF Segmented, Placed
<1>5. NamedOnDisk' /\ WhenDown' /\ WhenReading' /\ WhenLive' /\ WhenSaving'
  BY <1>1, <1>2 DEF NamedOnDisk, WhenDown, WhenReading, WhenLive, WhenSaving, Live
<1>6. WhenSplitting'
  <2>1. \A d \in Dates : segments'[d] = OfDate(legacy, d)
    BY <1>1
  <2>2. \A d \in Dates \ unsaved' : segments'[d] = {} /\ files[d] = {}
    BY <1>1, <2>1 DEF DatesOf, NamedOnDisk
  <2> QED BY <1>1, <1>2, <2>1, <2>2 DEF WhenSplitting
<1> QED BY <1>1, <1>4, <1>5, <1>6 DEF disk

LEMMA WriteSegmentStep ==
  ASSUME OLAssumption, ~QuickReload, LogInv, WriteSegment
  PROVE  LogInv' /\ Durable' = Durable
<1> USE DEF LogInv
<1>1. PICK d \in unsaved : files' = [files EXCEPT ![d] = segments[d]] /\ unsaved' = unsaved \ {d}
  BY DEF WriteSegment
<1>2. /\ phase = "splitting" /\ phase' = "splitting"
      /\ UNCHANGED <<segments, accum, gone, manDirty, delayed, orphaned, manifest, legacy, day, owed, pruned>>
  BY DEF WriteSegment, history
<1>3. /\ d \in Dates /\ manifest = {} /\ segments[d] = OfDate(legacy, d)
      /\ delayed = NoRows /\ orphaned = NoRows /\ gone = {}
  BY <1>1, <1>2 DEF WhenSplitting, Segmented
<1>4. /\ Placed(files') /\ files'[d] = segments[d]
      /\ \A e \in Dates \ {d} : files'[e] = files[e]
  BY <1>1, <1>3 DEF Segmented, Placed
<1>5. Segmented'
  BY <1>1, <1>2, <1>4 DEF Segmented, Placed
<1>6. NamedOnDisk'
  BY <1>2, <1>3, <1>4 DEF NamedOnDisk
<1>7. WhenDown' /\ WhenReading' /\ WhenLive' /\ WhenSaving'
  BY <1>2 DEF WhenDown, WhenReading, WhenLive, WhenSaving, Live
<1>8. WhenSplitting'
  <2>1. \A e \in Dates \ unsaved' : files'[e] = segments[e]
    BY <1>1, <1>2, <1>3, <1>4 DEF WhenSplitting
  <2> QED BY <1>2, <1>3, <2>1 DEF WhenSplitting
<1>9. Durable' = Durable
  BY <1>2, <1>3 DEF Durable
<1> QED BY <1>5, <1>6, <1>7, <1>8, <1>9

LEMMA WriteManifestStep ==
  ASSUME OLAssumption, ~QuickReload, LogInv, WriteManifest
  PROVE  LogInv' /\ Durable' = Durable
<1> USE DEF LogInv
<1>1. /\ phase = "splitting" /\ phase' = "splitting" /\ unsaved = {} /\ manDirty
      /\ manifest' = DatesOf(segments) /\ manDirty' = FALSE
      /\ UNCHANGED <<segments, accum, unsaved, gone, delayed, orphaned, files, legacy, day, owed, pruned>>
  BY DEF WriteManifest, history
<1>2. /\ manifest = {} /\ legacy # {} /\ delayed = NoRows /\ orphaned = NoRows /\ gone = {}
      /\ \A d \in Dates : segments[d] = OfDate(legacy, d) /\ files[d] = segments[d]
  BY <1>1 DEF WhenSplitting
<1>3. \A row \in legacy : SegmentDate(row[1]) \in Dates /\ row \in segments[SegmentDate(row[1])]
  BY <1>2, DatesOfRows DEF Segmented, OfDate
<1>4. manifest' # {} /\ manifest' \subseteq Dates
  BY <1>1, <1>2, <1>3 DEF DatesOf
<1>5. Segmented'
  BY <1>1, <1>4 DEF Segmented, Placed
<1>6. NamedOnDisk'
  BY <1>1, <1>2, <1>4 DEF NamedOnDisk, DatesOf
<1>7. WhenDown' /\ WhenReading' /\ WhenLive' /\ WhenSaving'
  BY <1>1 DEF WhenDown, WhenReading, WhenLive, WhenSaving, Live
<1>8. WhenSplitting'
  <2>1. manifest' = DatesOf(segments')
    BY <1>1
  <2> QED BY <1>1, <1>2, <2>1 DEF WhenSplitting
<1>9. Durable' = Durable
  <2>1. UNION {files[d] : d \in manifest'} = legacy
    <3>1. \A d \in manifest' : files[d] \subseteq legacy
      BY <1>2, <1>4 DEF OfDate
    <3>2. \A row \in legacy : \E d \in manifest' : row \in files[d]
      BY <1>1, <1>2, <1>3 DEF DatesOf
    <3> QED BY <3>1, <3>2
  <2> QED BY <1>1, <1>2, <1>4, <2>1 DEF Durable
<1> QED BY <1>5, <1>6, <1>7, <1>8, <1>9

LEMMA RemoveLegacyStep ==
  ASSUME OLAssumption, ~QuickReload, LogInv, RemoveLegacy
  PROVE  LogInv' /\ Durable' = Durable
<1> USE DEF LogInv
<1>1. /\ phase = "splitting" /\ phase' = "up" /\ unsaved = {} /\ ~manDirty
      /\ legacy' = {} /\ accum' = Dated(RowsOf(segments))
      /\ UNCHANGED <<segments, unsaved, gone, manDirty, delayed, orphaned, files, manifest, day, owed, pruned>>
  BY DEF RemoveLegacy, history
<1>2. /\ delayed = NoRows /\ orphaned = NoRows /\ gone = {} /\ owed = legacy
      /\ \A d \in Dates : segments[d] = OfDate(legacy, d) /\ files[d] = segments[d]
      /\ manifest = DatesOf(segments) \/ (manifest = {} /\ legacy = {})
  BY <1>1 DEF WhenSplitting
<1>3. RowsOf(segments) = legacy
  BY <1>2, DatesOfRows DEF RowsOf, OfDate, Segmented
<1>4. manifest = {} => legacy = {} /\ \A d \in Dates : segments[d] = {}
  BY <1>2, <1>3 DEF DatesOf, RowsOf
<1>5. Segmented'
  BY <1>1, <1>3 DEF Segmented, Placed, Live, Dated
<1>6. NamedOnDisk'
  BY <1>1, <1>2, <1>4 DEF NamedOnDisk
<1>7. WhenDown' /\ WhenReading' /\ WhenSplitting' /\ WhenSaving'
  BY <1>1, <1>2 DEF WhenDown, WhenReading, WhenSplitting, WhenSaving
<1>8. WhenLive'
  <2>1. \A d \in Dates : Waiting(d)' = {} /\ Final(d)' = files[d] /\ delayed[d] = {}
    BY <1>1, <1>2 DEF Waiting, Final, NoRows
  <2>2. \A d \in Dates : segments[d] # {} => d \in manifest
    BY <1>2, <1>4 DEF DatesOf
  <2> QED BY <1>1, <1>2, <1>3, <2>1, <2>2 DEF WhenLive
<1>9. Durable' = Durable
  BY <1>1, <1>4 DEF Durable
<1> QED BY <1>5, <1>6, <1>7, <1>8, <1>9

-----------------------------------------------------------------------------
(* Recording *)

\* What a live log that is not in a save has on its way to the disk.
LEMMA WaitingIsHeld ==
  ASSUME LogInv, phase \in {"up", "stopping"}, NEW d \in Dates
  PROVE  /\ delayed[d] # {} => d \in manifest
         /\ delayed[d] \subseteq segments[d] /\ files[d] \subseteq segments[d]
         /\ segments[d] # {} => d \in manifest
         /\ d \in manifest => segments[d] = Final(d)
<1> USE DEF LogInv
<1>1. gone = {} /\ phase \in Live /\ phase # "saving"
  BY DEF WhenSaving, Live
<1>2. /\ segments[d] # {} \/ delayed[d] # {} => d \in manifest
      /\ d \in manifest => segments[d] = Final(d)
      /\ files[d] \subseteq segments[d]
  BY <1>1 DEF WhenLive
<1>3. delayed[d] \subseteq segments[d]
  BY <1>2 DEF Final, Waiting
<1> QED BY <1>2, <1>3

LEMMA RecordStep ==
  ASSUME OLAssumption, ~QuickReload, LogInv, NEW i \in 1..MaxInterval, NEW R \in SUBSET Runs, R # {},
         Record(i, R)
  PROVE  LogInv' /\ UNCHANGED disk
<1> USE DEF LogInv
<1> DEFINE d == SegmentDate(i)
           new == {<<i, r>> : r \in R} \ accum
           grown == [segments EXCEPT ![d] = @ \cup new]
           drop == Dropped(grown)
           lost == UNION {grown[e] : e \in drop}
<1>1. /\ phase = "up" /\ phase' = "saving" /\ day' = d
      /\ segments' = [e \in Dates |-> IF e \in drop THEN {} ELSE grown[e]]
      /\ accum' = (accum \cup new) \ lost
      /\ gone' = drop
      /\ manDirty' = (manDirty \/ segments[d] = {} \/ drop # {})
      /\ delayed' = [delayed EXCEPT ![d] = IF d \in drop THEN @ ELSE grown[d]]
      /\ owed' = (owed \cup new) \ lost
      /\ pruned' = pruned \cup lost
      /\ UNCHANGED <<unsaved, orphaned, files, manifest, legacy>>
  BY DEF Record, Retired, disk
<1>2. /\ d \in Dates /\ MaxInterval \in Nat /\ new \subseteq Rows /\ segments \in [Dates -> SUBSET Rows]
      /\ \A row \in new : SegmentDate(row[1]) = d /\ row[1] # 0
  <2>1. MaxInterval \in Nat
    BY DEF OLAssumption
  <2>2. d \in Dates
    BY <2>1, DatesOfRows
  <2>3. new \subseteq Rows /\ \A row \in new : row[1] = i
    BY <2>1 DEF Rows
  <2> QED BY <2>1, <2>2, <2>3 DEF Segmented, Placed
<1>3. /\ grown[d] = segments[d] \cup new /\ \A e \in Dates \ {d} : grown[e] = segments[e]
      /\ grown \in [Dates -> SUBSET Rows]
  BY <1>2
<1>4. \A e \in Dates : \A row \in grown[e] : SegmentDate(row[1]) = e
  BY <1>2, <1>3 DEF Segmented, Placed
<1>5. owed = RowsOf(segments) /\ accum = Dated(RowsOf(segments)) /\ orphaned = NoRows /\ gone = {}
  BY <1>1 DEF WhenLive, WhenSaving, Live
<1>6. grown[d] # {}
  <2>1. PICK r \in R : TRUE
    OBVIOUS
  <2>2. CASE <<i, r>> \in accum
    <3>1. PICK e \in Dates : <<i, r>> \in segments[e]
      BY <1>5, <2>2 DEF Dated, RowsOf
    <3>2. e = d
      BY <3>1 DEF Segmented, Placed
    <3> QED BY <1>3, <3>1, <3>2
  <2>3. CASE <<i, r>> \notin accum
    BY <1>3, <2>1, <2>3
  <2> QED BY <2>2, <2>3
<1> HIDE DEF grown, new
<1>7. drop \subseteq DatesOf(grown) /\ DatesOf(grown) \ drop # {}
  <2>1. DatesOf(grown) # {}
    BY <1>2, <1>6 DEF DatesOf
  <2> QED BY <2>1, PruningLeavesADay
<1> HIDE DEF drop
<1>8. \A e \in Dates : segments'[e] = IF e \in drop THEN {} ELSE grown[e]
  BY <1>1
<1>9. RowsOf(segments') = RowsOf(grown) \ lost
  <2>1. drop \subseteq Dates
    BY <1>7 DEF DatesOf
  <2>2. ASSUME NEW row PROVE row \in RowsOf(segments') <=> row \in RowsOf(grown) /\ row \notin lost
    <3>1. ASSUME NEW e \in Dates, row \in grown[e], row \in lost PROVE e \in drop
      BY <1>4, <2>1, <3>1
    <3> QED BY <1>8, <2>1, <3>1, InRows
  <2> QED BY <2>2
<1>10. RowsOf(grown) = RowsOf(segments) \cup new
  <2>1. ASSUME NEW row PROVE row \in RowsOf(grown) <=> row \in RowsOf(segments) \/ row \in new
    BY <1>2, <1>3, InRows
  <2> QED BY <2>1
<1>11. owed' = RowsOf(segments')
  BY <1>1, <1>5, <1>9, <1>10
<1>12. accum' = Dated(RowsOf(segments'))
  BY <1>1, <1>2, <1>5, <1>9, <1>10 DEF Dated
<1>13. \A e \in Dates \ {d} : delayed'[e] = delayed[e]
  BY <1>1 DEF Segmented, Placed
<1>14. delayed'[d] = IF d \in drop THEN delayed[d] ELSE grown[d]
  BY <1>1, <1>2 DEF Segmented, Placed
<1>15. Segmented'
  <2>1. Placed(segments')
    BY <1>1, <1>3, <1>4 DEF Placed
  <2>2. Placed(delayed')
    <3>1. delayed' \in [Dates -> SUBSET Rows]
      BY <1>1, <1>2, <1>3 DEF Segmented, Placed
    <3> QED BY <1>4, <1>13, <1>14, <3>1 DEF Segmented, Placed
  <2>3. accum' \subseteq Rows
    BY <1>1, <1>2 DEF Segmented
  <2>4. gone' \subseteq Dates
    BY <1>1, <1>7 DEF DatesOf
  <2>5. manDirty' \in BOOLEAN
    BY <1>1
  <2> QED BY <1>1, <1>2, <2>1, <2>2, <2>3, <2>4, <2>5 DEF Segmented, Placed, Live
<1>16. NamedOnDisk' /\ WhenDown' /\ WhenReading' /\ WhenSplitting'
  BY <1>1 DEF NamedOnDisk, WhenDown, WhenReading, WhenSplitting
<1>17. WhenLive'
  <2>1. manifest = {} => legacy = {}
    BY <1>1 DEF WhenLive, Live
  <2>2. ASSUME NEW e \in Dates \ drop
        PROVE  /\ e \in manifest \/ segments'[e] # {} => segments'[e] = Final(e)'
               /\ files[e] \subseteq segments'[e]
    <3>1. CASE e = d
      <4>1. Final(d)' = grown[d]
        BY <1>1, <1>2, <1>5, <1>6, <1>14, <2>2, <3>1 DEF Final, Waiting, NoRows
      <4>2. files[d] \subseteq segments[d]
        BY <1>1, <1>2, WaitingIsHeld
      <4> QED BY <1>3, <1>8, <2>2, <3>1, <4>1, <4>2
    <3>2. CASE e # d
      <4>1. segments'[e] = segments[e] /\ Final(e)' = Final(e)
        BY <1>1, <1>3, <1>8, <1>13, <2>2, <3>2 DEF Final, Waiting
      <4>2. files[e] \subseteq segments[e] /\ (e \in manifest \/ segments[e] # {} => segments[e] = Final(e))
        BY <1>1, WaitingIsHeld
      <4> QED BY <4>1, <4>2
    <3> QED BY <3>1, <3>2
  <2>3. ASSUME NEW e \in drop
        PROVE  segments'[e] = {} /\ files[e] \cup delayed'[e] \subseteq pruned'
    <3>1. e \in Dates
      BY <1>7 DEF DatesOf
    <3>2. files[e] \subseteq segments[e] /\ delayed[e] \subseteq segments[e]
      BY <1>1, <3>1, WaitingIsHeld
    <3>3. segments[e] \subseteq grown[e] /\ grown[e] \subseteq pruned' /\ delayed'[e] = delayed[e]
      BY <1>1, <1>3, <1>13, <1>14, <2>3, <3>1
    <3> QED BY <1>8, <2>3, <3>1, <3>2, <3>3
  <2>4. ASSUME NEW e \in Dates, segments'[e] # {} \/ delayed'[e] # {}
        PROVE  e \in manifest \/ (e = d /\ segments'[e] # {})
    <3>1. CASE e \in drop \/ e # d
      <4>1. segments[e] # {} \/ delayed[e] # {}
        BY <1>3, <1>8, <1>13, <1>14, <2>4, <3>1
      <4> QED BY <1>1, <4>1, WaitingIsHeld
    <3>2. CASE e \notin drop /\ e = d
      BY <1>6, <1>8, <3>2
    <3> QED BY <3>1, <3>2
  <2> QED BY <1>1, <1>5, <1>11, <1>12, <2>1, <2>2, <2>3, <2>4 DEF WhenLive
<1>18. WhenSaving'
  <2>1. DatesOf(segments') = DatesOf(grown) \ drop
    BY <1>8 DEF DatesOf
  <2>2. ASSUME ~manDirty' PROVE DatesOf(segments') \subseteq manifest'
    <3>1. segments[d] # {} /\ drop = {}
      BY <1>1, <2>2
    <3>2. \A e \in DatesOf(segments') : segments[e] # {}
      BY <1>3, <1>8, <3>1 DEF DatesOf
    <3> QED BY <1>1, <3>2, WaitingIsHeld DEF DatesOf
  <2> QED BY <1>1, <1>7, <2>1, <2>2 DEF WhenSaving
<1> QED BY <1>1, <1>15, <1>16, <1>17, <1>18 DEF disk

-----------------------------------------------------------------------------
(* Saving *)

LEMMA RemoveFileStep ==
  ASSUME OLAssumption, ~QuickReload, LogInv, RemoveFile
  PROVE  LogInv' /\ Durable \ Durable' \subseteq pruned'
<1> USE DEF LogInv
<1>1. PICK m \in gone : m = Min(gone)
  <2>1. gone # {} /\ gone \subseteq Dates /\ Dates \subseteq Nat
    BY DatesOfRows DEF RemoveFile, Segmented, Dates
  <2>2. \E x \in gone : \A y \in gone : x <= y
    BY <2>1, LeastExists
  <2> QED BY <2>1, <2>2 DEF Min
<1>2. /\ m \in Dates /\ phase = "saving" /\ phase' = "saving"
      /\ files' = [files EXCEPT ![m] = {}] /\ delayed' = [delayed EXCEPT ![m] = {}]
      /\ gone' = gone \ {m}
      /\ UNCHANGED <<segments, accum, unsaved, manDirty, orphaned, manifest, legacy, day, owed, pruned>>
  BY <1>1 DEF RemoveFile, history, Segmented
<1>3. /\ Placed(files') /\ Placed(delayed') /\ files'[m] = {} /\ delayed'[m] = {}
      /\ \A e \in Dates \ {m} : files'[e] = files[e] /\ delayed'[e] = delayed[e]
  BY <1>1, <1>2 DEF Segmented, Placed
<1>4. /\ owed = RowsOf(segments) /\ accum = Dated(RowsOf(segments)) /\ orphaned = NoRows
      /\ manifest = {} => legacy = {}
      /\ segments[m] = {} /\ files[m] \subseteq pruned
  BY <1>1, <1>2 DEF WhenLive, Live
<1>5. Segmented'
  BY <1>2, <1>3 DEF Segmented, Placed
<1>6. NamedOnDisk'
  BY <1>2, <1>3 DEF NamedOnDisk
<1>7. WhenDown' /\ WhenReading' /\ WhenSplitting' /\ WhenSaving'
  BY <1>2 DEF WhenDown, WhenReading, WhenSplitting, WhenSaving
<1>8. WhenLive'
  <2>1. Final(m)' = {}
    BY <1>2, <1>3, <1>4 DEF Final, Waiting, NoRows
  <2>2. \A e \in Dates \ {m} : Final(e)' = Final(e)
    BY <1>2, <1>3 DEF Final, Waiting
  <2>3. ASSUME NEW e \in Dates \ gone'
        PROVE  /\ e \in manifest \/ segments[e] # {} => segments[e] = Final(e)'
               /\ files'[e] \subseteq segments[e]
    <3>1. CASE e = m
      BY <1>3, <1>4, <2>1, <3>1
    <3>2. CASE e # m
      <4>1. /\ e \in manifest \/ segments[e] # {} => segments[e] = Final(e)
            /\ files[e] \subseteq segments[e]
        BY <1>2, <2>3, <3>2 DEF WhenLive, Live
      <4> QED BY <1>3, <2>2, <3>2, <4>1
    <3> QED BY <3>1, <3>2
  <2>4. \A e \in gone' : segments[e] = {} /\ files'[e] \cup delayed'[e] \subseteq pruned'
    BY <1>2, <1>3 DEF WhenLive, Live, Segmented
  <2>5. \A e \in Dates : segments[e] # {} \/ delayed'[e] # {} =>
          e \in manifest \/ (phase' = "saving" /\ e = day /\ segments[e] # {})
    BY <1>2, <1>3, <1>4 DEF WhenLive, Live
  <2> QED BY <1>2, <1>4, <2>3, <2>4, <2>5 DEF WhenLive
<1>9. Durable \ Durable' \subseteq pruned'
  <2>1. CASE manifest = {}
    BY <1>2, <2>1 DEF Durable
  <2>2. CASE manifest # {}
    <3>1. Durable = UNION {files[e] : e \in manifest} /\ Durable' = UNION {files'[e] : e \in manifest}
      BY <1>2, <2>2 DEF Durable
    <3>2. \A e \in manifest : files[e] \subseteq files'[e] \cup pruned'
      BY <1>2, <1>3, <1>4 DEF Segmented
    <3> HIDE DEF LogInv
    <3> QED BY <3>1, <3>2
  <2> QED BY <2>1, <2>2
<1> QED BY <1>5, <1>6, <1>7, <1>8, <1>9

LEMMA FinishSaveStep ==
  ASSUME OLAssumption, ~QuickReload, LogInv, FinishSave
  PROVE  LogInv' /\ Durable \subseteq Durable'
<1> USE DEF LogInv
<1>1. /\ phase = "saving" /\ phase' = "up" /\ gone = {} /\ manDirty' = FALSE
      /\ manifest' = IF manDirty THEN DatesOf(segments) ELSE manifest
      /\ UNCHANGED <<segments, accum, unsaved, gone, delayed, orphaned, files, legacy, day, owed, pruned>>
  BY DEF FinishSave, history
<1>2. /\ owed = RowsOf(segments) /\ accum = Dated(RowsOf(segments)) /\ orphaned = NoRows
      /\ manifest = {} => legacy = {}
      /\ \A d \in Dates :
           /\ d \in manifest \/ segments[d] # {} => segments[d] = Final(d)
           /\ files[d] \subseteq segments[d]
           /\ segments[d] # {} \/ delayed[d] # {} => d \in manifest \/ segments[d] # {}
  BY <1>1 DEF WhenLive, Live
<1>3. manifest' # {} /\ DatesOf(segments) \subseteq manifest' /\ manifest' \subseteq Dates
  BY <1>1 DEF WhenSaving, Segmented, DatesOf
<1>4. Segmented'
  BY <1>1, <1>3 DEF Segmented, Placed, Live
<1>5. \A d \in Dates : files[d] # {} => d \in manifest'
  BY <1>2, <1>3 DEF DatesOf
<1>6. NamedOnDisk'
  BY <1>1, <1>3, <1>5 DEF NamedOnDisk
<1>7. WhenDown' /\ WhenReading' /\ WhenSplitting' /\ WhenSaving'
  BY <1>1 DEF WhenDown, WhenReading, WhenSplitting, WhenSaving
<1>8. WhenLive'
  <2>1. \A d \in Dates : Final(d)' = Final(d)
    BY <1>1 DEF Final, Waiting
  <2>2. \A d \in manifest' : d \in manifest \/ segments[d] # {}
    BY <1>1 DEF DatesOf
  <2>3. \A d \in Dates : segments[d] # {} \/ delayed[d] # {} => d \in manifest'
    <3>1. ASSUME NEW d \in Dates, delayed[d] # {} PROVE segments[d] # {}
      BY <1>2, <3>1 DEF Final, Waiting
    <3> QED BY <1>3, <3>1 DEF DatesOf
  <2> QED BY <1>1, <1>2, <1>3, <2>1, <2>2, <2>3 DEF WhenLive
<1>9. Durable \subseteq Durable'
  <2>1. Durable' = UNION {files[d] : d \in manifest'}
    BY <1>1, <1>3 DEF Durable
  <2>2. CASE manifest = {}
    BY <1>2, <2>2 DEF Durable
  <2>3. CASE manifest # {}
    <3>1. \A d \in manifest : d \in manifest' \/ files[d] = {}
      BY <1>5 DEF Segmented
    <3>2. Durable = UNION {files[d] : d \in manifest}
      BY <2>3 DEF Durable
    <3> QED BY <2>1, <3>1, <3>2
  <2> QED BY <2>2, <2>3
<1> QED BY <1>4, <1>6, <1>7, <1>8, <1>9

LEMMA DelayedWriteStep ==
  ASSUME OLAssumption, ~QuickReload, LogInv, NEW d \in Dates, DelayedWrite(d)
  PROVE  LogInv' /\ Durable \ Durable' \subseteq pruned'
<1> USE DEF LogInv
<1>1. /\ delayed[d] # {} /\ ~(phase = "saving" /\ d = day) /\ phase' = phase
      /\ files' = [files EXCEPT ![d] = delayed[d]] /\ delayed' = [delayed EXCEPT ![d] = {}]
      /\ UNCHANGED <<segments, accum, unsaved, gone, manDirty, orphaned, manifest, legacy, day, owed, pruned>>
  BY DEF DelayedWrite, memory, history
<1>2. phase \in Live
  BY <1>1 DEF Segmented, WhenDown, WhenReading, WhenSplitting, NoRows
<1>3. /\ owed = RowsOf(segments) /\ accum = Dated(RowsOf(segments)) /\ orphaned = NoRows
      /\ manifest = {} => legacy = {}
      /\ d \in manifest
  BY <1>1, <1>2 DEF WhenLive
<1>4. /\ files'[d] = delayed[d] /\ delayed'[d] = {}
      /\ \A e \in Dates \ {d} : files'[e] = files[e] /\ delayed'[e] = delayed[e]
      /\ Placed(files') /\ Placed(delayed')
  BY <1>1 DEF Segmented, Placed
<1>5. Segmented'
  BY <1>1, <1>4 DEF Segmented, Placed
<1>6. NamedOnDisk'
  BY <1>1, <1>3, <1>4 DEF NamedOnDisk
<1>7. WhenDown' /\ WhenReading' /\ WhenSplitting' /\ WhenSaving'
  BY <1>1, <1>2 DEF WhenDown, WhenReading, WhenSplitting, WhenSaving, Live
<1>8. Final(d)' = Final(d) /\ Final(d) = delayed[d]
  BY <1>1, <1>3, <1>4 DEF Final, Waiting, NoRows
<1>9. WhenLive'
  <2>1. \A e \in Dates : Final(e)' = Final(e)
    BY <1>1, <1>4, <1>8 DEF Final, Waiting
  <2>2. ASSUME NEW e \in Dates \ gone
        PROVE  /\ e \in manifest \/ segments[e] # {} => segments[e] = Final(e)'
               /\ files'[e] \subseteq segments[e]
    <3>1. e \in manifest \/ segments[e] # {} => segments[e] = Final(e)
      BY <1>2 DEF WhenLive
    <3>2. files[e] \subseteq segments[e]
      BY <1>2 DEF WhenLive
    <3> QED BY <1>3, <1>4, <1>8, <2>1, <3>1, <3>2
  <2>3. \A e \in gone : segments[e] = {} /\ files'[e] \cup delayed'[e] \subseteq pruned
    BY <1>2, <1>4 DEF WhenLive, Segmented
  <2>4. \A e \in Dates : segments[e] # {} \/ delayed'[e] # {} =>
          e \in manifest \/ (phase = "saving" /\ e = day /\ segments[e] # {})
    BY <1>2, <1>3, <1>4 DEF WhenLive
  <2> QED BY <1>1, <1>3, <2>2, <2>3, <2>4 DEF WhenLive
<1>10. Durable \ Durable' \subseteq pruned'
  <2>1. Durable = UNION {files[e] : e \in manifest} /\ Durable' = UNION {files'[e] : e \in manifest}
    BY <1>1, <1>3 DEF Durable
  <2>2. files[d] \subseteq delayed[d] \cup pruned
    <3>1. CASE d \in gone
      BY <1>2, <3>1 DEF WhenLive
    <3>2. CASE d \notin gone
      BY <1>2, <1>3, <1>8, <3>2 DEF WhenLive
    <3> QED BY <3>1, <3>2
  <2>3. \A e \in manifest : files[e] \subseteq files'[e] \cup pruned'
    BY <1>1, <1>4, <2>2 DEF Segmented
  <2> HIDE DEF LogInv
  <2> QED BY <2>1, <2>3
<1> QED BY <1>5, <1>6, <1>7, <1>9, <1>10

-----------------------------------------------------------------------------
(* Stops, crashes and reloads *)

LEMMA OrphanedWriteStep ==
  ASSUME OLAssumption, ~QuickReload, LogInv, NEW d \in Dates, OrphanedWrite(d)
  PROVE  LogInv' /\ Durable \subseteq Durable'
<1> USE DEF LogInv
<1>1. /\ orphaned[d] # {} /\ phase' = phase
      /\ files' = [files EXCEPT ![d] = orphaned[d]] /\ orphaned' = [orphaned EXCEPT ![d] = {}]
      /\ UNCHANGED <<segments, accum, unsaved, gone, manDirty, delayed, manifest, legacy, day, owed, pruned>>
  BY DEF OrphanedWrite, memory, history
<1>2. phase = "down"
  BY <1>1 DEF Segmented, WhenLive, WhenReading, WhenSplitting, NoRows
<1>3. /\ delayed = NoRows /\ gone = {} /\ d \in manifest /\ files[d] \subseteq orphaned[d]
      /\ owed = UNION {Final(e) : e \in manifest} /\ manifest \subseteq Dates
  BY <1>1, <1>2 DEF WhenDown, Segmented
<1>4. /\ files'[d] = orphaned[d] /\ orphaned'[d] = {}
      /\ \A e \in Dates \ {d} : files'[e] = files[e] /\ orphaned'[e] = orphaned[e]
      /\ Placed(files') /\ Placed(orphaned')
  BY <1>1 DEF Segmented, Placed
<1>5. Segmented'
  BY <1>1, <1>4 DEF Segmented, Placed
<1>6. NamedOnDisk'
  BY <1>1, <1>3, <1>4 DEF NamedOnDisk
<1>7. WhenReading' /\ WhenSplitting' /\ WhenLive' /\ WhenSaving'
  BY <1>1, <1>2, <1>3 DEF WhenReading, WhenSplitting, WhenLive, WhenSaving, Live
<1>8. WhenDown'
  <2>1. Final(d)' = Final(d)
    BY <1>1, <1>3, <1>4 DEF Final, Waiting, NoRows
  <2>2. \A e \in Dates \ {d} : Final(e)' = Final(e)
    BY <1>1, <1>4 DEF Final, Waiting
  <2>3. \A e \in manifest : Final(e)' = Final(e)
    BY <1>3, <2>1, <2>2
  <2>4. owed' = UNION {Final(e)' : e \in manifest'}
    BY <1>1, <1>3, <2>3
  <2>5. \A e \in Dates : orphaned'[e] # {} => e \in manifest /\ files'[e] \subseteq orphaned'[e]
    BY <1>2, <1>4 DEF WhenDown
  <2> QED BY <1>1, <1>3, <2>4, <2>5 DEF WhenDown
<1>9. Durable \subseteq Durable'
  <2>1. Durable = UNION {files[e] : e \in manifest} /\ Durable' = UNION {files'[e] : e \in manifest}
    BY <1>1, <1>3 DEF Durable
  <2>2. \A e \in manifest : files[e] \subseteq files'[e]
    BY <1>3, <1>4
  <2> QED BY <2>1, <2>2
<1> QED BY <1>5, <1>6, <1>7, <1>8, <1>9

LEMMA StopStep ==
  ASSUME OLAssumption, ~QuickReload, LogInv, Stop
  PROVE  LogInv' /\ UNCHANGED disk
<1> USE DEF LogInv
<1>1. /\ phase = "up" /\ phase' = "stopping"
      /\ UNCHANGED <<segments, accum, unsaved, gone, manDirty, delayed, orphaned, files, manifest,
                     legacy, day, owed, pruned>>
  BY DEF Stop, memory, disk, history
<1>2. Segmented' /\ NamedOnDisk'
  BY <1>1 DEF Segmented, Placed, NamedOnDisk, Live
<1>3. WhenDown' /\ WhenReading' /\ WhenSplitting' /\ WhenSaving'
  BY <1>1 DEF WhenDown, WhenReading, WhenSplitting, WhenSaving
<1>4. WhenLive'
  <2>1. \A d \in Dates : Final(d)' = Final(d)
    BY <1>1 DEF Final, Waiting
  <2>2. gone = {}
    BY <1>1 DEF WhenSaving
  <2> QED BY <1>1, <2>1, <2>2 DEF WhenLive, Live
<1> QED BY <1>1, <1>2, <1>3, <1>4 DEF disk

\* What a log that is not in a save leaves for the next one to load.
LEMMA NothingLeftBehind ==
  ASSUME LogInv, phase \in {"up", "stopping"}
  PROVE  owed = IF manifest = {} THEN legacy ELSE UNION {Final(d) : d \in manifest}
<1>1. owed = RowsOf(segments) /\ (manifest = {} => legacy = {}) /\ manifest \subseteq Dates
  BY DEF LogInv, WhenLive, Live, Segmented
<1>2. \A d \in Dates : /\ segments[d] # {} => d \in manifest
                       /\ d \in manifest => segments[d] = Final(d)
  BY WaitingIsHeld
<1>3. CASE manifest = {}
  BY <1>1, <1>2, <1>3 DEF RowsOf
<1>4. CASE manifest # {}
  <2>1. \A d \in manifest : segments[d] = Final(d)
    BY <1>1, <1>2
  <2>2. RowsOf(segments) = UNION {segments[d] : d \in manifest}
    BY <1>1, <1>2 DEF RowsOf
  <2>3. UNION {segments[d] : d \in manifest} = UNION {Final(d) : d \in manifest}
    BY <2>1
  <2> QED BY <1>1, <1>4, <2>2, <2>3
<1> QED BY <1>3, <1>4

\* The process or the log is gone, and with it all it had in memory.
LEMMA ForgetStep ==
  ASSUME LogInv, Forget, delayed' = NoRows, Placed(orphaned'), UNCHANGED <<disk, day>>,
         \A d \in Dates : orphaned'[d] # {} => d \in manifest /\ files[d] \subseteq orphaned'[d],
         owed' = IF manifest = {} THEN legacy ELSE UNION {Final(d)' : d \in manifest}
  PROVE  LogInv'
<1> USE DEF LogInv
<1>1. /\ segments' = NoRows /\ accum' = {} /\ unsaved' = {} /\ gone' = {} /\ manDirty' = FALSE
      /\ phase' = "down" /\ UNCHANGED <<files, manifest, legacy, day>>
  BY DEF Forget, disk
<1>2. Placed(segments') /\ Placed(delayed')
  BY <1>1 DEF Placed, NoRows
<1>3. Segmented'
  <2>1. /\ Placed(files) /\ legacy \subseteq Rows /\ manifest \subseteq Dates /\ day \in Dates
    BY DEF Segmented
  <2>2. Placed(files')
    BY <1>1, <2>1 DEF Placed
  <2> QED BY <1>1, <1>2, <2>1, <2>2 DEF Segmented
<1>4. NamedOnDisk' /\ WhenReading' /\ WhenSplitting' /\ WhenLive' /\ WhenSaving'
  BY <1>1 DEF NamedOnDisk, WhenReading, WhenSplitting, WhenLive, WhenSaving, Live
<1>5. WhenDown'
  BY <1>1 DEF WhenDown
<1> QED BY <1>3, <1>4, <1>5

LEMMA StoppedStep ==
  ASSUME OLAssumption, ~QuickReload, LogInv, Stopped
  PROVE  LogInv' /\ UNCHANGED disk
<1>1. /\ phase = "stopping" /\ delayed = NoRows /\ orphaned = NoRows /\ Forget
      /\ UNCHANGED <<delayed, orphaned, disk, day, owed, pruned>>
  BY DEF Stopped, history
<1>2. \A d \in Dates : Final(d)' = Final(d)
  BY <1>1 DEF Final, Waiting, disk
<1>3. manifest \subseteq Dates /\ Placed(orphaned') /\ \A d \in Dates : orphaned'[d] = {}
  BY <1>1 DEF LogInv, Segmented, Placed, NoRows
<1>4. owed' = IF manifest = {} THEN legacy ELSE UNION {Final(d)' : d \in manifest}
  BY <1>1, <1>2, <1>3, NothingLeftBehind
<1> QED BY <1>1, <1>3, <1>4, ForgetStep

LEMMA CrashStep ==
  ASSUME OLAssumption, ~QuickReload, LogInv, Crash
  PROVE  LogInv' /\ UNCHANGED disk
<1>1. /\ Forget /\ delayed' = NoRows /\ orphaned' = NoRows /\ owed' = Durable
      /\ UNCHANGED <<disk, day>>
  BY DEF Crash
<1>2. \A d \in Dates : Final(d)' = files[d]
  BY <1>1 DEF Final, Waiting, disk, NoRows
<1>3. manifest \subseteq Dates /\ Placed(orphaned') /\ \A d \in Dates : orphaned'[d] = {}
  BY <1>1 DEF LogInv, Segmented, Placed, NoRows
<1>4. owed' = IF manifest = {} THEN legacy ELSE UNION {Final(d)' : d \in manifest}
  BY <1>1, <1>2, <1>3 DEF Durable
<1> QED BY <1>1, <1>3, <1>4, ForgetStep

LEMMA UnloadStep ==
  ASSUME OLAssumption, ~QuickReload, LogInv, Unload
  PROVE  LogInv' /\ UNCHANGED disk
<1>1. /\ phase = "up" /\ orphaned = NoRows /\ Forget /\ orphaned' = delayed /\ delayed' = NoRows
      /\ UNCHANGED <<disk, day, owed, pruned>>
  BY DEF Unload, history
<1>2. \A d \in Dates : Final(d)' = Final(d)
  BY <1>1 DEF Final, Waiting, disk, NoRows
<1>3. manifest \subseteq Dates /\ Placed(orphaned')
  BY <1>1 DEF LogInv, Segmented, Placed
<1>4. owed' = IF manifest = {} THEN legacy ELSE UNION {Final(d)' : d \in manifest}
  BY <1>1, <1>2, <1>3, NothingLeftBehind
<1>5. ASSUME NEW d \in Dates, orphaned'[d] # {}
      PROVE  d \in manifest /\ files[d] \subseteq orphaned'[d]
  <2>1. /\ d \in manifest /\ files[d] \subseteq segments[d] /\ segments[d] = Final(d)
    BY <1>1, <1>5, WaitingIsHeld
  <2>2. Final(d) = delayed[d]
    BY <1>1, <1>5 DEF Final, Waiting, NoRows
  <2> QED BY <1>1, <2>1, <2>2
<1> QED BY <1>1, <1>3, <1>4, <1>5, ForgetStep

-----------------------------------------------------------------------------
(* The log *)

LEMMA LogInvInit == ASSUME OLAssumption, Init PROVE LogInv
<1>1. /\ segments = NoRows /\ accum = {} /\ unsaved = {} /\ gone = {} /\ manDirty = FALSE
      /\ delayed = NoRows /\ orphaned = NoRows /\ files = NoRows /\ manifest = {} /\ legacy = Legacy
      /\ phase = "down" /\ day = 1 /\ owed = Legacy
  BY DEF Init
<1>2. 1 \in Dates
  <2>1. PerDay \in Nat \ {0} /\ MaxInterval \in Nat \ {0}
    BY DEF OLAssumption
  <2>2. SegmentDate(MaxInterval) \in Nat /\ SegmentDate(MaxInterval) # 0
    BY <2>1 DEF SegmentDate
  <2> QED BY <2>2 DEF Dates
<1>3. Placed(NoRows)
  BY DEF Placed, NoRows
<1>4. Segmented
  BY <1>1, <1>2, <1>3 DEF Segmented, OLAssumption
<1>5. NamedOnDisk /\ WhenDown
  BY <1>1 DEF NamedOnDisk, WhenDown, NoRows
<1>6. WhenReading /\ WhenSplitting /\ WhenLive /\ WhenSaving
  BY <1>1 DEF WhenReading, WhenSplitting, WhenLive, WhenSaving, Live
<1> QED BY <1>4, <1>5, <1>6 DEF LogInv

LEMMA LogInvStep ==
  ASSUME OLAssumption, ~QuickReload, LogInv, [Next]_vars
  PROVE  LogInv' /\ Durable \ Durable' \subseteq pruned'
<1>1. UNCHANGED disk => Durable' = Durable
  BY DEF disk, Durable
<1>2. CASE Load
  BY <1>1, <1>2, ReadManifestStep, ReadSegmentsStep, SplitStep, WriteSegmentStep, WriteManifestStep,
     RemoveLegacyStep DEF Load
<1>3. CASE Save
  <2>1. CASE RemoveFile
    BY <2>1, RemoveFileStep
  <2>2. CASE FinishSave
    BY <2>2, FinishSaveStep
  <2> QED BY <1>3, <2>1, <2>2 DEF Save
<1>4. CASE Stop \/ Stopped \/ Crash \/ Unload
  BY <1>1, <1>4, StopStep, StoppedStep, CrashStep, UnloadStep
<1>5. ASSUME NEW i \in 1..MaxInterval, NEW R \in (SUBSET Runs) \ {{}}, Record(i, R)
      PROVE  LogInv' /\ Durable' = Durable
  <2>1. R \in SUBSET Runs /\ R # {}
    BY <1>5
  <2>2. LogInv' /\ UNCHANGED disk
    BY <1>5, <2>1, RecordStep, Zenon
  <2> QED BY <1>1, <2>2
<1>6. ASSUME NEW d \in Dates, DelayedWrite(d)
      PROVE  LogInv' /\ Durable \ Durable' \subseteq pruned'
  BY <1>6, DelayedWriteStep
<1>7. ASSUME NEW d \in Dates, OrphanedWrite(d)
      PROVE  LogInv' /\ Durable \ Durable' \subseteq pruned'
  BY <1>7, OrphanedWriteStep
<1>8. CASE UNCHANGED vars
  <2>1. UNCHANGED <<segments, accum, unsaved, gone, manDirty, delayed, orphaned, files, manifest,
                    legacy, phase, day, owed, pruned>>
    BY <1>8 DEF vars, memory, disk, history
  <2>2. \A d \in Dates : Final(d)' = Final(d)
    BY <2>1 DEF Final, Waiting
  <2>3. manifest \subseteq Dates
    BY DEF LogInv, Segmented
  <2>4. Segmented' /\ NamedOnDisk' /\ WhenReading' /\ WhenSplitting' /\ WhenSaving'
    BY <2>1 DEF LogInv, Segmented, Placed, NamedOnDisk, WhenReading, WhenSplitting, WhenSaving
  <2>5. WhenDown'
    BY <2>1, <2>2, <2>3 DEF LogInv, WhenDown
  <2>6. WhenLive'
    BY <2>1, <2>2 DEF LogInv, WhenLive
  <2> QED BY <1>1, <2>1, <2>4, <2>5, <2>6 DEF LogInv, disk
<1> QED BY <1>2, <1>3, <1>4, <1>5, <1>6, <1>7, <1>8 DEF Next

\* LogInv holds at every moment of the log.
LEMMA LogInvHolds == ASSUME OLAssumption, ~QuickReload PROVE Spec => []LogInv
<1>1. Init => LogInv
  BY LogInvInit
<1>2. LogInv /\ [Next]_vars => LogInv'
  BY LogInvStep
<1> QED BY <1>1, <1>2, PTL DEF Spec

\* Unless the process crashed, the log holds exactly what was recorded and not
\* pruned: through delayed saves, stops, reloads and the split of the older file
\* (observation_log.py, async_save and async_load).
THEOREM LogLosesNothing ==
  ASSUME OLAssumption, ~QuickReload PROVE Spec => []NothingIsLost
<1>1. LogInv => NothingIsLost
  BY DEF LogInv, WhenLive, Live, NothingIsLost
<1> QED BY <1>1, LogInvHolds, PTL

\* Once the single file is gone every segment file has its name in the manifest,
\* where a load finds it and a prune removes it (observation_log.py, prune).
THEOREM FilesKeepTheirNames ==
  ASSUME OLAssumption, ~QuickReload PROVE Spec => []FilesAreNamed
<1>1. LogInv => FilesAreNamed
  BY DEF LogInv, NamedOnDisk, OfDate, FilesAreNamed, DatesOf
<1> QED BY <1>1, LogInvHolds, PTL

\* The accumulator never parts from the log it averages: a later reading touches
\* no pruned row and appends no pair twice (observation_log.py, _prune).
THEOREM AccumIsTheLog ==
  ASSUME OLAssumption, ~QuickReload PROVE Spec => []AccumHoldsTheLog
<1>1. LogInv => AccumHoldsTheLog
  BY DEF LogInv, WhenLive, Live, AccumHoldsTheLog
<1> QED BY <1>1, LogInvHolds, PTL

\* What a load would find never shrinks but by pruning, at no step of a split, of
\* a save or of a removal (calibration_store.py, async_load).
THEOREM DurableStays ==
  ASSUME OLAssumption, ~QuickReload PROVE Spec => DurableRowsStay
<1>1. LogInv /\ [Next]_vars => [Durable \ Durable' \subseteq pruned']_vars
  BY LogInvStep
<1> QED BY <1>1, LogInvHolds, PTL DEF Spec, DurableRowsStay
=============================================================================
