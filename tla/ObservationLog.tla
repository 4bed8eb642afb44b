--------------------------- MODULE ObservationLog ---------------------------
(***************************************************************************)
(* The daily segmented observation log of one region (observation_log.py), *)
(* as the actual recorder fills it (actual_recorder.py) and the stores of  *)
(* the entry load it (calibration_store.py, predispatch_record.py): one    *)
(* file per day behind a delayed save, a manifest of the days, whole days  *)
(* pruned, the older single file split on the first load.                  *)
(*                                                                         *)
(* The process may crash between any two steps, may be stopped (Home       *)
(* Assistant then flushes what is delayed), and the entry may be reloaded. *)
(* A Store writes its file at once or not at all.                          *)
(***************************************************************************)
EXTENDS Naturals, FiniteSetsExt

CONSTANTS
  Runs,         \* forecast runs covering an interval
  PerDay,       \* intervals in a day
  MaxInterval,  \* bound: intervals that settle, in time or late
  Cap,          \* max_total
  Legacy,       \* rows of the single file of an older version
  QuickReload   \* may an entry be set up again while its old saves are pending?

(* A row is an observation: <<interval, run>>.  Interval 0 is unusable. *)
Rows == (0..MaxInterval) \X Runs
SegmentDate(interval) == (interval + PerDay - 1) \div PerDay   \* 0: UNDATED_SEGMENT, the oldest
Dates == 0..SegmentDate(MaxInterval)

ASSUME OLAssumption ==
  /\ PerDay \in Nat \ {0} /\ MaxInterval \in Nat \ {0} /\ Cap \in Nat \ {0}
  /\ Legacy \subseteq Rows /\ QuickReload \in BOOLEAN

VARIABLES
  segments,  \* _segments: rows by date ({}: no such date)
  accum,     \* _actual_accum: the rows it holds a running average of
  unsaved,   \* _dirty, across the immediate save of a split
  gone,      \* _removed_dates
  manDirty,  \* _manifest_dirty
  delayed,   \* rows behind the pending delayed save of each date's Store
  orphaned,  \* the same, of the Stores of a log that has been unloaded
  files,     \* on disk: the segment files
  manifest,  \* on disk: the days the manifest names
  legacy,    \* on disk: the single file
  phase,     \* down | reading | splitting | up | saving | stopping
  day,       \* the day last recorded into
  owed,      \* history: the rows a reader of the log is entitled to
  pruned     \* history: the rows pruning ever dropped

disk == <<files, manifest, legacy>>
memory == <<segments, accum, unsaved, gone, manDirty>>
history == <<owed, pruned>>
vars == <<memory, delayed, orphaned, disk, phase, day, history>>

NoRows == [d \in Dates |-> {}]
DatesOf(segs) == {d \in Dates : segs[d] # {}}
RowsOf(segs) == UNION {segs[d] : d \in Dates}
OfDate(rows, d) == {row \in rows : SegmentDate(row[1]) = d}
Dated(rows) == {row \in rows : row[1] # 0}

(* What a load would find if the process died now. *)
Durable == IF manifest = {} THEN legacy ELSE UNION {files[d] : d \in manifest}

Init ==
  /\ segments = NoRows /\ accum = {} /\ unsaved = {} /\ gone = {} /\ manDirty = FALSE
  /\ delayed = NoRows /\ orphaned = NoRows
  /\ files = NoRows /\ manifest = {} /\ legacy = Legacy
  /\ phase = "down" /\ day = 1
  /\ owed = Legacy /\ pruned = {}

-----------------------------------------------------------------------------
(* Loading: async_load *)

Ready == phase = "down" /\ (QuickReload \/ orphaned = NoRows)

ReadManifest ==
  /\ Ready /\ manifest # {}
  /\ phase' = "reading"
  /\ UNCHANGED <<memory, delayed, orphaned, disk, day, history>>

(* Named but missing or empty segments are dropped, the manifest left to the *)
(* next save.  The accumulator is rebuilt from what was loaded.              *)
ReadSegments ==
  /\ phase = "reading"
  /\ segments' = [d \in Dates |-> IF d \in manifest THEN files[d] ELSE {}]
  /\ manDirty' = \E d \in manifest : files[d] = {}
  /\ accum' = Dated(RowsOf(segments'))
  /\ phase' = "up"
  /\ UNCHANGED <<unsaved, gone, delayed, orphaned, disk, day, history>>

(* No manifest: the legacy file's rows replace everything ... *)
Split ==
  /\ Ready /\ manifest = {}
  /\ segments' = [d \in Dates |-> OfDate(legacy, d)]
  /\ unsaved' = DatesOf(segments')
  /\ manDirty' = (legacy # {})
  /\ phase' = "splitting"
  /\ UNCHANGED <<accum, gone, delayed, orphaned, disk, day, history>>

(* ... are saved at once, day by day ... *)
WriteSegment ==
  /\ phase = "splitting"
  /\ \E d \in unsaved :
       /\ files' = [files EXCEPT ![d] = segments[d]]
       /\ unsaved' = unsaved \ {d}
  /\ UNCHANGED <<segments, accum, gone, manDirty, delayed, orphaned, manifest, legacy, phase, day, history>>

WriteManifestFirst ==
  /\ phase = "splitting" /\ manDirty
  /\ manifest' = DatesOf(segments) /\ manDirty' = FALSE
  /\ UNCHANGED <<segments, accum, unsaved, gone, delayed, orphaned, files, legacy, phase, day, history>>

(* ... then the manifest ... *)
WriteManifest ==
  /\ phase = "splitting" /\ unsaved = {} /\ manDirty
  /\ manifest' = DatesOf(segments) /\ manDirty' = FALSE
  /\ UNCHANGED <<segments, accum, unsaved, gone, delayed, orphaned, files, legacy, phase, day, history>>

(* ... and the legacy file is removed. *)
RemoveLegacy ==
  /\ phase = "splitting" /\ unsaved = {} /\ ~manDirty
  /\ legacy' = {}
  /\ accum' = Dated(RowsOf(segments))
  /\ phase' = "up"
  /\ UNCHANGED <<segments, unsaved, gone, manDirty, delayed, orphaned, files, manifest, day, history>>

-----------------------------------------------------------------------------
(* Recording: record_actual, then async_save *)

(* prune: the oldest whole days, until Cap rows or the newest day remain. *)
Dropped(segs) ==
  LET KeptFrom(d) == UNION {segs[e] : e \in d..SegmentDate(MaxInterval)}
      newest == Max(DatesOf(segs))
      oldest == Min({d \in DatesOf(segs) : d = newest \/ Cardinality(KeptFrom(d)) <= Cap})
  IN {d \in DatesOf(segs) : d < oldest}

PruneKeepingAccum(segs, drop) == {}

(* _prune: the accumulator's entries to retire with the days dropped. *)
Retired(segs, drop) == UNION {segs[d] : d \in drop}

(* The price of interval i settles, with the runs R in the forecast history: *)
(* a pair already held is touched, the others are appended, the log pruned,  *)
(* and the day's Store asked for a delayed save of the day's list, which it  *)
(* will write as it then stands.                                             *)
Record(i, R) ==
  /\ phase = "up"
  /\ LET d     == SegmentDate(i)
         new   == {<<i, r>> : r \in R} \ accum
         grown == [segments EXCEPT ![d] = @ \cup new]
         drop  == Dropped(grown)
         lost  == UNION {grown[e] : e \in drop}
     IN /\ segments' = [e \in Dates |-> IF e \in drop THEN {} ELSE grown[e]]
        /\ accum' = (accum \cup new) \ Retired(grown, drop)
        /\ gone' = drop
        /\ manDirty' = (manDirty \/ segments[d] = {} \/ drop # {})
        /\ delayed' = [delayed EXCEPT ![d] = IF d \in drop THEN @ ELSE grown[d]]
        /\ owed' = (owed \cup new) \ lost
        /\ pruned' = pruned \cup lost
  /\ day' = SegmentDate(i) /\ phase' = "saving"
  /\ UNCHANGED <<unsaved, orphaned, disk>>

RemoveThroughNewStore ==
  /\ phase = "saving" /\ gone # {}
  /\ files' = [files EXCEPT ![Min(gone)] = {}]
  /\ gone' = gone \ {Min(gone)}
  /\ UNCHANGED <<segments, accum, unsaved, manDirty, delayed, orphaned, manifest, legacy, phase, day, history>>

(* A pruned day's Store removes its file, and its pending save with it. *)
RemoveFile ==
  /\ phase = "saving" /\ gone # {}
  /\ files' = [files EXCEPT ![Min(gone)] = {}]
  /\ delayed' = [delayed EXCEPT ![Min(gone)] = {}]
  /\ gone' = gone \ {Min(gone)}
  /\ UNCHANGED <<segments, accum, unsaved, manDirty, orphaned, manifest, legacy, phase, day, history>>

FinishSaveWithoutManifest ==
  /\ phase = "saving" /\ gone = {}
  /\ manDirty' = FALSE /\ phase' = "up"
  /\ UNCHANGED <<segments, accum, unsaved, gone, delayed, orphaned, disk, day, history>>

(* The manifest day, if days came or went. *)
FinishSave ==
  /\ phase = "saving" /\ gone = {}
  /\ manifest' = IF manDirty THEN DatesOf(segments) ELSE manifest
  /\ manDirty' = FALSE /\ phase' = "up"
  /\ UNCHANGED <<segments, accum, unsaved, gone, delayed, orphaned, files, legacy, day, history>>

-----------------------------------------------------------------------------
(* Home Assistant: delayed saves, stop, crash, reload *)

(* A delayed save comes due, or is flushed by the stop.  OBS_SAVE_DELAY_S is *)
(* longer than the save that scheduled it.                                   *)
DelayedWrite(d) ==
  /\ delayed[d] # {} /\ ~(phase = "saving" /\ d = day)
  /\ files' = [files EXCEPT ![d] = delayed[d]]
  /\ delayed' = [delayed EXCEPT ![d] = {}]
  /\ UNCHANGED <<memory, orphaned, manifest, legacy, phase, day, history>>

(* The same for a Store of an unloaded log, which nothing has cancelled. *)
OrphanedWrite(d) ==
  /\ orphaned[d] # {}
  /\ files' = [files EXCEPT ![d] = orphaned[d]]
  /\ orphaned' = [orphaned EXCEPT ![d] = {}]
  /\ UNCHANGED <<memory, delayed, manifest, legacy, phase, day, history>>

Forget ==
  /\ segments' = NoRows /\ accum' = {} /\ unsaved' = {} /\ gone' = {} /\ manDirty' = FALSE
  /\ phase' = "down"

Stop ==
  /\ phase = "up" /\ phase' = "stopping"
  /\ UNCHANGED <<memory, delayed, orphaned, disk, day, history>>

(* The process ends once everything delayed has been written. *)
Stopped ==
  /\ phase = "stopping" /\ delayed = NoRows /\ orphaned = NoRows
  /\ Forget
  /\ UNCHANGED <<delayed, orphaned, disk, day, history>>

(* Without a stop what was delayed is lost, and nobody is owed it any more. *)
Crash ==
  /\ phase # "down" \/ orphaned # NoRows
  /\ Forget
  /\ delayed' = NoRows /\ orphaned' = NoRows
  /\ owed' = Durable
  /\ UNCHANGED <<disk, day, pruned>>

(* async_unload_entry lets go of the log and leaves its Stores as they are; *)
(* the entry's next setup builds another log over the same files.           *)
Unload ==
  /\ phase = "up" /\ orphaned = NoRows
  /\ Forget
  /\ orphaned' = delayed /\ delayed' = NoRows
  /\ UNCHANGED <<disk, day, history>>

Load == ReadManifest \/ ReadSegments \/ Split \/ WriteSegment \/ WriteManifest \/ RemoveLegacy
Save == RemoveFile \/ FinishSave

Next ==
  \/ Load \/ Save \/ Stop \/ Stopped \/ Crash \/ Unload
  \/ \E i \in 1..MaxInterval, R \in (SUBSET Runs) \ {{}} : Record(i, R)
  \/ \E d \in Dates : DelayedWrite(d) \/ OrphanedWrite(d)

Spec == Init /\ [][Next]_vars

-----------------------------------------------------------------------------
(* Properties *)

TypeOK ==
  /\ {segments, delayed, orphaned, files} \subseteq [Dates -> SUBSET Rows]
  /\ \A d \in Dates : \A f \in {segments, delayed, orphaned, files} : f[d] = OfDate(f[d], d)
  /\ {accum, legacy, owed, pruned} \subseteq SUBSET Rows
  /\ {unsaved, gone, manifest} \subseteq SUBSET Dates /\ manDirty \in BOOLEAN
  /\ phase \in {"down", "reading", "splitting", "up", "saving", "stopping"} /\ day \in Dates
  /\ phase = "saving" => Cardinality(RowsOf(segments)) <= Cap \/ Cardinality(DatesOf(segments)) = 1

(* Unless the process crashed, whatever was recorded and not pruned is in the *)
(* log, and nothing that was pruned is: through delayed saves, stops, reloads *)
(* and the split (observation_log.py, async_save and async_load).             *)
NothingIsLost == phase \in {"up", "saving", "stopping"} => RowsOf(segments) = owed

(* A row that has reached the disk under a name the manifest lists stays      *)
(* there until it is pruned: not even a crash halfway through the split, the  *)
(* removal of a day or a save loses it (calibration_store.py, async_load).    *)
DurableRowsStay == [][Durable \ Durable' \subseteq pruned']_vars

(* No segment file is left on disk without a name in the manifest, where no   *)
(* load would find it and no prune remove it: a delayed save never brings a   *)
(* pruned day's file back (observation_log.py, prune).                        *)
FilesAreNamed == legacy = {} => DatesOf(files) \subseteq manifest

(* The accumulator holds exactly the dated rows of the log: a reading never   *)
(* updates a row that was pruned, and no pair is appended twice (#132).       *)
AccumHoldsTheLog == phase \in {"up", "saving"} => accum = Dated(RowsOf(segments))
=============================================================================
