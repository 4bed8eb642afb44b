------------------------- MODULE NemwebFetch_proofs -------------------------
(* The NEMWEB gate and the shared PD7DAY fetch, for any number of regions,  *)
(* of other clients, of slots and of attempts, and any gap and window.      *)
EXTENDS NemwebFetch, FiniteSetTheorems, TLAPS

Jobs(n) == [phase : {"none", "list", "file", "other"}, attempt : 0..MaxAttempts, file : 0..n]

(* Everything a caller's step may do to the tasks. *)
Acts(c) ==
  \/ Gate(c) \/ Retry(c) \/ OtherStart(c) \/ Cancel(c)
  \/ c \in Regions /\ (Refresh(c) \/ RefreshInBurst(c) \/ Shared(c))

(* A step is the environment's or one caller's. *)
LEMMA NextSplits == Next <=> Publish \/ Tick \/ \E c \in Callers : Acts(c)
BY DEF Next, Acts, Callers

(* The callers are finitely many and none of them is Nobody. *)
LEMMA CallersFinite == IsFiniteSet(Callers) /\ Nobody \notin Callers /\ Nobody \notin Regions
BY NFAssumption, FS_Union DEF Callers

-----------------------------------------------------------------------------
(* The inductive invariant *)

(* The pace lock is held exactly across the sleep of its holder ... *)
PacerSleeps == \A c \in Callers : pc[c] = "pacing" <=> pacer = c

(* ... which does not end before the gap does: nobody else starts meanwhile. *)
SleepCoversGap == \A c \in Callers : pc[c] = "pacing" => wake[c] >= gapLeft

(* What has passed since the last request and what is left add up to a gap. *)
GapAddsUp == sinceAdmitted + gapLeft >= Gap

(* The fetch lock is held exactly by the region between its list and its end. *)
LockHeld == \A r \in Regions : pc[r] \in Locked <=> lock = r

(* A retry is only slept for while there are attempts left. *)
AttemptsLeft ==
  \A c \in Callers : pc[c] \in {"backoff", "heldback"} => job[c].attempt < MaxAttempts

(* The file a region is downloading or parsing is not the one held. *)
FileIsNew ==
  \A r \in Regions :
    /\ pc[r] = "parse" => job[r].phase = "file"
    /\ pc[r] \in Locked /\ job[r].phase = "file" => job[r].file > full

NInv ==
  /\ TypeOK /\ SlotsAccountedFor /\ PacerSleeps /\ SleepCoversGap /\ GapAddsUp
  /\ LockHeld /\ AttemptsLeft /\ FileIsNew

-----------------------------------------------------------------------------
(* Typing *)

(* The invariant holds at the start. *)
LEMMA InitNInv == Init => NInv
<1> SUFFICES ASSUME Init PROVE NInv
  OBVIOUS
<1>1. GateOK
  <2>1. Cardinality({}) = 0
    BY FS_EmptySet
  <2> QED
    BY <2>1, NFAssumption DEF Init, GateOK
<1>2. SharedOK /\ TasksOK
  BY NFAssumption DEF Init, SharedOK, TasksOK, NoJob
<1>3. SlotsAccountedFor /\ PacerSleeps /\ SleepCoversGap /\ GapAddsUp
  BY CallersFinite, NFAssumption DEF Init, SlotsAccountedFor, PacerSleeps, SleepCoversGap, GapAddsUp, Held
<1>4. LockHeld /\ AttemptsLeft /\ FileIsNew
  BY CallersFinite DEF Init, LockHeld, AttemptsLeft, FileIsNew, Locked, Held, Callers
<1> QED
  BY <1>1, <1>2, <1>3, <1>4 DEF NInv, TypeOK

(* A caller's step moves its own task only, and keeps it well typed. *)
LEMMA TaskMoves ==
  ASSUME NInv, NEW c \in Callers, Acts(c)
  PROVE  /\ pc'[c] \in {"idle", "lockwait"} \cup Locked /\ job'[c] \in Jobs(newest)
         /\ pc' \in [Callers -> {"idle", "lockwait"} \cup Locked] /\ job' \in [Callers -> Jobs(newest)]
         /\ \A d \in Callers \ {c} : pc'[d] = pc[d] /\ job'[d] = job[d]
         /\ newest' = newest
<1> USE NFAssumption DEF NInv, TypeOK
<1>1. pc' = [pc EXCEPT ![c] = pc'[c]] /\ pc'[c] \in {"idle", "lockwait"} \cup Locked /\ newest' = newest
  BY DEF Acts, Gate, Retry, Shared, SemAcquire, PaceNow, PaceSleep, PaceWake, Admit, AttemptFails, BackoffOver,
     Notice, DelayOver, NoticeFails, NoticeAgain,
         GiveUp, OtherFetched, OtherStart, Cancel, Refresh, RefreshInBurst, List, SameFile, NewFile, Downloaded,
         Parsed, ParseFails, LetGo, Done, TasksOK, Locked, Held
<1>2. job[c] \in Jobs(newest) /\ newest \in Nat /\ newest >= 1
  BY DEF TasksOK, Jobs, SharedOK
<1>3. job' = [job EXCEPT ![c] = job'[c]] /\ job'[c] \in Jobs(newest)
  <2>1. CASE job' = job
    BY <1>2, <2>1 DEF TasksOK
  <2>2. CASE job' = [job EXCEPT ![c] = NoJob]
    BY <1>2, <2>2 DEF TasksOK, NoJob, Jobs
  <2>3. CASE BackoffOver(c) \/ NoticeAgain(c)
    <3>1. job[c].attempt + 1 \in 0..MaxAttempts
      BY <1>2, <2>3 DEF BackoffOver, NoticeAgain, AttemptsLeft, Jobs
    <3> QED
      BY <1>2, <2>3, <3>1 DEF BackoffOver, NoticeAgain, TasksOK, Jobs
  <2>4. CASE OtherStart(c)
    <3>1. [NoJob EXCEPT !.phase = "other", !.attempt = 1] \in Jobs(newest)
      <4>1. NoJob \in Jobs(newest)
        BY <1>2 DEF NoJob, Jobs
      <4>2. [NoJob EXCEPT !.phase = "other"] \in Jobs(newest)
        BY <4>1 DEF Jobs
      <4>3. 1 \in 0..MaxAttempts
        OBVIOUS
      <4> QED
        BY <4>2, <4>3 DEF Jobs
    <3> QED
      BY <2>4, <3>1 DEF OtherStart, TasksOK
  <2>5. CASE List(c) \/ NewFile(c)
    BY <1>2, <2>5 DEF List, NewFile, TasksOK, Jobs
  <2> QED
    BY <2>1, <2>2, <2>3, <2>4, <2>5
       DEF Acts, Gate, Retry, Shared, SemAcquire, PaceNow, PaceSleep, PaceWake, Admit, AttemptFails,
           Notice, DelayOver, NoticeFails, GiveUp,
           OtherFetched, Cancel, Refresh, RefreshInBurst, SameFile, Downloaded, Parsed, ParseFails, Done
<1> QED
  BY <1>1, <1>3 DEF TasksOK, Jobs

-----------------------------------------------------------------------------
(* The gate *)

(* A caller's step gives or takes the caller its own slot and pace lock only. *)
LEMMA SlotMoves ==
  ASSUME NInv, NEW c \in Callers, Acts(c)
  PROVE  /\ slots' \ {c} = slots \ {c}
         /\ c \in slots' <=> pc'[c] \in Held
         /\ pacer' = c <=> pc'[c] = "pacing"
         /\ pacer' # pacer => c \in {pacer, pacer'} /\ Nobody \in {pacer, pacer'}
         /\ pacer' \in Callers \cup {Nobody}
<1> USE CallersFinite DEF NInv, TypeOK, SlotsAccountedFor, PacerSleeps, GateOK, TasksOK
<1> USE DEF Acts, Gate, Retry, Shared, SemAcquire, PaceNow, PaceSleep, PaceWake, Admit,
        AttemptFails, BackoffOver,
        Notice, DelayOver, NoticeFails, NoticeAgain, GiveUp, OtherFetched, OtherStart, Cancel, Refresh, RefreshInBurst, List,
        SameFile, NewFile, Downloaded, Parsed, ParseFails, LetGo, Done
<1>1. pc' = [pc EXCEPT ![c] = pc'[c]]
  OBVIOUS
<1>2. slots' \ {c} = slots \ {c}
  BY DEF gateVars
<1>3. c \in slots' <=> pc'[c] \in Held
  BY DEF gateVars, Held
<1>4. pacer' = c <=> pc'[c] = "pacing"
  BY DEF gateVars
<1>5. pacer' # pacer => c \in {pacer, pacer'} /\ Nobody \in {pacer, pacer'}
  BY DEF gateVars
<1> QED
  BY <1>2, <1>3, <1>4, <1>5

(* The gate's part of the invariant survives a caller's step. *)
LEMMA GateMoves ==
  ASSUME NInv, NEW c \in Callers, Acts(c)
  PROVE  GateOK' /\ SlotsAccountedFor' /\ PacerSleeps' /\ SleepCoversGap' /\ GapAddsUp'
<1> USE NFAssumption, CallersFinite DEF NInv, TypeOK
<1> USE DEF Acts, Gate, Retry, Shared, SemAcquire, PaceNow, PaceSleep, PaceWake, Admit,
        AttemptFails, BackoffOver,
        Notice, DelayOver, NoticeFails, NoticeAgain, GiveUp, OtherFetched, OtherStart, Cancel, Refresh, RefreshInBurst, List,
        SameFile, NewFile, Downloaded, Parsed, ParseFails, LetGo, Done
<1>1. SlotsAccountedFor'
  <2>1. ASSUME NEW d PROVE d \in slots' <=> d \in Callers /\ pc'[d] \in Held
    <3>1. CASE d = c
      BY <3>1, SlotMoves
    <3>2. CASE d # c
      <4>1. d \in slots' <=> d \in slots
        BY <3>2, SlotMoves
      <4> QED
        BY <3>2, <4>1, TaskMoves DEF SlotsAccountedFor
    <3> QED
      BY <3>1, <3>2
  <2> QED
    BY <2>1 DEF SlotsAccountedFor
<1>2. PacerSleeps'
  BY TaskMoves, SlotMoves DEF PacerSleeps
<1>3. gapLeft' \in Nat /\ wake' \in [Callers -> Nat] /\ sinceAdmitted' \in 0..Gap
  BY DEF GateOK, gateVars
<1>4. GapAddsUp'
  BY DEF GateOK, gateVars, GapAddsUp
<1>5. SleepCoversGap'
  <2> SUFFICES ASSUME NEW d \in Callers, pc'[d] = "pacing" PROVE wake'[d] >= gapLeft'
    BY DEF SleepCoversGap
  <2>1. CASE d = c
    BY <2>1 DEF GateOK, gateVars, SleepCoversGap, TasksOK
  <2>2. CASE d # c
    <3>1. pc[d] = "pacing" /\ pacer = d
      BY <2>2, TaskMoves DEF PacerSleeps
    <3>2. ~(PaceNow(c) \/ PaceWake(c))
      BY <2>2, <3>1 DEF PaceNow, PaceWake, PacerSleeps
    <3>3. gapLeft' = gapLeft /\ wake'[d] = wake[d]
      BY <2>2, <3>2 DEF GateOK, gateVars
    <3> QED
      BY <3>1, <3>3 DEF SleepCoversGap
  <2> QED
    BY <2>1, <2>2
<1>6. slots' \subseteq Callers
  BY <1>1 DEF SlotsAccountedFor
<1>7. Cardinality(slots') <= MaxConcurrent
  <2>1. IsFiniteSet(slots) /\ Cardinality(slots) \in Nat /\ IsFiniteSet(slots') /\ Cardinality(slots') \in Nat
    BY <1>6, FS_Subset, FS_CardinalityType DEF GateOK
  <2>2. CASE SemAcquire(c)
    <3>1. slots' = slots \cup {c} /\ Cardinality(slots) < MaxConcurrent
      BY <2>2 DEF SemAcquire
    <3> QED
      BY <2>1, <3>1, FS_AddElement
  <2>3. CASE ~SemAcquire(c)
    <3>1. slots' \subseteq slots
      BY <2>3 DEF gateVars
    <3>2. Cardinality(slots') <= Cardinality(slots)
      BY <2>1, <3>1, FS_Subset
    <3> QED
      BY <2>1, <3>2 DEF GateOK
  <2> QED
    BY <2>2, <2>3
<1> QED
  BY <1>1, <1>2, <1>3, <1>4, <1>5, <1>6, <1>7, SlotMoves DEF GateOK

-----------------------------------------------------------------------------
(* The shared fetch *)

(* So do the fetch lock's and the attempts' ... *)
LEMMA FetchMoves ==
  ASSUME NInv, NEW c \in Callers, Acts(c)
  PROVE  SharedOK' /\ TasksOK' /\ LockHeld' /\ AttemptsLeft'
<1> USE NFAssumption, CallersFinite DEF NInv, TypeOK
<1> USE DEF Acts, Gate, Retry, Shared, SemAcquire, PaceNow, PaceSleep, PaceWake, Admit,
        AttemptFails, BackoffOver,
        Notice, DelayOver, NoticeFails, NoticeAgain, GiveUp, OtherFetched, OtherStart, Cancel, Refresh, RefreshInBurst, List,
        SameFile, NewFile, Downloaded, Parsed, ParseFails, LetGo, Done
<1>0. newest' = newest /\ newest \in Nat
  BY TaskMoves DEF SharedOK
<1>1. TasksOK'
  BY <1>0, TaskMoves DEF TasksOK, Jobs
<1>2. SharedOK'
  BY <1>0 DEF SharedOK, TasksOK, sharedVars
<1>3. LockHeld'
  <2>1. lock' = lock \/ (lock' = Nobody /\ lock = c) \/ (lock = Nobody /\ lock' = c)
    <3>1. CASE LetGo(c)
      BY <3>1
    <3>2. CASE List(c)
      BY <3>2
    <3>3. CASE ~LetGo(c) /\ ~List(c)
      BY <3>3 DEF sharedVars
    <3> QED
      BY <3>1, <3>2, <3>3
  <2>2. c \in Regions => (lock' = c <=> pc'[c] \in Locked)
    BY DEF sharedVars, LockHeld, Locked, Held, TasksOK
  <2> QED
    BY <2>1, <2>2, TaskMoves DEF LockHeld, Callers
<1>4. AttemptsLeft'
  <2>1. pc'[c] \in {"backoff", "heldback"} => job'[c].attempt < MaxAttempts
    BY DEF AttemptsLeft, TasksOK
  <2> QED
    BY <2>1, TaskMoves DEF AttemptsLeft
<1> QED
  BY <1>1, <1>2, <1>3, <1>4

(* ... and the file's: only the holder of the fetch lock installs a parse. *)
LEMMA FileMoves == ASSUME NInv, NEW c \in Callers, Acts(c) PROVE FileIsNew'
<1> USE NFAssumption, CallersFinite DEF NInv, TypeOK
<1> SUFFICES ASSUME NEW r \in Regions
             PROVE  /\ pc'[r] = "parse" => job'[r].phase = "file"
                    /\ pc'[r] \in Locked /\ job'[r].phase = "file" => job'[r].file > full'
  BY DEF FileIsNew
<1>1. CASE r = c
  <2>1. CASE Done(c)
    BY <1>1, <2>1 DEF Done, NoJob, TasksOK, Locked, Held
  <2>2. CASE List(c) \/ Refresh(c)
    BY <1>1, <2>2 DEF List, Refresh, TasksOK, Locked, Held
  <2>3. CASE NewFile(c)
    BY <1>1, <2>3 DEF NewFile, TasksOK, SharedOK, sharedVars
  <2>4. CASE Gate(c) \/ AttemptFails(c) \/ BackoffOver(c) \/ Notice(c) \/ Downloaded(c)
    <3>1. pc[r] \in Locked /\ full' = full /\ job'[r].phase = job[r].phase /\ job'[r].file = job[r].file
      BY <1>1, <2>4 DEF Gate, SemAcquire, PaceNow, PaceSleep, PaceWake, Admit, AttemptFails, BackoffOver,
         Notice, DelayOver, NoticeFails, NoticeAgain,
         Downloaded, TasksOK, sharedVars, Locked, Held
    <3>2. pc'[r] = "parse" => job[r].phase = "file"
      BY <1>1, <2>4 DEF Gate, SemAcquire, PaceNow, PaceSleep, PaceWake, Admit, AttemptFails, BackoffOver,
         Notice, DelayOver, NoticeFails, NoticeAgain,
         Downloaded, TasksOK
    <3> QED
      BY <3>1, <3>2 DEF FileIsNew
  <2> QED
    BY <1>1, <2>1, <2>2, <2>3, <2>4
       DEF Acts, Retry, Shared, GiveUp, OtherFetched, OtherStart, Cancel, RefreshInBurst, SameFile, Parsed,
           ParseFails
<1>2. CASE r # c
  <2>1. pc'[r] = pc[r] /\ job'[r] = job[r]
    BY <1>2, TaskMoves DEF Callers
  <2>2. CASE full' = full
    BY <2>1, <2>2 DEF FileIsNew
  <2>3. CASE full' # full
    <3>1. c \in Regions /\ Parsed(c)
      BY <2>3, <1>2 DEF Acts, Gate, Retry, Shared, SemAcquire, PaceNow, PaceSleep, PaceWake, Admit,
         AttemptFails, BackoffOver,
         Notice, DelayOver, NoticeFails, NoticeAgain, GiveUp, OtherFetched, OtherStart, Cancel, Refresh, RefreshInBurst, List,
         SameFile, NewFile, Downloaded, ParseFails, sharedVars
    <3>2. pc[r] \notin Locked
      BY <1>2, <3>1 DEF Parsed, LockHeld, Locked
    <3> QED
      BY <2>1, <3>2 DEF Locked
  <2> QED
    BY <2>2, <2>3
<1> QED
  BY <1>1, <1>2

-----------------------------------------------------------------------------
(* The invariant is inductive *)

(* A publication and the passing of time preserve it too. *)
LEMMA EnvironmentMoves == NInv /\ (Publish \/ Tick) => NInv'
<1> SUFFICES ASSUME NInv, Publish \/ Tick PROVE NInv'
  OBVIOUS
<1> USE NFAssumption, CallersFinite DEF NInv, TypeOK
<1>1. CASE Publish
  <2>1. newest' \in 1..MaxFile /\ newest' = newest + 1
    BY <1>1 DEF Publish, SharedOK
  <2>2. UNCHANGED <<gapLeft, sinceAdmitted, slots, pacer, wake, lock, full, age, pc, job>>
    BY <1>1 DEF Publish, gateVars, sharedVars
  <2>3. GateOK' /\ SharedOK'
    BY <2>1, <2>2 DEF GateOK, SharedOK
  <2>4. TasksOK'
    <3>1. 0..newest \subseteq 0..newest'
      BY <2>1 DEF SharedOK
    <3>2. Jobs(newest) \subseteq Jobs(newest')
      BY <3>1 DEF Jobs
    <3> QED
      BY <2>2, <3>1, <3>2 DEF TasksOK, Jobs
  <2> QED
    BY <2>2, <2>3, <2>4
       DEF SlotsAccountedFor, PacerSleeps, SleepCoversGap, GapAddsUp, LockHeld, AttemptsLeft, FileIsNew
<1>2. CASE Tick
  <2>1. UNCHANGED <<newest, slots, pacer, lock, full, pc, job>>
    BY <1>2 DEF Tick
  <2>2. GateOK' /\ SleepCoversGap' /\ GapAddsUp'
    BY <1>2, <2>1 DEF Tick, GateOK, SleepCoversGap, GapAddsUp
  <2>3. SharedOK' /\ TasksOK'
    BY <1>2, <2>1 DEF Tick, SharedOK, TasksOK
  <2> QED
    BY <2>1, <2>2, <2>3 DEF SlotsAccountedFor, PacerSleeps, LockHeld, AttemptsLeft, FileIsNew
<1> QED
  BY <1>1, <1>2

(* Every step preserves the invariant. *)
LEMMA Inductive == NInv /\ [Next]_vars => NInv'
<1> SUFFICES ASSUME NInv, [Next]_vars PROVE NInv'
  OBVIOUS
<1>1. CASE UNCHANGED vars
  BY <1>1 DEF vars, gateVars, sharedVars, NInv, TypeOK, GateOK, SharedOK, TasksOK,
     SlotsAccountedFor, PacerSleeps, SleepCoversGap, GapAddsUp, LockHeld, AttemptsLeft, FileIsNew
<1>2. ASSUME NEW c \in Callers, Acts(c) PROVE NInv'
  BY <1>2, GateMoves, FetchMoves, FileMoves DEF NInv, TypeOK
<1> QED
  BY <1>1, <1>2, EnvironmentMoves, NextSplits

(* So it holds for ever. *)
THEOREM Invariance == Spec => []NInv
<1> QED
  BY InitNInv, Inductive, PTL DEF Spec

-----------------------------------------------------------------------------
(* The results *)

(* Slots, locks, attempts and served files stay in their ranges; at most     *)
(* MaxConcurrent requests are ever under way (nemweb_gate.py).               *)
THEOREM TypeCorrect == Spec => []TypeOK
<1> QED
  BY Invariance, PTL DEF NInv

(* No cancellation leaks a slot of the semaphore and no request runs without *)
(* one (nemweb_gate.py, __aenter__).                                         *)
THEOREM SlotsAreNotLeaked == Spec => []SlotsAccountedFor
<1> QED
  BY Invariance, PTL DEF NInv

(* Successive acquisitions of the gate are at least min_gap_s apart, whoever *)
(* acquires it and whatever is cancelled in the pace lock (NemwebGate._pace). *)
THEOREM AdmissionsAreApart == Spec => AdmissionsAreSpaced
<1>1. NInv /\ [Next]_vars
        => [\A c \in Callers :
              pc[c] \in {"pacewait", "pacing"} /\ pc'[c] \in {"delay", "request"} => sinceAdmitted >= Gap]_vars
  <2> SUFFICES ASSUME NInv, Next, NEW d \in Callers,
                      pc[d] \in {"pacewait", "pacing"}, pc'[d] \in {"delay", "request"}
               PROVE  sinceAdmitted >= Gap
    OBVIOUS
  <2>1. PICK c \in Callers : Acts(c)
    BY NextSplits DEF Publish, Tick
  <2>2. d = c
    BY <2>1, TaskMoves
  <2>3. PaceNow(c) \/ PaceWake(c)
    BY <2>1, <2>2
       DEF Acts, Gate, Retry, Shared, SemAcquire, PaceSleep, AttemptFails, BackoffOver, Notice, DelayOver,
           NoticeFails, NoticeAgain, GiveUp, OtherFetched, OtherStart, Cancel, Refresh, RefreshInBurst, List,
           SameFile, NewFile, Downloaded, Parsed, ParseFails, Done, NInv, TypeOK, TasksOK
  <2>4. gapLeft = 0
    BY <2>3 DEF PaceNow, PaceWake, NInv, SleepCoversGap, TypeOK, GateOK
  <2> QED
    BY <2>4, NFAssumption DEF NInv, GapAddsUp, TypeOK, GateOK
<1> QED
  BY <1>1, Invariance, PTL DEF Spec, AdmissionsAreSpaced

(* No published PD7DAY file is parsed twice, and no slow download replaces a *)
(* newer parse (pd7day_shared.py, fetch_all).                                *)
THEOREM FilesAreParsedOnce == Spec => EachFileParsedOnce
<1>1. NInv /\ [Next]_vars => [\A r \in Regions : Parsed(r) => full' > full]_vars
  <2> SUFFICES ASSUME NInv, NEW r \in Regions, Parsed(r) PROVE full' > full
    OBVIOUS
  <2> QED
    BY DEF NInv, FileIsNew, Parsed, Locked
<1> QED
  BY <1>1, Invariance, PTL DEF Spec, EachFileParsedOnce

=============================================================================
