--------------------- MODULE CalibratedForecast_proofs ---------------------
(* The calibrated forecast memo, for any number of sensors, intervals,     *)
(* runs and refits.                                                        *)
EXTENDS CalibratedForecast, TLAPS

(* What a task does itself, or has done to it, on the loop and off it. *)
TaskStep(t) ==
  \/ HandlerStep(t) \/ Resume(t) \/ BuildFails(t) \/ CancelledError(t)
  \/ \E e \in Entities : ScheduleWrite(e, t)

LEMMA NoJobType == NoJob \in Jobs
BY CFAssumption DEF NoJob, NoVal, Jobs, Data, Keys, Vals

LEMMA InitType == Init => TypeOK
<1> SUFFICES ASSUME Init PROVE TypeOK
  OBVIOUS
<1>1. InputsOK
  <2>1. data \in Data /\ cal \in Cals /\ stpasa \in 0..MaxStpasa /\ fitting \subseteq 1..MaxFit
    BY CFAssumption DEF Init, Data, Cals
  <2>2. 0..gen = {0}
    BY DEF Init
  <2>3. calOf \in [0..gen -> Cals]
    BY <2>1, <2>2 DEF Init
  <2> QED
    BY <2>1, <2>3 DEF Init, InputsOK
<1>2. IndexOK
  BY CFAssumption DEF Init, IndexOK
<1>3. TasksOK
  BY NoJobType, CFAssumption DEF Init, TasksOK, Waiting
<1>4. EntitiesOK
  BY DEF Init, EntitiesOK
<1> QED
  BY <1>1, <1>2, <1>3, <1>4 DEF TypeOK

(* The handlers of the inputs leave the index and the tasks alone. *)
LEMMA InputsType == TypeOK /\ Inputs => TypeOK'
<1> SUFFICES ASSUME TypeOK, Inputs PROVE TypeOK'
  OBVIOUS
<1> USE DEF TypeOK
<1>1. UNCHANGED <<idxMap, idxRun, ipc, ires, task, attempt, job, memo, entityVars>>
  BY DEF Inputs, NewData, StpasaSave, StpasaExpire, PublishFit, AttachOls, SkipOls, indexVars, taskVars
<1>2. IndexOK' /\ TasksOK' /\ EntitiesOK'
  BY <1>1 DEF IndexOK, TasksOK, EntitiesOK, entityVars
<1>3. CASE NewData
  <2>1. data' \in Data
    BY <1>3, CFAssumption DEF NewData, InputsOK, Data
  <2> QED
    BY <1>2, <1>3, <2>1 DEF NewData, InputsOK
<1>4. CASE StpasaSave \/ StpasaExpire
  <2>1. stpasa' \in 0..MaxStpasa
    BY <1>4, CFAssumption DEF StpasaSave, StpasaExpire, InputsOK
  <2>2. live' \in BOOLEAN /\ UNCHANGED <<data, cal, gen, fitting, calOf>>
    BY <1>4 DEF StpasaSave, StpasaExpire
  <2> QED
    BY <1>2, <2>1, <2>2 DEF InputsOK
<1>5. CASE PublishFit
  <2>0. cal.fit + 1 \in 0..MaxFit /\ cal.fit + 1 \in 1..MaxFit /\ gen + 1 \in Nat
    BY <1>5, CFAssumption DEF PublishFit, InputsOK, Cals
  <2>1. cal' \in Cals /\ gen' \in Nat /\ fitting' \subseteq 1..MaxFit
    BY <1>5, <2>0 DEF PublishFit, InputsOK, Cals
  <2>2. calOf' \in [0..gen' -> Cals]
    BY <1>5, <2>1 DEF PublishFit, InputsOK
  <2> QED
    BY <1>5, <1>2, <2>1, <2>2 DEF PublishFit, InputsOK
<1>6. ASSUME NEW f \in fitting, AttachOls(f) PROVE TypeOK'
  <2>1. cal' \in Cals /\ gen' \in Nat /\ fitting' \subseteq 1..MaxFit
    BY <1>6, CFAssumption DEF AttachOls, InputsOK, Cals
  <2>2. calOf' \in [0..gen' -> Cals]
    BY <1>6, <2>1 DEF AttachOls, InputsOK
  <2> QED
    BY <1>6, <1>2, <2>1, <2>2 DEF AttachOls, InputsOK
<1>7. ASSUME NEW f \in fitting, SkipOls(f) PROVE TypeOK'
  BY <1>7, <1>2 DEF SkipOls, InputsOK
<1> QED
  BY <1>3, <1>4, <1>5, <1>6, <1>7 DEF Inputs

(* A step inside stpasa_index() touches nothing but the index. *)
LEMMA IndexType == ASSUME TypeOK, NEW c \in Callers, IndexStep(c) PROVE TypeOK'
<1> USE DEF TypeOK
<1>1. UNCHANGED <<inputVars, taskVars, memo, entityVars>>
  BY DEF IndexStep, IndexRead, IndexCheck, IndexMap, IndexKey
<1>2. InputsOK' /\ TasksOK' /\ EntitiesOK'
  BY <1>1 DEF InputsOK, TasksOK, EntitiesOK, inputVars, taskVars, entityVars
<1>3. Latest \in 0..MaxStpasa
  BY CFAssumption DEF InputsOK, Latest
<1>4. IndexOK'
  BY <1>3 DEF IndexStep, IndexRead, IndexCheck, IndexMap, IndexKey, IndexOK
<1> QED
  BY <1>2, <1>4

LEMMA PeriodType == ASSUME TypeOK, NEW c \in Callers, CalibratePeriod(c) PROVE TypeOK'
<1> USE DEF TypeOK
<1>1. InputsOK' /\ UNCHANGED <<task, attempt, memo, entityVars, idxMap, idxRun>>
  BY DEF CalibratePeriod, InputsOK, inputVars
<1>2. IndexOK' /\ EntitiesOK'
  BY <1>1, CFAssumption DEF CalibratePeriod, IndexOK, EntitiesOK, entityVars
<1>3. job' \in [Callers -> Jobs]
  <2> DEFINE stps == {ires[c], IF ires[c] = 0 THEN 0 ELSE idxMap}
             val == [runs |-> job[c].val.runs \cup {job[c].data.run, data.run},
                     stps |-> job[c].val.stps \cup stps,
                     cals |-> job[c].val.cals \cup {cal}]
  <2>1. job[c] \in Jobs /\ job[c].left > 0
    BY DEF CalibratePeriod, Building, TasksOK
  <2>2. val \in Vals
    BY <2>1, CFAssumption DEF Vals, Jobs, Data, InputsOK, IndexOK
  <2>3. job' = [job EXCEPT ![c] = [job[c] EXCEPT !.left = job[c].left - 1, !.val = val]]
    BY DEF CalibratePeriod, TasksOK
  <2>4. job[c].left - 1 \in 0..Periods
    BY <2>1, CFAssumption DEF Jobs
  <2>5. [job[c] EXCEPT !.left = job[c].left - 1, !.val = val] \in Jobs
    BY <2>1, <2>2, <2>4 DEF Jobs
  <2> QED
    BY <2>3, <2>5 DEF TasksOK
<1> QED
  BY <1>1, <1>2, <1>3 DEF TasksOK

(* What the loop's handlers do to the index: the loop starts or ends a call. *)
LEMMA HandlerType ==
  ASSUME TypeOK, NEW t \in Tasks,
         TaskStep(t)
  PROVE  TypeOK'
<1> USE DEF TypeOK
<1>1. UNCHANGED <<inputVars, idxMap, idxRun>>
  BY DEF TaskStep, HandlerStep, Resume, WarmHit, WarmMiss, RecheckAndPublish, ReadyToWrite, WarmAgain, WriteHit, WriteMiss,
     LazyPublish, StartWarm, ResumeSuperseded, ResumeBuilt, BuildFails, CancelledError, ScheduleWrite,
     Call, Written, indexVars
<1>2. InputsOK'
  BY <1>1 DEF InputsOK, inputVars
<1>3. IndexOK'
  BY <1>1, CFAssumption
     DEF TaskStep, HandlerStep, Resume, WarmHit, WarmMiss, RecheckAndPublish, ReadyToWrite, WarmAgain, WriteHit, WriteMiss,
     LazyPublish, StartWarm, ResumeSuperseded, ResumeBuilt, BuildFails, CancelledError, ScheduleWrite,
     Call, Written, indexVars, IndexOK, Callers
<1>4. Key \in Keys
  BY DEF Key, Keys, InputsOK, IndexOK, Data
<1>5. task' \in [Tasks -> Handling \cup Waiting]
  BY DEF TaskStep, HandlerStep, Resume, WarmHit, WarmMiss, RecheckAndPublish, ReadyToWrite, WarmAgain, WriteHit, WriteMiss,
     LazyPublish, StartWarm, ResumeSuperseded, ResumeBuilt, BuildFails, CancelledError, ScheduleWrite,
     Call, Written, taskVars, TasksOK, Handling, Waiting
<1>11. EntitiesOK'
  BY DEF TaskStep, HandlerStep, Resume, WarmHit, WarmMiss, RecheckAndPublish, ReadyToWrite, WarmAgain, WriteHit, WriteMiss,
     LazyPublish, StartWarm, ResumeSuperseded, ResumeBuilt, BuildFails, CancelledError, ScheduleWrite,
     Call, Written, Done, entityVars, EntitiesOK
<1>6. attempt' \in [Tasks -> 0..MaxAttempts]
  BY CFAssumption
     DEF TaskStep, HandlerStep, Resume, WarmHit, WarmMiss, RecheckAndPublish, ReadyToWrite, WarmAgain, WriteHit, WriteMiss,
     LazyPublish, StartWarm, ResumeSuperseded, ResumeBuilt, BuildFails, CancelledError, ScheduleWrite,
     Call, Written, taskVars, TasksOK
<1>7. [data |-> data, key |-> Key, left |-> Periods, val |-> NoVal] \in Jobs
  BY <1>4, CFAssumption DEF Jobs, InputsOK, NoVal, Vals
<1>8. job' \in [Callers -> Jobs]
  BY <1>7, NoJobType
     DEF TaskStep, HandlerStep, Resume, WarmHit, WarmMiss, RecheckAndPublish, ReadyToWrite, WarmAgain, WriteHit, WriteMiss,
     LazyPublish, StartWarm, ResumeSuperseded, ResumeBuilt, BuildFails, CancelledError, ScheduleWrite,
     Call, Written, taskVars, TasksOK, Callers
<1>9. \A c \in Callers : job[c].val \in Vals /\ job[c].key \in Keys
  BY DEF TasksOK, Jobs
<1>10. memo' \subseteq [key : Keys, val : Vals]
  BY <1>4, <1>9
     DEF TaskStep, HandlerStep, Resume, WarmHit, WarmMiss, RecheckAndPublish, ReadyToWrite, WarmAgain, WriteHit, WriteMiss,
     LazyPublish, StartWarm, ResumeSuperseded, ResumeBuilt, BuildFails, CancelledError, ScheduleWrite,
     Call, Written, taskVars, TasksOK, Callers
<1> QED
  BY <1>2, <1>3, <1>5, <1>6, <1>8, <1>10, <1>11 DEF TasksOK

LEMMA RemoveType == ASSUME TypeOK, NEW e \in Removable, Remove(e) PROVE TypeOK'
BY CFAssumption DEF Remove, TypeOK, InputsOK, IndexOK, TasksOK, EntitiesOK, inputVars, indexVars, taskVars

LEMMA StutterType == TypeOK /\ UNCHANGED vars => TypeOK'
BY DEF TypeOK, InputsOK, IndexOK, TasksOK, EntitiesOK, vars, inputVars, indexVars, taskVars, entityVars

LEMMA NextType == TypeOK /\ [Next]_vars => TypeOK'
BY InputsType, IndexType, PeriodType, HandlerType, RemoveType, StutterType
   DEF Next, LoopStep, ThreadStep, TaskStep, Callers

(* Every variable keeps its type, whatever the interleaving of the loop and *)
(* the executor threads.                                                    *)
THEOREM TypeCorrect == Spec => []TypeOK
BY InitType, NextType, PTL DEF Spec

-----------------------------------------------------------------------------
(* The inductive invariant behind MemoNamesItsInputs.  A build holds only    *)
(* the inputs its key names for as long as they are the current ones; that   *)
(* is what lets the recheck on the loop stand for the whole build.           *)

Carries(c) ==
  LET j == job[c] IN
  /\ j.data.obj <= data.obj
  /\ j.data.obj = data.obj => j.data = data /\ j.val.runs \subseteq {data.run}
  /\ j.key.run = j.data.run
  /\ j.key.gen <= gen
  /\ j.key.gen = gen => j.val.cals \subseteq {cal}
  /\ j.left < Periods => j.val.runs # {} /\ j.val.cals # {}

ThreadJobs ==
  \A t \in Tasks :
    /\ task[t] \in {"build", "recheck"} => Carries(t)
    /\ task[t] = "recheck" => job[t].data = data /\ job[t].left = 0

LazyJob ==
  \A t \in Tasks :
    task[t] = "lazy" => Carries(Loop) /\ job[Loop].data = data /\ job[Loop].key.gen = gen

OneHandler == \A t, f \in Tasks : task[t] \in Handling /\ task[f] \in Handling => t = f

GenNamesCal == calOf[gen] = cal

MemoHonest ==
  \A m \in memo : /\ m.key.gen \in 0..gen
                  /\ m.val.runs = {m.key.run} /\ m.val.cals = {calOf[m.key.gen]}

IInv == TypeOK /\ ThreadJobs /\ LazyJob /\ OneHandler /\ GenNamesCal /\ MemoHonest

Honest == ThreadJobs /\ LazyJob /\ OneHandler /\ GenNamesCal /\ MemoHonest

LEMMA InitHonest == Init => IInv
<1> SUFFICES ASSUME Init PROVE IInv
  OBVIOUS
<1>1. TypeOK
  BY InitType
<1> QED
  BY <1>1 DEF Init, IInv, ThreadJobs, LazyJob, OneHandler, GenNamesCal, MemoHonest, Handling

(* Steps that leave the builds, the memo and what they depend on alone. *)
LEMMA FrameHonest ==
  Honest /\ UNCHANGED <<data, cal, gen, calOf, task, job, memo>> => Honest'
BY DEF Honest, ThreadJobs, LazyJob, OneHandler, GenNamesCal, MemoHonest, Carries

(* A moved generation only makes the builds in flight stale. *)
LEMMA GenMovesHonest ==
  ASSUME IInv, LoopIdle, gen' = gen + 1, UNCHANGED <<data, task, job, memo>>,
         calOf' = [g \in 0..gen + 1 |-> IF g \in 0..gen THEN calOf[g] ELSE cal']
  PROVE  Honest'
<1>1. TypeOK /\ Honest /\ gen \in Nat
  BY DEF IInv, Honest, TypeOK, InputsOK
<1>2. calOf'[gen'] = cal' /\ \A g \in 0..gen : calOf'[g] = calOf[g] /\ g \in 0..gen'
  BY <1>1
<1>3. ASSUME NEW t \in Tasks, task[t] \in {"build", "recheck"} PROVE Carries(t)'
  <2>1. Carries(t) /\ job[t].key.gen \in Nat
    BY <1>1, <1>3 DEF Honest, ThreadJobs, TypeOK, TasksOK, Jobs, Keys, Callers
  <2> QED
    BY <1>1, <2>1 DEF Carries
<1>4. \A t \in Tasks : task[t] # "recheck" /\ task[t] # "lazy"
  BY DEF LoopIdle, Waiting
<1>5. MemoHonest'
  BY <1>1, <1>2 DEF Honest, MemoHonest
<1> QED
  BY <1>1, <1>2, <1>3, <1>4, <1>5 DEF Honest, ThreadJobs, LazyJob, OneHandler, GenNamesCal

(* So does a new PriceData object. *)
LEMMA NewDataHonest == ASSUME IInv, NewData PROVE Honest'
<1>1. TypeOK /\ Honest
  BY DEF IInv, Honest
<1>2. LoopIdle /\ data'.obj = data.obj + 1 /\ data.obj \in Nat
      /\ UNCHANGED <<cal, gen, calOf, task, job, memo>>
  BY <1>1, CFAssumption DEF NewData, TypeOK, InputsOK, Data, taskVars
<1>3. ASSUME NEW t \in Tasks, task[t] \in {"build", "recheck"} PROVE Carries(t)'
  <2>1. Carries(t) /\ job[t].data.obj \in Nat
    BY <1>1, <1>3, CFAssumption DEF Honest, ThreadJobs, TypeOK, TasksOK, Jobs, Data, Callers
  <2> QED
    BY <1>2, <2>1 DEF Carries
<1>4. \A t \in Tasks : task[t] # "recheck" /\ task[t] # "lazy"
  BY <1>2 DEF LoopIdle, Waiting
<1> QED
  BY <1>1, <1>2, <1>3, <1>4 DEF Honest, ThreadJobs, LazyJob, OneHandler, GenNamesCal, MemoHonest

LEMMA InputsHonest == ASSUME IInv, Inputs PROVE Honest'
<1>1. CASE NewData
  BY <1>1, NewDataHonest
<1>2. CASE PublishFit
  BY <1>2, GenMovesHonest DEF PublishFit, taskVars
<1>3. ASSUME NEW f \in fitting, AttachOls(f) PROVE Honest'
  BY <1>3, GenMovesHonest DEF AttachOls, taskVars
<1>4. CASE StpasaSave \/ StpasaExpire \/ \E f \in fitting : SkipOls(f)
  BY <1>4, FrameHonest DEF StpasaSave, StpasaExpire, SkipOls, taskVars, IInv, Honest
<1> QED
  BY <1>1, <1>2, <1>3, <1>4 DEF Inputs

LEMMA IndexHonest == ASSUME IInv, NEW c \in Callers, IndexStep(c) PROVE Honest'
BY FrameHonest DEF IndexStep, IndexRead, IndexCheck, IndexMap, IndexKey, inputVars, taskVars, IInv, Honest

(* A period adds the inputs that are live now, and they are the build's own  *)
(* unless it is already stale.                                               *)
LEMMA PeriodCarries ==
  ASSUME IInv, NEW c \in Callers, CalibratePeriod(c), NEW d \in Callers, Carries(d)
  PROVE  Carries(d)' /\ job'[d].data = job[d].data /\ job'[d].key = job[d].key
<1>1. TypeOK /\ job \in [Callers -> Jobs] /\ UNCHANGED <<data, cal, gen>>
  BY DEF IInv, TypeOK, TasksOK, CalibratePeriod, inputVars
<1>2. CASE d # c
  <2>1. job'[d] = job[d]
    BY <1>1, <1>2 DEF CalibratePeriod
  <2> QED
    BY <1>1, <2>1 DEF Carries
<1>3. CASE d = c
  <2>1. /\ job'[c].data = job[c].data /\ job'[c].key = job[c].key
        /\ job'[c].val.runs = job[c].val.runs \cup {job[c].data.run, data.run}
        /\ job'[c].val.cals = job[c].val.cals \cup {cal}
    BY <1>1 DEF CalibratePeriod, Jobs, Vals
  <2> QED
    BY <1>1, <1>3, <2>1 DEF Carries
<1> QED
  BY <1>2, <1>3

LEMMA PeriodHonest == ASSUME IInv, NEW c \in Callers, CalibratePeriod(c) PROVE Honest'
<1>1. UNCHANGED <<data, cal, gen, calOf, task, memo>> /\ Honest
  BY DEF CalibratePeriod, inputVars, IInv, Honest
<1>2. ASSUME NEW t \in Tasks, task[t] = "recheck" PROVE job'[t] = job[t]
  <2>1. t # c
    BY <1>1, <1>2, CFAssumption DEF CalibratePeriod, Building, Callers, Honest, ThreadJobs
  <2> QED
    BY <2>1, <1>1 DEF CalibratePeriod, IInv, TypeOK, TasksOK, Callers
<1>3. ThreadJobs'
  BY <1>1, <1>2, PeriodCarries DEF Honest, ThreadJobs, Callers
<1>4. LazyJob'
  BY <1>1, PeriodCarries DEF Honest, LazyJob, Callers
<1> QED
  BY <1>1, <1>3, <1>4 DEF Honest, OneHandler, GenNamesCal, MemoHonest

-----------------------------------------------------------------------------
(* Handlers.  `t` is the only entity whose task is on the loop. *)

LEMMA OneHandlerKept ==
  ASSUME IInv, NEW t \in Tasks, TaskStep(t)
  PROVE  OneHandler' /\ \A f \in Tasks \ {t} : task'[f] = task[f]
<1>1. task \in [Tasks -> Handling \cup Waiting] /\ OneHandler
  BY DEF IInv, TypeOK, TasksOK
<1>2. \A f \in Tasks \ {t} : task'[f] = task[f]
  BY <1>1 DEF TaskStep, HandlerStep, Resume, WarmHit, WarmMiss, RecheckAndPublish, ReadyToWrite, WarmAgain, WriteHit, WriteMiss,
     LazyPublish, StartWarm, ResumeSuperseded, ResumeBuilt, BuildFails, CancelledError, ScheduleWrite,
     Call, Written, taskVars
<1>3. task'[t] \in Handling => task[t] \in Handling \/ LoopIdle
  BY <1>1 DEF TaskStep, HandlerStep, Resume, WarmHit, WarmMiss, RecheckAndPublish, ReadyToWrite, WarmAgain, WriteHit, WriteMiss,
     LazyPublish, StartWarm, ResumeSuperseded, ResumeBuilt, BuildFails, CancelledError, ScheduleWrite,
     Call, Written, taskVars, KeyTaken, Handling
<1>4. OneHandler'
  <2> SUFFICES ASSUME NEW f \in Tasks, NEW g \in Tasks, task'[f] \in Handling, task'[g] \in Handling, f # g
               PROVE  FALSE
    BY DEF OneHandler
  <2>1. Handling \cap Waiting = {}
    BY DEF Handling, Waiting
  <2> QED
    BY <1>1, <1>2, <1>3, <2>1 DEF OneHandler, LoopIdle
<1> QED
  BY <1>1, <1>2, <1>4 DEF OneHandler

(* Steps after which t has no build that matters and the memo is as it was. *)
LEMMA NoBuildHonest ==
  ASSUME IInv, NEW t \in Tasks, TaskStep(t),
         task'[t] \notin {"build", "recheck", "lazy"}, UNCHANGED <<data, cal, gen, calOf, memo>>,
         \A c \in Callers \ {t} : job'[c] = job[c]
  PROVE  Honest'
<1>1. Honest /\ OneHandler' /\ \A f \in Tasks \ {t} : task'[f] = task[f]
  BY OneHandlerKept DEF IInv, Honest
<1>2. \A f \in Tasks \ {t} : job'[f] = job[f]
  BY DEF Callers
<1>3. job'[Loop] = job[Loop]
  BY CFAssumption DEF Callers
<1>4. ThreadJobs' /\ LazyJob'
  BY <1>1, <1>2, <1>3 DEF Honest, ThreadJobs, LazyJob, Carries
<1> QED
  BY <1>1, <1>4 DEF Honest, GenNamesCal, MemoHonest

LEMMA ResumeBuiltHonest == ASSUME IInv, NEW t \in Tasks, ResumeBuilt(t) PROVE Honest'
<1>1. Honest /\ OneHandler' /\ \A f \in Tasks \ {t} : task'[f] = task[f]
  BY OneHandlerKept DEF IInv, Honest, TaskStep, Resume
<1>2. task[t] = "build" /\ job[t].left = 0 /\ job[t].data = data /\ task'[t] = "recheck"
      /\ UNCHANGED <<data, cal, gen, calOf, memo, job>>
  BY <1>1 DEF ResumeBuilt, Honest, ThreadJobs, Carries, Call, inputVars, IInv, TypeOK, TasksOK
<1>3. ThreadJobs' /\ LazyJob'
  BY <1>1, <1>2 DEF Honest, ThreadJobs, LazyJob, Carries
<1> QED
  BY <1>1, <1>2, <1>3 DEF Honest, GenNamesCal, MemoHonest

(* A build starts from the inputs that are live. *)
LEMMA FreshJobCarries ==
  ASSUME TypeOK, NEW c \in Callers, UNCHANGED <<data, cal, gen>>,
         job' = [job EXCEPT ![c] = [data |-> data, key |-> Key, left |-> Periods, val |-> NoVal]]
  PROVE  /\ Carries(c)' /\ job'[c].data = data /\ job'[c].key.gen = gen
         /\ \A d \in Callers \ {c} : job'[d] = job[d]
<1>1. job'[c] = [data |-> data, key |-> Key, left |-> Periods, val |-> NoVal]
      /\ \A d \in Callers \ {c} : job'[d] = job[d]
  BY DEF TypeOK, TasksOK
<1>2. data.obj \in Nat /\ gen \in Nat
  BY CFAssumption DEF TypeOK, InputsOK, Data
<1> QED
  BY <1>1, <1>2, CFAssumption DEF Carries, Key, NoVal

LEMMA WarmMissHonest == ASSUME IInv, NEW t \in Tasks, WarmMiss(t) PROVE Honest'
<1>1. Honest /\ TypeOK /\ OneHandler' /\ \A f \in Tasks \ {t} : task'[f] = task[f]
  BY OneHandlerKept DEF IInv, Honest, TaskStep, HandlerStep
<1>2. task'[t] = "build" /\ UNCHANGED <<data, cal, gen, calOf, memo>>
  BY <1>1 DEF WarmMiss, inputVars, TypeOK, TasksOK
<1>3. Carries(t)' /\ \A d \in Callers \ {t} : job'[d] = job[d]
  BY <1>1, <1>2, FreshJobCarries DEF WarmMiss, Callers
<1>4. ThreadJobs' /\ LazyJob'
  BY <1>1, <1>2, <1>3, CFAssumption DEF Honest, ThreadJobs, LazyJob, Carries, Callers
<1> QED
  BY <1>1, <1>2, <1>4 DEF Honest, GenNamesCal, MemoHonest

LEMMA WriteMissHonest == ASSUME IInv, NEW t \in Tasks, WriteMiss(t) PROVE Honest'
<1>1. Honest /\ TypeOK /\ OneHandler' /\ \A f \in Tasks \ {t} : task'[f] = task[f]
  BY OneHandlerKept DEF IInv, Honest, TaskStep, HandlerStep
<1>2. task[t] = "write" /\ task'[t] = "lazy" /\ UNCHANGED <<data, cal, gen, calOf, memo>>
  BY <1>1 DEF WriteMiss, KeyTaken, Call, inputVars, TypeOK, TasksOK
<1>3. Carries(Loop)' /\ job'[Loop].data = data' /\ job'[Loop].key.gen = gen'
      /\ \A d \in Callers \ {Loop} : job'[d] = job[d]
  BY <1>1, <1>2, FreshJobCarries DEF WriteMiss, Callers
<1>4. ThreadJobs'
  BY <1>1, <1>2, <1>3, CFAssumption DEF Honest, ThreadJobs, Carries, Callers
<1>5. LazyJob'
  BY <1>3 DEF LazyJob
<1> QED
  BY <1>1, <1>2, <1>4, <1>5 DEF Honest, GenNamesCal, MemoHonest

(* A finished build published under the current key holds what the key names. *)
LEMMA PublishHonest ==
  ASSUME TypeOK, GenNamesCal, NEW c \in Callers, Carries(c), job[c].left = 0,
         job[c].data = data, job[c].key.gen = gen
  PROVE  job[c].val.runs = {job[c].key.run} /\ job[c].val.cals = {calOf[job[c].key.gen]}
<1>1. job[c].left < Periods
  BY CFAssumption
<1> QED
  BY <1>1 DEF Carries, GenNamesCal

LEMMA RecheckHonest == ASSUME IInv, NEW t \in Tasks, RecheckAndPublish(t) PROVE Honest'
<1>1. Honest /\ TypeOK /\ OneHandler' /\ \A f \in Tasks \ {t} : task'[f] = task[f]
  BY OneHandlerKept DEF IInv, Honest, TaskStep, HandlerStep
<1>2. task[t] = "recheck" /\ task'[t] = "current" /\ UNCHANGED <<data, cal, gen, calOf>>
      /\ \A d \in Callers \ {t} : job'[d] = job[d]
  BY <1>1 DEF RecheckAndPublish, KeyTaken, Call, inputVars, TypeOK, TasksOK
<1>3. ThreadJobs' /\ LazyJob'
  BY <1>1, <1>2, CFAssumption DEF Honest, ThreadJobs, LazyJob, Carries, Callers
<1>4. CASE Key = job[t].key
  <2>1. Carries(t) /\ job[t].left = 0 /\ job[t].data = data /\ job[t].key.gen = gen /\ gen \in 0..gen
    BY <1>1, <1>2, <1>4 DEF Honest, ThreadJobs, Key, TypeOK, InputsOK
  <2>2. memo' = {[key |-> Key, val |-> job[t].val]}
    BY <1>4 DEF RecheckAndPublish
  <2> QED
    BY <1>1, <1>2, <1>3, <1>4, <2>1, <2>2, PublishHonest DEF Honest, MemoHonest, GenNamesCal, Callers
<1>5. CASE Key # job[t].key
  BY <1>1, <1>2, <1>3, <1>5 DEF RecheckAndPublish, Honest, MemoHonest, GenNamesCal
<1> QED
  BY <1>4, <1>5

LEMMA LazyPublishHonest == ASSUME IInv, NEW t \in Tasks, LazyPublish(t) PROVE Honest'
<1>1. Honest /\ TypeOK /\ OneHandler' /\ \A f \in Tasks \ {t} : task'[f] = task[f]
  BY OneHandlerKept DEF IInv, Honest, TaskStep, HandlerStep
<1>2. task[t] = "lazy" /\ task'[t] = "idle" /\ UNCHANGED <<data, cal, gen, calOf>>
      /\ \A d \in Callers \ {Loop} : job'[d] = job[d]
  BY <1>1 DEF LazyPublish, Written, inputVars, TypeOK, TasksOK
<1>3. ThreadJobs'
  BY <1>1, <1>2, CFAssumption DEF Honest, ThreadJobs, Carries, Callers
<1>4. LazyJob'
  BY <1>1, <1>2 DEF Honest, LazyJob, OneHandler, Handling
<1>5. Carries(Loop) /\ job[Loop].left = 0 /\ job[Loop].data = data /\ job[Loop].key.gen = gen /\ gen \in 0..gen
  BY <1>1, <1>2 DEF Honest, LazyJob, LazyPublish, TypeOK, InputsOK
<1>6. memo' = {[key |-> job[Loop].key, val |-> job[Loop].val]}
  BY DEF LazyPublish
<1>7. MemoHonest'
  BY <1>1, <1>2, <1>5, <1>6, PublishHonest DEF Honest, MemoHonest, Callers
<1> QED
  BY <1>1, <1>2, <1>3, <1>4, <1>7 DEF Honest, GenNamesCal

LEMMA HandlerHonest ==
  ASSUME IInv, NEW t \in Tasks, TaskStep(t)
  PROVE  Honest'
<1>1. task \in [Tasks -> Handling \cup Waiting] /\ job \in [Callers -> Jobs]
  BY DEF IInv, TypeOK, TasksOK
<1>2. CASE StartWarm(t) \/ WarmHit(t) \/ ReadyToWrite(t) \/ WarmAgain(t) \/ WriteHit(t) \/ BuildFails(t)
           \/ ResumeSuperseded(t) \/ CancelledError(t) \/ \E e \in Entities : ScheduleWrite(e, t)
  <2>1. task'[t] \notin {"build", "recheck", "lazy"} /\ UNCHANGED <<data, cal, gen, calOf, memo>>
        /\ \A c \in Callers \ {t} : job'[c] = job[c]
    BY <1>1, <1>2 DEF StartWarm, WarmHit, ReadyToWrite, WarmAgain, WriteHit, ScheduleWrite, BuildFails,
       CancelledError, ResumeSuperseded, Call, Written, inputVars
  <2> QED
    BY <1>2, <2>1, NoBuildHonest DEF TaskStep, HandlerStep, Resume
<1> QED
  BY <1>2, ResumeBuiltHonest, WarmMissHonest, WriteMissHonest, RecheckHonest, LazyPublishHonest
     DEF TaskStep, HandlerStep, Resume

LEMMA RemoveHonest == ASSUME IInv, NEW e \in Removable, Remove(e) PROVE Honest'
BY FrameHonest DEF Remove, inputVars, taskVars, IInv, Honest

LEMMA NextHonest == IInv /\ [Next]_vars => IInv'
<1> SUFFICES ASSUME IInv, [Next]_vars PROVE IInv'
  OBVIOUS
<1>1. TypeOK' /\ Honest
  BY NextType DEF IInv, Honest
<1>2. Honest'
  <2>1. CASE UNCHANGED vars
    BY <1>1, <2>1, FrameHonest DEF vars, inputVars, taskVars
  <2>2. CASE Next
    BY <2>2, InputsHonest, IndexHonest, PeriodHonest, HandlerHonest, RemoveHonest
       DEF Next, LoopStep, ThreadStep, TaskStep, Callers
  <2> QED
    BY <2>1, <2>2
<1> QED
  BY <1>1, <1>2 DEF IInv, Honest

(* Whatever refits, runs and STPASA results land while warms are in their    *)
(* threads, and however many sensors share the slot, a memo entry is a       *)
(* forecast of exactly the run and the calibration its key names (#60).      *)
THEOREM MemoIsHonest == Spec => []MemoNamesItsInputs
<1>1. IInv => MemoNamesItsInputs
  BY DEF IInv, MemoHonest, MemoNamesItsInputs
<1> QED
  BY <1>1, InitHonest, NextHonest, PTL DEF Spec

-----------------------------------------------------------------------------
(* The action properties follow from the same invariant. *)

LEMMA MemoMoves ==
  ASSUME IInv, [Next]_vars, memo' # memo
  PROVE  \E t \in Tasks : RecheckAndPublish(t) \/ LazyPublish(t)
BY DEF Next, Inputs, LoopStep, ThreadStep, HandlerStep, Resume, IndexStep, vars,
   NewData, StpasaSave, StpasaExpire, PublishFit, AttachOls, SkipOls, IndexRead, IndexCheck, IndexMap, IndexKey,
   CalibratePeriod, WarmHit, WarmMiss, ReadyToWrite, WarmAgain, WriteHit, WriteMiss,
   StartWarm, ResumeSuperseded, ResumeBuilt, BuildFails, CancelledError, ScheduleWrite, Remove

(* The slot never goes back to an entry of an earlier run or generation.     *)
THEOREM SlotIsNotOvertaken == Spec => SlotNotOvertaken
<1>1. ASSUME IInv, [Next]_vars, memo' # memo
      PROVE  \A m \in memo' : m.key.run = data.run /\ m.key.gen = gen
  <2>1. PICK t \in Tasks : RecheckAndPublish(t) \/ LazyPublish(t)
    BY <1>1, MemoMoves
  <2>2. CASE RecheckAndPublish(t)
    BY <1>1, <2>2 DEF RecheckAndPublish, Key
  <2>3. CASE LazyPublish(t)
    <3>1. job[Loop].key.run = data.run /\ job[Loop].key.gen = gen
      BY <1>1, <2>3 DEF LazyPublish, IInv, LazyJob, Carries
    <3> QED
      BY <2>3, <3>1 DEF LazyPublish
  <2> QED
    BY <2>1, <2>2, <2>3
<1> QED
  BY <1>1, InitHonest, NextHonest, PTL DEF Spec, SlotNotOvertaken

LEMMA WriteSteps ==
  ASSUME IInv, [Next]_vars, NEW t \in Tasks, task[t] \in {"write", "lazy"}, task'[t] = "idle"
  PROVE  WriteHit(t) \/ LazyPublish(t)
<1>1. task \in [Tasks -> Handling \cup Waiting] /\ OneHandler /\ task[t] \in Handling
  BY DEF IInv, TypeOK, TasksOK, Handling
<1>2. ~LoopIdle
  BY <1>1 DEF LoopIdle, Handling, Waiting
<1>3. task'[t] # task[t]
  OBVIOUS
<1>4. PICK f \in Tasks : HandlerStep(f) \/ BuildFails(f)
  BY <1>2, <1>3 DEF Next, Inputs, LoopStep, ThreadStep, Resume, IndexStep, vars,
   NewData, StpasaSave, StpasaExpire, PublishFit, AttachOls, SkipOls, IndexRead, IndexCheck, IndexMap, IndexKey,
   CalibratePeriod, StartWarm, ResumeSuperseded, ResumeBuilt, CancelledError, ScheduleWrite, Remove, taskVars
<1>5. \A g \in Tasks \ {f} : task'[g] = task[g]
  BY <1>4, OneHandlerKept DEF TaskStep
<1>6. f = t
  BY <1>3, <1>5
<1> QED
  BY <1>1, <1>4, <1>6 DEF HandlerStep, BuildFails, Building, WarmHit, WarmMiss, RecheckAndPublish, ReadyToWrite,
     WarmAgain, WriteMiss, Call, KeyTaken

(* Every state write publishes the run and the calibration of that moment.   *)
THEOREM WritesAreCurrent == Spec => WriteIsCurrent
<1>1. ASSUME IInv, [Next]_vars, NEW t \in Tasks, task[t] \in {"write", "lazy"}, task'[t] = "idle"
      PROVE  \E m \in memo' : m.val.runs = {data.run} /\ m.val.cals = {cal}
  <2>1. WriteHit(t) \/ LazyPublish(t)
    BY <1>1, WriteSteps
  <2>2. TypeOK /\ MemoHonest /\ GenNamesCal
    BY <1>1 DEF IInv
  <2>3. CASE WriteHit(t)
    BY <2>2, <2>3 DEF WriteHit, Cached, Key, MemoHonest, GenNamesCal
  <2>4. CASE LazyPublish(t)
    <3>1. Carries(Loop) /\ job[Loop].left = 0 /\ job[Loop].data = data /\ job[Loop].key.gen = gen
      BY <1>1, <2>4 DEF IInv, LazyJob, LazyPublish
    <3>2. job[Loop].val.runs = {data.run} /\ job[Loop].val.cals = {cal}
      BY <2>2, <3>1, PublishHonest DEF Carries, GenNamesCal, Callers
    <3> QED
      BY <2>4, <3>2 DEF LazyPublish
  <2> QED
    BY <2>1, <2>3, <2>4
<1>2. IInv /\ [Next]_vars =>
        \A t \in Tasks :
          task[t] \in {"write", "lazy"} /\ task'[t] = "idle" =>
            \E m \in memo' : m.val.runs = {data.run} /\ m.val.cals = {cal}
  BY <1>1
<1> QED
  BY <1>2, InitHonest, NextHonest, PTL DEF Spec, WriteIsCurrent

(* What makes a removal complete: while an entity is in hass, every task that *)
(* writes its state is in its pending set, however many were created and in   *)
(* whatever order they end; once it is removed they are all cancelled, and a  *)
(* cancelled task is never back on the loop.                                  *)
AllKnown ==
  /\ \A e \in Entities \ removed : own[e] \subseteq pending[e]
  /\ \A e \in removed : own[e] \subseteq cancelled
  /\ \A t \in cancelled : task[t] \in Waiting

LEMMA TaskStepKnown ==
  ASSUME TypeOK, AllKnown, NEW t \in Tasks, TaskStep(t)
  PROVE  AllKnown'
<1>1. task \in [Tasks -> Handling \cup Waiting] /\ Handling \cap Waiting = {}
      /\ own \in [Entities -> SUBSET Tasks] /\ pending \in [Entities -> SUBSET Tasks]
      /\ cancelled \subseteq Tasks /\ removed \subseteq Entities
  BY CFAssumption DEF TypeOK, TasksOK, EntitiesOK, Handling, Waiting
<1>2. removed' = removed /\ \A f \in Tasks \ {t} : task'[f] = task[f]
  BY <1>1
     DEF TaskStep, HandlerStep, Resume, WarmHit, WarmMiss, RecheckAndPublish, ReadyToWrite, WarmAgain, WriteHit,
     WriteMiss, LazyPublish, StartWarm, ResumeSuperseded, ResumeBuilt, BuildFails, CancelledError, ScheduleWrite,
     Call, Written, entityVars
<1>3. CASE Resume(t)
  <2>1. UNCHANGED entityVars /\ t \notin cancelled
    BY <1>3 DEF Resume, StartWarm, ResumeSuperseded, ResumeBuilt, Call
  <2> QED
    BY <1>1, <1>2, <2>1 DEF AllKnown, entityVars
<1>4. CASE HandlerStep(t)
  <2>1. t \notin cancelled
    <3>1. task[t] \in Handling
      BY <1>4 DEF HandlerStep, WarmHit, WarmMiss, RecheckAndPublish, ReadyToWrite, WarmAgain,
         WriteHit, WriteMiss, LazyPublish, KeyTaken, Handling
    <3> QED
      BY <1>1, <3>1 DEF AllKnown
  <2>2. cancelled' = cancelled /\ (UNCHANGED <<own, pending>> \/ Done(t))
    BY <1>4 DEF HandlerStep, WarmHit, WarmMiss, RecheckAndPublish, ReadyToWrite, WarmAgain,
       WriteHit, WriteMiss, LazyPublish, Call, Written, entityVars
  <2> QED
    BY <1>1, <1>2, <2>1, <2>2 DEF AllKnown, Done
<1>5. CASE BuildFails(t)
  BY <1>1, <1>2, <1>5 DEF BuildFails, AllKnown, entityVars, Waiting
<1>6. CASE CancelledError(t)
  BY <1>1, <1>2, <1>6 DEF CancelledError, AllKnown, Done
<1>7. ASSUME NEW e \in Entities, ScheduleWrite(e, t) PROVE AllKnown'
  BY <1>1, <1>2, <1>7 DEF ScheduleWrite, AllKnown, Waiting
<1> QED
  BY <1>3, <1>4, <1>5, <1>6, <1>7 DEF TaskStep

LEMMA RemoveKnown ==
  ASSUME TypeOK, AllKnown, NEW e \in Removable, Remove(e)
  PROVE  AllKnown'
<1>1. e \in Entities \ removed /\ pending \in [Entities -> SUBSET Tasks] /\ cancelled \subseteq Tasks
  BY CFAssumption DEF Remove, TypeOK, EntitiesOK
<1>2. UNCHANGED <<own, task>> /\ \A t \in Tasks : task[t] \in Waiting
  BY DEF Remove, LoopIdle, taskVars
<1> QED
  BY <1>1, <1>2 DEF Remove, AllKnown

(* A removed entity writes nothing any more, whatever it had in flight.       *)
THEOREM RemovedAreSilent == Spec => []RemovedNeverWrites
<1>1. Init => AllKnown
  BY DEF Init, AllKnown
<1>2. TypeOK /\ AllKnown /\ [Next]_vars => AllKnown'
  <2> SUFFICES ASSUME TypeOK, AllKnown, [Next]_vars PROVE AllKnown'
    OBVIOUS
  <2>1. CASE UNCHANGED <<task, entityVars>>
    BY <2>1 DEF AllKnown, entityVars
  <2> QED
    BY <2>1, TaskStepKnown, RemoveKnown
       DEF Next, Inputs, LoopStep, ThreadStep, IndexStep, TaskStep, vars,
       NewData, StpasaSave, StpasaExpire, PublishFit, AttachOls, SkipOls, IndexRead, IndexCheck, IndexMap, IndexKey,
       CalibratePeriod, taskVars
<1>3. TypeOK /\ AllKnown => RemovedNeverWrites
  BY CFAssumption DEF TypeOK, TasksOK, EntitiesOK, AllKnown, RemovedNeverWrites, Handling, Waiting
<1> QED
  BY <1>1, <1>2, <1>3, TypeCorrect, PTL DEF Spec
=============================================================================
