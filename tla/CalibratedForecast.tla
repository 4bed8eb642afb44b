------------------------- MODULE CalibratedForecast -------------------------
(***************************************************************************)
(* One region's calibrated forecast memo: calibrated_forecast.py, the key  *)
(* in calibration_inputs.py, the STPASA lookup index of coordinator.py and *)
(* the warm-before-write loop of the sensors (sensor.py).                  *)
(*                                                                         *)
(* The event loop runs one handler at a time, up to its next await; builds *)
(* run on executor threads at the same time.  Both call                    *)
(* PD7DayCoordinator.stpasa_index(), so each caller walks through that     *)
(* method read by read and assignment by assignment.                       *)
(***************************************************************************)
EXTENDS Naturals, FiniteSets

CONSTANTS
  Entities,   \* the sensors of the region that warm the memo
  Removable,  \* those of them that may be removed from hass
  Tasks,      \* warm-then-write tasks, any of which any sensor may create
  Loop,       \* the event loop, as a caller of stpasa_index()
  Periods,    \* intervals of one PD7DAY run
  MaxAttempts,\* _MAX_CALIBRATION_WARM_ATTEMPTS
  MaxData,    \* bound: PriceData objects the coordinator publishes
  MaxStpasa,  \* bound: STPASA results saved
  MaxFit      \* bound: refits that publish a result

ASSUME CFAssumption ==
  /\ Loop \notin Tasks /\ Removable \subseteq Entities
  /\ Periods \in Nat \ {0}
  /\ MaxAttempts \in Nat \ {0}
  /\ MaxData \in Nat /\ MaxStpasa \in Nat /\ MaxFit \in Nat

Callers == Tasks \cup {Loop}

VARIABLES
  data,    \* coordinator.data's PriceData: [obj: identity, run: forecast_generated_at]
  stpasa,  \* StpasaStore: number of the last result saved (0: none)
  live,    \* StpasaStore.latest() still serves it (not past the 4 h TTL)
  cal,     \* CalibrationStore._calibration: [fit, ols attached]
  gen,     \* CalibrationStore._fit_generation
  fitting, \* results published by async_refit whose OLS stage 2 is still in the executor
  calOf,   \* history: the calibration each fit generation named
  idxMap,  \* _stpasa_index_map/_sorted: the result they were built from (0: empty)
  idxRun,  \* _stpasa_index_run: the result the key names (0: None)
  ipc, ires,  \* per caller: position inside stpasa_index(), and its local `result`
  task,    \* where each warm-then-write task is
  attempt, \* per task: warm attempts made for this write
  job,     \* per caller: the build in progress
  memo,    \* _calibrated_forecast_cache[region]: {} or {[key, val]}
  own,     \* history: the tasks that write each entity's state
  pending, \* per entity: _pending_warm_writes
  cancelled, \* tasks cancelled and not yet resumed with CancelledError
  removed  \* entities removed from hass

indexVars == <<idxMap, idxRun, ipc, ires>>
inputVars == <<data, stpasa, live, cal, gen, fitting, calOf>>
taskVars  == <<task, attempt, job>>
entityVars == <<own, pending, cancelled, removed>>
vars == <<inputVars, indexVars, taskVars, memo, entityVars>>

Cals == [fit : 0..MaxFit, ols : BOOLEAN]
Data == [obj : 0..MaxData, run : Nat]
Keys == [run : Nat, stp : 0..MaxStpasa, gen : Nat]
Vals == [runs : SUBSET Nat, stps : SUBSET (0..MaxStpasa), cals : SUBSET Cals]
Jobs == [data : Data, key : Keys, left : 0..Periods, val : Vals]

Handling == {"warm", "recheck", "current", "write", "lazy"}  \* on the loop now
Waiting  == {"idle", "due", "build", "failed"}               \* at an await, or no task

LoopIdle == \A t \in Tasks : task[t] \in Waiting
Latest == IF live THEN stpasa ELSE 0
NoVal == [runs |-> {}, stps |-> {}, cals |-> {}]
NoJob == [data |-> [obj |-> 0, run |-> 0], key |-> [run |-> 0, stp |-> 0, gen |-> 0],
          left |-> 0, val |-> NoVal]

Init ==
  /\ data = [obj |-> 0, run |-> 0]
  /\ stpasa = 0 /\ live = FALSE
  /\ cal = [fit |-> 0, ols |-> FALSE] /\ gen = 0 /\ fitting = {}
  /\ calOf = [g \in {0} |-> [fit |-> 0, ols |-> FALSE]]
  /\ idxMap = 0 /\ idxRun = 0
  /\ ipc = [c \in Callers |-> "out"] /\ ires = [c \in Callers |-> 0]
  /\ task = [t \in Tasks |-> "idle"] /\ attempt = [t \in Tasks |-> 0]
  /\ job = [c \in Callers |-> NoJob]
  /\ memo = {}
  /\ own = [e \in Entities |-> {}] /\ pending = [e \in Entities |-> {}]
  /\ cancelled = {} /\ removed = {}

-----------------------------------------------------------------------------
(* The inputs move, each from a handler of its own on the loop. *)

(* A coordinator refresh publishes a new PriceData object; a re-download of *)
(* the file already held makes a new object of the same run.                *)
NewData ==
  /\ LoopIdle /\ data.obj < MaxData
  /\ \E r \in {data.run, data.run + 1} : data' = [obj |-> data.obj + 1, run |-> r]
  /\ UNCHANGED <<stpasa, live, cal, gen, fitting, calOf, indexVars, taskVars, memo, entityVars>>

StpasaSave ==
  /\ LoopIdle /\ stpasa < MaxStpasa
  /\ stpasa' = stpasa + 1 /\ live' = TRUE
  /\ UNCHANGED <<data, cal, gen, fitting, calOf, indexVars, taskVars, memo, entityVars>>

(* Time alone ends the 4 h TTL: no handler runs.  A result outlives by hours *)
(* a build it was saved during.                                              *)
StpasaExpire ==
  /\ live /\ live' = FALSE
  /\ \A t \in Tasks : task[t] \in {"build", "recheck"} => job[t].key.stp = stpasa
  /\ UNCHANGED <<data, stpasa, cal, gen, fitting, calOf, indexVars, taskVars, memo, entityVars>>

(* async_refit: a stage 1 fit returns from the executor and is published. *)
PublishFit ==
  /\ LoopIdle /\ cal.fit < MaxFit
  /\ cal' = [fit |-> cal.fit + 1, ols |-> FALSE]
  /\ gen' = gen + 1
  /\ calOf' = [g \in 0..gen + 1 |-> IF g \in 0..gen THEN calOf[g] ELSE cal']
  /\ fitting' = fitting \cup {cal.fit + 1}
  /\ UNCHANGED <<data, stpasa, live, indexVars, taskVars, memo, entityVars>>

(* async_refit: the OLS stage 2 of result f lands on that result object, which *)
(* an overlapping refit may have replaced; the generation moves either way.    *)
AttachOls(f) ==
  /\ LoopIdle /\ f \in fitting
  /\ cal' = IF cal.fit = f THEN [fit |-> f, ols |-> TRUE] ELSE cal
  /\ gen' = gen + 1
  /\ calOf' = [g \in 0..gen + 1 |-> IF g \in 0..gen THEN calOf[g] ELSE cal']
  /\ fitting' = fitting \ {f}
  /\ UNCHANGED <<data, stpasa, live, indexVars, taskVars, memo, entityVars>>

(* No STPASA-tagged observations, or the stage 2 fit raised: isotonic only. *)
SkipOls(f) ==
  /\ LoopIdle /\ f \in fitting
  /\ fitting' = fitting \ {f}
  /\ UNCHANGED <<data, stpasa, live, cal, gen, calOf, indexVars, taskVars, memo, entityVars>>

-----------------------------------------------------------------------------
(* PD7DayCoordinator.stpasa_index(), one shared read or assignment per step. *)

(* result = store.latest() *)
IndexRead(c) ==
  /\ ipc[c] = "read"
  /\ ires' = [ires EXCEPT ![c] = Latest]
  /\ ipc' = [ipc EXCEPT ![c] = "check"]
  /\ UNCHANGED <<idxMap, idxRun, inputVars, taskVars, memo, entityVars>>

(* No result: clear unconditionally.  Otherwise rebuild if the key differs. *)
IndexCheck(c) ==
  /\ ipc[c] = "check"
  /\ ipc' = [ipc EXCEPT ![c] = IF ires[c] = 0 \/ ires[c] # idxRun THEN "map" ELSE "done"]
  /\ UNCHANGED <<idxMap, idxRun, ires, inputVars, taskVars, memo, entityVars>>

(* The data first ... *)
IndexMap(c) ==
  /\ ipc[c] = "map"
  /\ idxMap' = ires[c]
  /\ ipc' = [ipc EXCEPT ![c] = "key"]
  /\ UNCHANGED <<idxRun, ires, inputVars, taskVars, memo, entityVars>>

(* ... the key last. *)
IndexKey(c) ==
  /\ ipc[c] = "key"
  /\ idxRun' = ires[c]
  /\ ipc' = [ipc EXCEPT ![c] = "done"]
  /\ UNCHANGED <<idxMap, ires, inputVars, taskVars, memo, entityVars>>

-----------------------------------------------------------------------------
(* _calibrated_forecast_values: on a thread for a warm, on the loop for the  *)
(* lazy path.  Each period reads the index, the live coordinator data (run   *)
(* features, covariates) and the live calibration.                           *)

Building(c) ==
  /\ job[c].left > 0
  /\ IF c = Loop THEN ~LoopIdle ELSE task[c] = "build"

(* calibrate_interval for the next period, after its stpasa_index() returned. *)
CalibratePeriod(c) ==
  /\ Building(c) /\ ipc[c] = "done"
  /\ LET j == job[c]
         stps == {ires[c], IF ires[c] = 0 THEN 0 ELSE idxMap}
     IN job' = [job EXCEPT ![c].left = @ - 1,
                           ![c].val = [runs |-> @.runs \cup {j.data.run, data.run},
                                       stps |-> @.stps \cup stps,
                                       cals |-> @.cals \cup {cal}]]
  /\ ipc' = [ipc EXCEPT ![c] = IF job[c].left = 1 THEN "out" ELSE "read"]
  /\ ires' = [ires EXCEPT ![c] = 0]
  /\ UNCHANGED <<idxMap, idxRun, inputVars, task, attempt, memo, entityVars>>

(* The build raises on its thread; the warm logs it and the write goes on. *)
BuildFails(t) ==
  /\ Building(t) /\ ipc[t] = "done"
  /\ task' = [task EXCEPT ![t] = "failed"]
  /\ job' = [job EXCEPT ![t] = NoJob]
  /\ ipc' = [ipc EXCEPT ![t] = "out"] /\ ires' = [ires EXCEPT ![t] = 0]
  /\ UNCHANGED <<idxMap, idxRun, inputVars, attempt, memo, entityVars>>

-----------------------------------------------------------------------------
(* The loop's handlers for entity e.  Each call of key() first walks          *)
(* stpasa_index().  Locals that are dead are reset.                           *)

KeyWithoutGeneration == [run |-> data.run, stp |-> idxRun, gen |-> 0]

Key == [run |-> data.run, stp |-> idxRun, gen |-> gen]
Cached(k) == \E m \in memo : m.key = k

(* The handler moves on to `op`, which starts by taking the key. *)
Call(t, op) ==
  /\ task' = [task EXCEPT ![t] = op]
  /\ ipc' = [ipc EXCEPT ![Loop] = "read"] /\ ires' = [ires EXCEPT ![Loop] = 0]
  /\ UNCHANGED <<inputVars, idxMap, idxRun, entityVars>>

KeyTaken(t, op) == task[t] = op /\ ipc[Loop] = "done"

ScheduleKeepsTheLast(e, t) ==
  /\ LoopIdle /\ task[t] = "idle" /\ e \notin removed
  /\ task' = [task EXCEPT ![t] = "due"]
  /\ own' = [own EXCEPT ![e] = @ \cup {t}]
  /\ pending' = [pending EXCEPT ![e] = {t}]
  /\ UNCHANGED <<inputVars, indexVars, attempt, job, memo, cancelled, removed>>

(* _schedule_warm_state_write, from a coordinator update or a dispatch tick: *)
(* a new task each time, whatever the entity already has running.            *)
ScheduleWrite(e, t) ==
  /\ LoopIdle /\ task[t] = "idle" /\ e \notin removed
  /\ task' = [task EXCEPT ![t] = "due"]
  /\ own' = [own EXCEPT ![e] = @ \cup {t}]
  /\ pending' = [pending EXCEPT ![e] = @ \cup {t}]
  /\ UNCHANGED <<inputVars, indexVars, attempt, job, memo, cancelled, removed>>

(* Leaving hass drops the entity's listeners, then async_will_remove_from_hass *)
(* empties the set and cancels every task that was in it.                      *)
Remove(e) ==
  /\ LoopIdle /\ e \in Removable \ removed
  /\ removed' = removed \cup {e}
  /\ cancelled' = cancelled \cup pending[e]
  /\ pending' = [pending EXCEPT ![e] = {}]
  /\ UNCHANGED <<inputVars, indexVars, taskVars, memo, own>>

(* The task ends, and its done callback discards it. *)
Done(t) ==
  /\ own' = [e \in Entities |-> own[e] \ {t}]
  /\ pending' = [e \in Entities |-> pending[e] \ {t}]

(* CancelledError at the task's await.  A thread it waited on cannot be stopped *)
(* and runs on: the task counts as ended when its thread is.                    *)
CancelledError(t) ==
  /\ LoopIdle /\ t \in cancelled
  /\ task[t] \in {"due", "build", "failed"}
  /\ task[t] = "build" => job[t].left = 0
  /\ task' = [task EXCEPT ![t] = "idle"]
  /\ attempt' = [attempt EXCEPT ![t] = 0] /\ job' = [job EXCEPT ![t] = NoJob]
  /\ Done(t) /\ cancelled' = cancelled \ {t}
  /\ UNCHANGED <<inputVars, indexVars, memo, removed>>

(* A task's first step: the key is taken on the loop, before any thread. *)
StartWarm(t) ==
  /\ LoopIdle /\ task[t] = "due" /\ t \notin cancelled
  /\ attempt' = [attempt EXCEPT ![t] = 1]
  /\ Call(t, "warm")
  /\ UNCHANGED <<job, memo>>

(* warm(): a hit goes straight to the currency check, a miss to the executor. *)
WarmHit(t) ==
  /\ KeyTaken(t, "warm") /\ Cached(Key)
  /\ Call(t, "current")
  /\ UNCHANGED <<attempt, job, memo>>

WarmMiss(t) ==
  /\ KeyTaken(t, "warm") /\ ~Cached(Key)
  /\ job' = [job EXCEPT ![t] = [data |-> data, key |-> Key, left |-> Periods, val |-> NoVal]]
  /\ task' = [task EXCEPT ![t] = "build"]
  /\ ipc' = [ipc EXCEPT ![Loop] = "out", ![t] = "read"] /\ ires' = [ires EXCEPT ![Loop] = 0]
  /\ UNCHANGED <<inputVars, idxMap, idxRun, attempt, memo, entityVars>>

ResumeOnlyIfBuilt(t) ==
  /\ LoopIdle /\ t \notin cancelled
  /\ task[t] = "build" /\ job[t].left = 0 /\ job[t].data.obj # data.obj
  /\ job' = [job EXCEPT ![t] = NoJob]
  /\ Call(t, "current")
  /\ UNCHANGED <<attempt, memo>>

(* Back on the loop: a moved PriceData is superseded without a second key. *)
ResumeSuperseded(t) ==
  /\ LoopIdle /\ t \notin cancelled
  /\ \/ task[t] = "failed"
     \/ task[t] = "build" /\ job[t].left = 0 /\ job[t].data.obj # data.obj
  /\ job' = [job EXCEPT ![t] = NoJob]
  /\ Call(t, "current")
  /\ UNCHANGED <<attempt, memo>>

ResumeBuilt(t) ==
  /\ LoopIdle /\ t \notin cancelled
  /\ task[t] = "build" /\ job[t].left = 0 /\ job[t].data.obj = data.obj
  /\ Call(t, "recheck")
  /\ UNCHANGED <<attempt, job, memo>>

PublishUnchecked(t) ==
  /\ KeyTaken(t, "recheck")
  /\ memo' = {[key |-> job[t].key, val |-> job[t].val]}
  /\ job' = [job EXCEPT ![t] = NoJob]
  /\ Call(t, "current")
  /\ UNCHANGED <<attempt>>

(* Publish only under the key the write will still ask for. *)
RecheckAndPublish(t) ==
  /\ KeyTaken(t, "recheck")
  /\ memo' = IF Key = job[t].key THEN {[key |-> Key, val |-> job[t].val]} ELSE memo
  /\ job' = [job EXCEPT ![t] = NoJob]
  /\ Call(t, "current")
  /\ UNCHANGED <<attempt>>

(* _async_warm_until_current: write once current or out of attempts. *)
ReadyToWrite(t) ==
  /\ KeyTaken(t, "current")
  /\ Cached(Key) \/ attempt[t] >= MaxAttempts
  /\ attempt' = [attempt EXCEPT ![t] = 0]
  /\ Call(t, "write")
  /\ UNCHANGED <<job, memo>>

WarmForever(t) ==
  /\ KeyTaken(t, "current") /\ ~Cached(Key)
  /\ attempt' = [attempt EXCEPT ![t] = @ + 1]
  /\ Call(t, "warm")
  /\ UNCHANGED <<job, memo>>

WarmAgain(t) ==
  /\ KeyTaken(t, "current") /\ ~Cached(Key) /\ attempt[t] < MaxAttempts
  /\ attempt' = [attempt EXCEPT ![t] = @ + 1]
  /\ Call(t, "warm")
  /\ UNCHANGED <<job, memo>>

(* The state is written and the task ends. *)
Written(t) ==
  /\ task' = [task EXCEPT ![t] = "idle"]
  /\ ipc' = [ipc EXCEPT ![Loop] = "out"] /\ ires' = [ires EXCEPT ![Loop] = 0]
  /\ Done(t)
  /\ UNCHANGED <<inputVars, idxMap, idxRun, attempt, cancelled, removed>>

(* async_write_ha_state reads forecast(d): a hit serves the memo. *)
WriteHit(t) ==
  /\ KeyTaken(t, "write") /\ Cached(Key)
  /\ Written(t)
  /\ UNCHANGED <<job, memo>>

(* A miss builds on the loop, under the key taken first. *)
WriteMiss(t) ==
  /\ KeyTaken(t, "write") /\ ~Cached(Key)
  /\ job' = [job EXCEPT ![Loop] = [data |-> data, key |-> Key, left |-> Periods, val |-> NoVal]]
  /\ Call(t, "lazy")
  /\ UNCHANGED <<attempt, memo>>

LazyPublish(t) ==
  /\ task[t] = "lazy" /\ job[Loop].left = 0
  /\ memo' = {[key |-> job[Loop].key, val |-> job[Loop].val]}
  /\ job' = [job EXCEPT ![Loop] = NoJob]
  /\ Written(t)

-----------------------------------------------------------------------------
Inputs == NewData \/ StpasaSave \/ StpasaExpire \/ PublishFit
          \/ \E f \in fitting : AttachOls(f) \/ SkipOls(f)

IndexStep(c) == IndexRead(c) \/ IndexCheck(c) \/ IndexMap(c) \/ IndexKey(c)

ThreadStep(t) == IndexStep(t) \/ CalibratePeriod(t) \/ BuildFails(t)

HandlerStep(t) ==
  \/ WarmHit(t) \/ WarmMiss(t) \/ RecheckAndPublish(t) \/ ReadyToWrite(t) \/ WarmAgain(t)
  \/ WriteHit(t) \/ WriteMiss(t) \/ LazyPublish(t)

LoopStep == IndexStep(Loop) \/ CalibratePeriod(Loop) \/ \E t \in Tasks : HandlerStep(t)

Resume(t) == StartWarm(t) \/ ResumeSuperseded(t) \/ ResumeBuilt(t)

Next ==
  \/ Inputs
  \/ LoopStep
  \/ \E t \in Tasks : \/ ThreadStep(t) \/ Resume(t) \/ CancelledError(t)
                       \/ \E e \in Entities : ScheduleWrite(e, t)
  \/ \E e \in Removable : Remove(e)

Spec == Init /\ [][Next]_vars

(* A handler runs to its await, a thread runs on, and the loop's ready queue *)
(* is FIFO, so a task that stays ready is resumed however busy the loop is.  *)
FairSpec ==
  /\ Spec
  /\ WF_vars(LoopStep)
  /\ \A t \in Tasks : WF_vars(ThreadStep(t)) /\ SF_vars(Resume(t))

-----------------------------------------------------------------------------
(* Properties *)

InputsOK ==
  /\ data \in Data /\ stpasa \in 0..MaxStpasa /\ live \in BOOLEAN
  /\ cal \in Cals /\ gen \in Nat /\ fitting \subseteq 1..MaxFit
  /\ calOf \in [0..gen -> Cals]

IndexOK ==
  /\ idxMap \in 0..MaxStpasa /\ idxRun \in 0..MaxStpasa
  /\ ipc \in [Callers -> {"out", "read", "check", "map", "key", "done"}]
  /\ ires \in [Callers -> 0..MaxStpasa]

TasksOK ==
  /\ task \in [Tasks -> Handling \cup Waiting]
  /\ attempt \in [Tasks -> 0..MaxAttempts]
  /\ job \in [Callers -> Jobs]
  /\ memo \subseteq [key : Keys, val : Vals]

EntitiesOK ==
  /\ removed \subseteq Removable /\ cancelled \subseteq Tasks
  /\ own \in [Entities -> SUBSET Tasks] /\ pending \in [Entities -> SUBSET Tasks]

TypeOK == InputsOK /\ IndexOK /\ TasksOK /\ EntitiesOK

(* A memo entry holds a forecast computed from exactly the PD7DAY run and    *)
(* the calibration its key names: a warm that straddled a refit, an OLS      *)
(* attach or a new run is never published (#60, CalibratedForecast.warm).    *)
MemoNamesItsInputs ==
  \A m \in memo : m.val.runs = {m.key.run} /\ m.val.cals = {calOf[m.key.gen]}

(* What an entity writes comes from the current run and the calibration live *)
(* at that moment: whichever way the write found the forecast, memo' is what *)
(* it published (CalibratedWriteMixin, CalibratedForecast.forecast).         *)
WriteIsCurrent ==
  [][\A t \in Tasks :
       task[t] \in {"write", "lazy"} /\ task'[t] = "idle" =>
         \E m \in memo' : m.val.runs = {data.run} /\ m.val.cals = {cal}]_vars

(* The single slot is only ever replaced by an entry for the current run and *)
(* generation: a warm that started early and landed late cannot overwrite    *)
(* what a sibling has just published (the first defect of #60).              *)
SlotNotOvertaken ==
  [][memo' # memo => \A m \in memo' : m.key.run = data.run /\ m.key.gen = gen]_vars

(* No task of a removed entity runs again, so none writes its state: every   *)
(* write it ever scheduled and that has not ended was in the pending set when *)
(* it was cancelled, though one entity may have several running (#106).       *)
RemovedNeverWrites == \A e \in removed : \A t \in own[e] : task[t] \notin Handling

(* Every scheduled write happens, whatever fails or moves under its warm.    *)
ScheduledWriteHappens ==
  \A t \in Tasks : task[t] = "due" ~> (task[t] = "idle" \/ t \in cancelled)

(* coordinator.py 541-549: publishing the key last is there so that no        *)
(* forecast built from an old STPASA run is memoised under the new run's key. *)
MemoNamesItsStpasa == \A m \in memo : m.val.stps \subseteq {m.key.stp}
=============================================================================
