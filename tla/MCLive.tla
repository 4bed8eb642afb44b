------------------------------- MODULE MCLive -------------------------------
(* What must eventually happen, on instances small enough for TLC to check *)
(* it under fairness.  A behaviour chooses one component at the start and  *)
(* only that one steps, under the fairness its own module justifies.       *)
EXTENDS Integers

CONSTANTS Entities, Tasks, Loop, Regions, Entries, Nobody
VARIABLE mode
VARIABLES data, stpasa, live, cal, gen, fitting, calOf, idxMap, idxRun, ipc, ires,
          task, attempt, job, memo, own, pending, cancelled, removed
VARIABLES hass, objects, coord, stores, setup, holds, latest, disk, writing, forced,
          fetch, refit, newest, got, joined, stage
VARIABLES entry, mine, setupLock, shared, unsubs, made, timers, handle, refresh, tries,
          stopped, raised, source, busy, stuck, current, old

memoVars == <<data, stpasa, live, cal, gen, fitting, calOf, idxMap, idxRun, ipc, ires,
              task, attempt, job, memo, own, pending, cancelled, removed>>
stpasaVars == <<hass, objects, coord, stores, setup, holds, latest, disk, writing,
                forced, fetch, refit, newest, got, joined, stage>>
dispatchVars == <<entry, mine, setupLock, shared, unsubs, made, timers, handle, refresh,
                  tries, stopped, raised, source, busy, stuck, current, old>>
allVars == <<mode, memoVars, stpasaVars, dispatchVars>>

Memo == INSTANCE CalibratedForecast WITH Removable <- {}, Periods <- 1,
          MaxAttempts <- 2, MaxData <- 0, MaxStpasa <- 1, MaxFit <- 0
Stpasa == INSTANCE StpasaRefresh WITH Removable <- {}, Faulty <- {}, MaxShared <- 1,
            MaxResult <- 2, MaxStage <- 0, made <- objects, entry <- setup, mine <- holds
Dispatch == INSTANCE DispatchPolling WITH Retries <- 2, MaxMade <- 2, MaxOld <- 1

\* What the components assume of their constants.
ASSUME Memo!CFAssumption
ASSUME Stpasa!SRAssumption
ASSUME Dispatch!DPAssumption

Init ==
  /\ mode \in {"memo", "stpasa", "dispatch"}
  /\ Memo!Init /\ Stpasa!Init /\ Dispatch!DispatchInit
  /\ disk = [r \in Regions |-> 0]   \* a first start, nothing on disk

Next ==
  /\ UNCHANGED mode
  /\ \/ mode = "memo" /\ Memo!Next /\ UNCHANGED <<stpasaVars, dispatchVars>>
     \/ mode = "stpasa" /\ Stpasa!Next /\ UNCHANGED <<memoVars, dispatchVars>>
     \/ mode = "dispatch" /\ Dispatch!DispatchNext /\ UNCHANGED <<memoVars, stpasaVars>>

\* The fairness of CalibratedForecast, StpasaRefresh and DispatchPolling.
Fairness ==
  /\ WF_memoVars(mode = "memo" /\ Memo!LoopStep)
  /\ \A t \in Tasks :
       /\ WF_memoVars(mode = "memo" /\ Memo!ThreadStep(t))
       /\ SF_memoVars(mode = "memo" /\ Memo!Resume(t))
  /\ \A r \in Regions :
       /\ WF_stpasaVars(mode = "stpasa" /\ Stpasa!Setup(r))
       /\ SF_stpasaVars(mode = "stpasa" /\ Stpasa!StartTriggers(r))
       /\ WF_stpasaVars(mode = "stpasa" /\ Stpasa!ForcedFetch(r))
       /\ WF_stpasaVars(mode = "stpasa" /\ Stpasa!Fetching(r))
       /\ WF_stpasaVars(mode = "stpasa" /\ Stpasa!Refitting(r))
       /\ WF_stpasaVars(mode = "stpasa" /\ \E n \in 1..2 : Stpasa!WriteEnds(r, n))
  /\ WF_dispatchVars(mode = "dispatch" /\ Dispatch!OldEnds)
  /\ \A d \in Dispatch!Ids : WF_dispatchVars(mode = "dispatch" /\ Dispatch!Chain(d))

Spec == Init /\ [][Next]_allVars /\ Fairness

\* Something is wanted: a state write (the tasks are alike, so one is watched), the immediate STPASA fetch, or an end to a refresh that hangs.
Watched == CHOOSE t \in Tasks : TRUE
Wanted ==
  \/ mode = "memo" /\ task[Watched] = "due"
  \/ mode = "stpasa" /\ Stpasa!Pending(coord[1])
  \/ mode = "dispatch" /\ stuck
Settled ==
  \/ mode = "memo" /\ task[Watched] = "idle"
  \/ mode = "stpasa" /\ ~Stpasa!Pending(coord[1])
  \/ mode = "dispatch" /\ (~stuck \/ source = 0 \/ stopped[source] \/ raised[source])

\* ScheduledWriteHappens of CalibratedForecast (a write happens although warms
\* fail, results expire and the key moves under every attempt),
\* PendingFetchResolves of StpasaRefresh (a wanted fetch ends fresh or failed,
\* whichever entry carries it out), and StuckRefreshIsReplaced of
\* DispatchPolling (a refresh that hangs does not hold its slot for ever).
WantedIsSettled == Wanted ~> Settled
=============================================================================
