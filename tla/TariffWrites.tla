---------------------------- MODULE TariffWrites ----------------------------
(***************************************************************************)
(* When a tariff sensor writes its state (tariff_sensor.py,                *)
(* CalibratedTariffMixin): it reads the calibrated forecast memo of its    *)
(* region but does not build it, and it waits for the P5MIN run a dispatch *)
(* poll starts the fetch of.                                               *)
(*                                                                         *)
(* What the state is made of are its sources.  Some notify the sensor as   *)
(* they move; a published fit, a saved STPASA result and the usage fee do  *)
(* not, and the first two move the key of the memo as a run does.          *)
(***************************************************************************)
EXTENDS Integers

CONSTANTS MaxRefits   \* bound: refits in progress at once

\* What this module assumes of its constant.
WritesAssumption == MaxRefits \in Nat

VARIABLES
  memoIs,              \* the region's memo: "unpublished", "stale" or "current"
  refits, unpushed,    \* refits in progress; whether the last to end never notified
  p5due,               \* whether a P5MIN run newer than the one held is due
  life,                \* "absent" "added" "removed"
  awaiting, memoTask,  \* the flag, and whether the waiting task really runs
  deferred,            \* _forecast_deferred
  p5Wait,              \* the 30 second timer
  whole,               \* whether the last write had a forecast
  fresh,               \* history: sources that have not moved since the last write
  untold               \* history: sources that moved since the sensor was last notified

refitVars == <<refits, unpushed>>
sensorVars == <<awaiting, memoTask, deferred, whole>>
writeVars == <<memoIs, refitVars, p5due, life, sensorVars, p5Wait, fresh, untold>>

Sources == {"run", "fit", "stpasa", "p5", "pd", "spot", "fee"}
Silent == {"fit", "stpasa", "fee"}   \* no listener hears of these

WritesTypeOK ==
  /\ memoIs \in {"unpublished", "stale", "current"}
  /\ refits \in 0..MaxRefits /\ unpushed \in BOOLEAN /\ p5due \in BOOLEAN
  /\ life \in {"absent", "added", "removed"}
  /\ awaiting \in BOOLEAN /\ memoTask \in BOOLEAN /\ deferred \in BOOLEAN
  /\ p5Wait \in BOOLEAN /\ whole \in BOOLEAN
  /\ fresh \subseteq Sources /\ untold \subseteq Sources
  /\ memoTask => life = "added" /\ awaiting
  /\ p5Wait => life = "added"

WritesInit ==
  /\ memoIs \in {"unpublished", "stale", "current"} /\ p5due \in BOOLEAN
  /\ refits = 0 /\ unpushed = FALSE
  /\ life = "absent" /\ awaiting = FALSE /\ memoTask = FALSE /\ deferred = FALSE /\ p5Wait = FALSE
  /\ whole = FALSE /\ fresh = {} /\ untold = {}

-----------------------------------------------------------------------------
\* async_write_ha_state(): the memo when it is current, else the spot view that
\* is calibrated there and then, and every other source as it is.
Write == whole' = ~deferred' /\ fresh' = Sources

IsCurrent == memoIs' = "current"

\* _write_when_calibrated(), in a handler that hears of `moved`.
WriteWhenCalibrated(moved) ==
  /\ untold' = {}
  /\ \/ /\ IsCurrent
        /\ deferred' = FALSE /\ Write /\ UNCHANGED <<awaiting, memoTask>>
     \/ /\ ~IsCurrent
        /\ awaiting' = TRUE /\ memoTask' = (memoTask \/ ~awaiting)
        /\ fresh' = fresh \ moved /\ UNCHANGED <<deferred, whole>>

\* Sources move and no handler of the sensor runs.
Unheard(moved) ==
  fresh' = fresh \ moved /\ untold' = untold \cup moved /\ UNCHANGED <<sensorVars, p5Wait>>

Listening == life = "added"

\* A handler of its own for what moved, as long as the sensor is there.
Heard(moved) ==
  IF Listening THEN WriteWhenCalibrated(moved) /\ UNCHANGED p5Wait ELSE Unheard(moved)

\* The key of the memo never comes back to one it had.
KeyMoves == memoIs' = IF memoIs = "current" THEN "stale" ELSE memoIs

\* async_added_to_hass() and the first write, which Home Assistant makes
\* straight after it: without a forecast when a warm is coming.
SensorAdded ==
  /\ life = "absent"
  /\ life' = "added"
  /\ deferred' = (memoIs = "stale") /\ awaiting' = deferred' /\ memoTask' = deferred'
  /\ Write /\ untold' = {}
  /\ UNCHANGED <<memoIs, refitVars, p5due, p5Wait>>

\* cancel_pending(); the listeners go with it.
SensorRemoved ==
  /\ life = "added"
  /\ life' = "removed" /\ memoTask' = FALSE /\ p5Wait' = FALSE
  /\ UNCHANGED <<memoIs, refitVars, p5due, awaiting, deferred, whole, fresh, untold>>

\* The coordinator holds a new run and calls its listeners.
RunPushed == KeyMoves /\ Heard({"run"}) /\ UNCHANGED <<refitVars, p5due, life>>

\* async_refit() publishes what stage 1 fitted.
RefitPublishes ==
  /\ refits < MaxRefits
  /\ refits' = refits + 1
  /\ KeyMoves /\ Unheard({"fit"}) /\ UNCHANGED <<unpushed, p5due, life>>

\* async_refit() attaches the stage 2 models: once in a refit, if at all.
OlsAttached ==
  refits > 0 /\ KeyMoves /\ Unheard({"fit"}) /\ UNCHANGED <<refitVars, p5due, life>>

\* As if a refit that is saved told nobody.
RefitOverUnsaid ==
  /\ refits > 0
  /\ refits' = refits - 1 /\ unpushed' = FALSE
  /\ Unheard({}) /\ UNCHANGED <<memoIs, p5due, life>>

\* _do_refit(): the coefficients are saved, and the run held is pushed again.
RefitPushed ==
  /\ refits > 0
  /\ refits' = refits - 1 /\ unpushed' = FALSE
  /\ UNCHANGED <<memoIs, p5due, life>> /\ Heard({})

\* The save of the coefficients raises out of _do_refit(): nothing is pushed.
RefitSaveFails ==
  /\ refits > 0
  /\ refits' = refits - 1 /\ unpushed' = TRUE
  /\ Unheard({}) /\ UNCHANGED <<memoIs, p5due, life>>

\* A STPASA result reaches the region's store.
StpasaSaved == KeyMoves /\ Unheard({"stpasa"}) /\ UNCHANGED <<refitVars, p5due, life>>

\* The user sets the region's usage fee: read at a write, listened to by no one.
FeeSet == Unheard({"fee"}) /\ UNCHANGED <<memoIs, refitVars, p5due, life>>

\* A forecast sensor of the region publishes the memo; it wakes the waiting
\* task, which runs later.
PublishMemo ==
  /\ memoIs # "current"
  /\ memoIs' = "current"
  /\ Unheard({}) /\ UNCHANGED <<refitVars, p5due, life>>

\* As if the flag were lowered only when the memo has come.
WaitOverLoweringOnSuccess ==
  /\ memoTask
  /\ memoTask' = FALSE /\ awaiting' = (memoIs # "current") /\ deferred' = FALSE
  /\ Write /\ untold' = {}
  /\ UNCHANGED <<memoIs, refitVars, p5due, life, p5Wait>>

\* _async_write_once_calibrated(): the memo is current, or MEMO_WAIT_SECONDS
\* have passed and the write pays for the calibration itself.
WaitOver ==
  /\ memoTask
  /\ memoTask' = FALSE /\ awaiting' = FALSE /\ deferred' = FALSE
  /\ Write /\ untold' = {}
  /\ UNCHANGED <<memoIs, refitVars, p5due, life, p5Wait>>

\* The clock makes a P5MIN run due.
RunIsDue ==
  ~p5due /\ p5due' = TRUE /\ Unheard({}) /\ UNCHANGED <<memoIs, refitVars, life>>

\* _on_dispatch_update(): a price; when a P5MIN run is due, wait for it.
DispatchUpdate ==
  /\ UNCHANGED <<memoIs, refitVars, p5due, life>>
  /\ \/ Listening /\ p5due
        /\ p5Wait' = TRUE /\ fresh' = fresh \ {"spot"} /\ UNCHANGED <<sensorVars, untold>>
     \/ ~(Listening /\ p5due) /\ Heard({"spot"})

\* _on_new_run(), of a P5MIN run that lands or of a pre-dispatch run.
ForecastRun ==
  /\ UNCHANGED <<memoIs, refitVars, life>>
  /\ \E s \in {"p5", "pd"} :
       /\ s = "p5" => p5due
       /\ p5due' = (p5due /\ s = "pd")
       /\ IF Listening THEN p5Wait' = FALSE /\ WriteWhenCalibrated({s}) ELSE Unheard({s})

\* _p5min_wait_expired()
WaitExpires ==
  /\ p5Wait
  /\ p5Wait' = FALSE
  /\ UNCHANGED <<memoIs, refitVars, p5due, life>> /\ WriteWhenCalibrated({})

\* _handle_interval_tick(), every half hour.
IntervalTick ==
  /\ Listening
  /\ UNCHANGED <<memoIs, refitVars, p5due, life, p5Wait>> /\ WriteWhenCalibrated({})

WritesNext ==
  \/ SensorAdded \/ SensorRemoved \/ RunPushed \/ RefitPublishes \/ OlsAttached \/ RefitPushed
  \/ RefitSaveFails \/ StpasaSaved \/ FeeSet \/ PublishMemo \/ WaitOver \/ RunIsDue
  \/ DispatchUpdate \/ ForecastRun \/ WaitExpires \/ IntervalTick

WritesSpec == WritesInit /\ [][WritesNext]_writeVars

-----------------------------------------------------------------------------
\* A sensor that waits neither for the memo nor for a P5MIN run shows a forecast,
\* and the latest of every source it has been notified of, in whatever order
\* they moved under its waits.  What it may still show an old value of are a
\* STPASA result or a fee since its last notification, and a fit only while a
\* refit is between publishing it and its push, or when the save raised.
ShownIsCurrent ==
  life = "added" /\ ~memoTask /\ ~p5Wait =>
    /\ whole
    /\ Sources \ fresh \subseteq untold \cap Silent
    /\ "fit" \notin fresh => refits > 0 \/ unpushed
=============================================================================
