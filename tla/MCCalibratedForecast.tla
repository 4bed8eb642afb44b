------------------------ MODULE MCCalibratedForecast ------------------------
(* Small instances of CalibratedForecast for TLC. *)
EXTENDS CalibratedForecast, TLC

Symmetric == Permutations(Tasks)

\* The new run and the refit move together, an STPASA result on its own: the
\* three at once are beyond what TLC can enumerate.
StpasaMovesAlone == stpasa > 0 => data.obj = 0 /\ cal.fit = 0

\* A sensor is removed while the inputs rest or a new run moves under its writes.
RemovedBeforeRefit == removed # {} => cal.fit = 0 /\ stpasa = 0
=============================================================================
