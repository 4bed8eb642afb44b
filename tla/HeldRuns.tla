------------------------------ MODULE HeldRuns ------------------------------
(***************************************************************************)
(* The P5MIN and pre-dispatch runs every config entry shares: fetched      *)
(* after a dispatch poll when a new one can be expected, and, for P5MIN,   *)
(* looked for again every half minute until it is listed                   *)
(* (local_price_coordinator.py, predispatch_coordinator.py,                *)
(* refresh_guard.py).                                                      *)
(*                                                                         *)
(* Time is counted in ticks, Interval ticks to a dispatch interval.  A     *)
(* P5MIN run is named by the end of its first interval, a pre-dispatch run *)
(* by when it was solved.  A refresh takes time: it reads the listing, and *)
(* stores what it read later.                                              *)
(***************************************************************************)
EXTENDS Integers, FiniteSets

CONSTANTS
  None,
  Interval,     \* ticks in five minutes
  Period,       \* ticks in half an hour
  RunEvery,     \* RUN_EVERY
  RetryLimit,   \* RETRY_LIMIT
  MaxNow        \* bound of the clock

ASSUME RunsAssumption ==
  /\ Interval \in Nat \ {0} /\ Period \in Nat \ {0} /\ RunEvery \in Nat \ {0}
  /\ RetryLimit \in Nat /\ MaxNow \in Nat
  /\ Period % Interval = 0 /\ None \notin Int

Kinds == {"p5", "pd"}

\* p5's first refresh is a task of its own; every later one is the guard's.
Tasks == [kind : Kinds, by : {"first", "guard"}]

VARIABLES
  now,
  listed,     \* the newest run on NEMWEB, of each kind
  latest,     \* the run held
  reading,    \* what each running refresh has read, or None: nothing to store
  running,    \* the refreshes running
  retries,    \* _retries_left
  retrying,   \* whether a retry is scheduled
  listening   \* whether the coordinators hear of dispatch polls

runVars == <<now, listed, latest, reading, running, retries, retrying, listening>>

\* The end of the interval running at t, and of the period; an end is its own.
EndOf(t, length) == ((t + length - 1) \div length) * length

RunsTypeOK ==
  /\ now \in 0..MaxNow
  /\ listed \in [Kinds -> Int \union {None}] /\ latest \in [Kinds -> Int \union {None}]
  /\ running \subseteq Tasks
  /\ reading \in [Tasks -> Int \union {None}]
  /\ retries \in 0..RetryLimit
  /\ retrying \in BOOLEAN /\ listening \in BOOLEAN

\* shared_p5min() and shared_predispatch(): created, with a first refresh each.
RunsInit ==
  /\ now = 0
  /\ listed \in [Kinds -> {None}] \union {[p5 |-> 0, pd |-> 1 - Period]}
  /\ latest = [k \in Kinds |-> None]
  /\ running = {t \in Tasks : t.by = "first"}
  /\ reading = [t \in Tasks |-> IF t.by = "first" THEN listed[t.kind] ELSE None]
  /\ retries = 0
  /\ retrying = FALSE
  /\ listening = TRUE

-----------------------------------------------------------------------------
(* The clock and NEMWEB *)

Tick ==
  /\ now < MaxNow
  /\ now' = now + 1
  /\ UNCHANGED <<listed, latest, reading, running, retries, retrying, listening>>

\* The running interval's P5MIN run, and the running period's run, solved a
\* tick into it, are listed at any time after.
ListRun ==
  /\ \/ listed' = [listed EXCEPT !.p5 = EndOf(now + 1, Interval)]
     \/ now % Period # 0 /\ listed' = [listed EXCEPT !.pd = EndOf(now, Period) - Period + 1]
  /\ listed' # listed
  /\ UNCHANGED <<now, latest, reading, running, retries, retrying, listening>>

-----------------------------------------------------------------------------
(* Refreshes *)

\* due(): for P5MIN the run held has reached its first interval's end.
Due(k) ==
  \/ latest[k] = None
  \/ IF k = "p5" THEN now >= latest[k] ELSE now - latest[k] >= RunEvery

\* RefreshGuard.request(): a refresh is started unless one is running.
Request(kinds) ==
  LET new == {t \in Tasks : t.kind \in kinds /\ t.by = "guard"} \ running
  IN /\ running' = running \union new
     /\ reading' = [t \in Tasks |-> IF t \in new THEN (IF Due(t.kind) THEN listed[t.kind] ELSE None)
                                    ELSE reading[t]]

\* _on_dispatch() of both: P5MIN's pending retry is replaced by a new set.
OnDispatch ==
  /\ listening
  /\ retrying' = FALSE
  /\ retries' = RetryLimit
  /\ Request(Kinds)
  /\ UNCHANGED <<now, listed, latest, listening>>

\* What is stored of a run read without comparing it to the run held.
StoredAnyway(k, run) == IF run = None THEN latest[k] ELSE run

\* _async_update_data(): an older run read, or none, keeps the run held.
Stored(k, run) ==
  IF run # None /\ (latest[k] = None \/ run > latest[k]) THEN run ELSE latest[k]

\* A refresh ends, having stored what it read or failed; P5MIN's guarded one
\* looks again later while the next run is due (_refresh_then_retry()).
RefreshEnds(t) ==
  /\ t \in running
  /\ \E run \in {reading[t], None} : latest' = [latest EXCEPT ![t.kind] = Stored(t.kind, run)]
  /\ running' = running \ {t}
  /\ reading' = [reading EXCEPT ![t] = None]
  /\ IF t.kind = "p5" /\ t.by = "guard" /\ retries > 0 /\ ~retrying
        /\ (latest'["p5"] = None \/ now >= latest'["p5"])
     THEN retries' = retries - 1 /\ retrying' = TRUE
     ELSE UNCHANGED <<retries, retrying>>
  /\ UNCHANGED <<now, listed, listening>>

\* _retry()
Retry ==
  /\ retrying
  /\ retrying' = FALSE
  /\ Request({"p5"})
  /\ UNCHANGED <<now, listed, latest, retries, listening>>

\* async_shutdown_listener() without its reset of the retries left.
ShutDownTimerOnly ==
  /\ listening /\ listening' = FALSE /\ retrying' = FALSE
  /\ UNCHANGED <<now, listed, latest, reading, running, retries>>

\* async_shutdown_listener() of both, as the last entry is removed.
ShutDown ==
  /\ listening
  /\ listening' = FALSE
  /\ retrying' = FALSE
  /\ retries' = 0
  /\ UNCHANGED <<now, listed, latest, reading, running>>

RunsNext ==
  \/ Tick \/ ListRun \/ OnDispatch \/ Retry \/ ShutDown
  \/ \E t \in Tasks : RefreshEnds(t)

RunsSpec == RunsInit /\ [][RunsNext]_runVars

-----------------------------------------------------------------------------
(* Properties *)

\* Once the listeners are shut down no timer is left and no retry to spend, and a
\* refresh that was running then schedules none (#381).  That refresh itself goes
\* on to its end: async_shutdown() cancels the timer only.
QuietOnceShutDown == ~listening => ~retrying /\ retries = 0

\* The run held never goes back to an older one, whatever two refreshes read.
NewerRunsOnly ==
  \A k \in Kinds : latest'[k] # latest[k] => latest[k] = None \/ latest'[k] > latest[k]
HeldRunsAdvance == [][NewerRunsOnly]_latest
=============================================================================
