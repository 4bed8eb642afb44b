---------------------------- MODULE NemwebFetch ----------------------------
(***************************************************************************)
(* How a region's refresh reaches NEMWEB: the shared request gate          *)
(* (nemweb_gate.py), the bounded retry ladder around every request         *)
(* (nemweb_retry.py), and the one PD7DAY download and parse that serves    *)
(* every region (pd7day_shared.py, over pd7day_client.py).  What a region's *)
(* coordinator makes of the outcome is in PublishCycle.                    *)
(*                                                                         *)
(* Most clients take the gate for each attempt and back off outside it.    *)
(* The fetch of one market notice holds it across its delay, its attempts  *)
(* and its backoff (market_notice_client.py).  The urllib fallback of the  *)
(* dispatch client asks for no admission at all and is not a caller here.  *)
(*                                                                         *)
(* Any task may be cancelled at any await: an unload cancels the entry's   *)
(* background tasks.  Time is kept relative, so that behaviours need not   *)
(* end: what is left of the request gap, and the ages of the last          *)
(* admission and of the last confirmation.                                 *)
(***************************************************************************)
EXTENDS Naturals, FiniteSets

CONSTANTS
  Regions,        \* region coordinators, sharing SharedPD7DayFetch
  Others,         \* tasks of the other NEMWEB clients, sharing the gate only
  Notices,        \* those of them that fetch the file of one market notice
  Nobody,         \* a lock's holder when it is free
  MaxConcurrent,  \* NEMWEB_MAX_CONCURRENT_REQUESTS
  Gap,            \* min_gap_s
  Window,         \* BURST_WINDOW_S
  MaxAttempts,    \* DEFAULT_MAX_ATTEMPTS
  NoticeAttempts, \* _NOTICE_FILE_MAX_ATTEMPTS
  MaxFile         \* bound: PD7DAY files published

ASSUME NFAssumption ==
  /\ Regions \cap Others = {} /\ Notices \subseteq Others /\ Nobody \notin Regions \cup Others
  /\ IsFiniteSet(Regions) /\ IsFiniteSet(Others)
  /\ MaxConcurrent \in Nat \ {0} /\ Gap \in Nat \ {0} /\ Window \in Nat \ {0}
  /\ MaxAttempts \in Nat \ {0} /\ NoticeAttempts \in 1..MaxAttempts /\ MaxFile \in Nat \ {0}

Callers == Regions \cup Others

VARIABLES
  newest,     \* the newest file published
  gapLeft,    \* _next_allowed - now, 0 once past
  sinceAdmitted, \* history: age of the last admission, up to Gap
  slots,      \* callers holding the gate's semaphore
  pacer,      \* holder of _pace_lock across its sleep
  wake,       \* per caller: what is left of its sleep in _pace()
  lock,       \* holder of SharedPD7DayFetch._lock
  full,       \* SharedPD7DayFetch._full: the file parsed (0: None)
  age,        \* now - _confirmed_at, up to Window
  pc,         \* per caller: where its task is
  job         \* per caller: [phase: the request wanted, attempt, file: newest listed]

gateVars   == <<gapLeft, sinceAdmitted, slots, pacer, wake>>
sharedVars == <<lock, full, age>>
vars == <<newest, gateVars, sharedVars, pc, job>>

NoJob == [phase |-> "none", attempt |-> 0, file |-> 0]
Held  == {"pacewait", "pacing", "delay", "request", "heldback"}  \* holding a slot
Locked == {"semwait", "backoff", "parse"} \cup Held  \* inside `async with self._lock`

Init ==
  /\ newest = 1 /\ gapLeft = 0 /\ sinceAdmitted = Gap
  /\ slots = {} /\ pacer = Nobody /\ wake = [c \in Callers |-> 0]
  /\ lock = Nobody /\ full = 0 /\ age = Window
  /\ pc = [c \in Callers |-> "idle"] /\ job = [c \in Callers |-> NoJob]

-----------------------------------------------------------------------------
(* The environment *)

Publish ==
  /\ newest < MaxFile /\ newest' = newest + 1
  /\ UNCHANGED <<gateVars, sharedVars, pc, job>>

Tick ==
  /\ gapLeft > 0 \/ sinceAdmitted < Gap \/ age < Window
  /\ wake' = [c \in Callers |-> IF wake[c] > 0 THEN wake[c] - 1 ELSE 0]
  /\ gapLeft' = IF gapLeft > 0 THEN gapLeft - 1 ELSE 0
  /\ sinceAdmitted' = IF sinceAdmitted < Gap THEN sinceAdmitted + 1 ELSE Gap
  /\ age' = IF age < Window THEN age + 1 ELSE Window
  /\ UNCHANGED <<newest, slots, pacer, lock, full, pc, job>>

-----------------------------------------------------------------------------
(* NemwebGate *)

(* __aenter__: await self._semaphore.acquire() *)
SemAcquire(c) ==
  /\ pc[c] = "semwait" /\ Cardinality(slots) < MaxConcurrent
  /\ slots' = slots \cup {c}
  /\ pc' = [pc EXCEPT ![c] = "pacewait"]
  /\ UNCHANGED <<newest, gapLeft, sinceAdmitted, pacer, wake, sharedVars, job>>

(* The gap restarts and the caller is inside the gate: its request goes out, *)
(* but a notice's only after the client's own small delay.                   *)
Admit(c) ==
  /\ gapLeft' = gapLeft + Gap /\ sinceAdmitted' = 0   \* max(now, _next_allowed) + gap
  /\ pc' = [pc EXCEPT ![c] = IF c \in Notices THEN "delay" ELSE "request"]
  /\ UNCHANGED <<newest, slots, sharedVars, job>>

PaceNow(c) ==
  /\ pc[c] = "pacewait" /\ pacer = Nobody /\ gapLeft = 0
  /\ Admit(c)
  /\ UNCHANGED <<pacer, wake>>

PaceUnlocked(c) ==
  /\ pc[c] = "pacewait" /\ gapLeft > 0
  /\ pacer' = c /\ wake' = [wake EXCEPT ![c] = gapLeft]
  /\ pc' = [pc EXCEPT ![c] = "pacing"]
  /\ UNCHANGED <<newest, gapLeft, sinceAdmitted, slots, sharedVars, job>>

(* Too early: sleep, holding the pace lock. *)
PaceSleep(c) ==
  /\ pc[c] = "pacewait" /\ pacer = Nobody /\ gapLeft > 0
  /\ pacer' = c /\ wake' = [wake EXCEPT ![c] = gapLeft]
  /\ pc' = [pc EXCEPT ![c] = "pacing"]
  /\ UNCHANGED <<newest, gapLeft, sinceAdmitted, slots, sharedVars, job>>

PaceWake(c) ==
  /\ pc[c] = "pacing" /\ wake[c] = 0
  /\ Admit(c)
  /\ pacer' = Nobody /\ UNCHANGED wake

-----------------------------------------------------------------------------
(* fetch_with_retry: what becomes of one attempt, the slot released first. *)

AlwaysRetries(c) ==
  /\ pc[c] = "request"
  /\ slots' = slots \ {c}
  /\ pc' = [pc EXCEPT ![c] = "backoff"]
  /\ UNCHANGED <<newest, gapLeft, sinceAdmitted, pacer, wake, sharedVars, job>>

(* Retryable: sleep outside the gate, then try again. *)
AttemptFails(c) ==
  /\ c \notin Notices
  /\ pc[c] = "request" /\ job[c].attempt < MaxAttempts
  /\ slots' = slots \ {c}
  /\ pc' = [pc EXCEPT ![c] = "backoff"]
  /\ UNCHANGED <<newest, gapLeft, sinceAdmitted, pacer, wake, sharedVars, job>>

RetryUnbounded(c) ==
  /\ pc[c] = "backoff"
  /\ pc' = [pc EXCEPT ![c] = "semwait"]
  /\ UNCHANGED <<newest, gateVars, sharedVars, job>>

BackoffOver(c) ==
  /\ pc[c] = "backoff"
  /\ pc' = [pc EXCEPT ![c] = "semwait"]
  /\ job' = [job EXCEPT ![c].attempt = @ + 1]
  /\ UNCHANGED <<newest, gateVars, sharedVars>>

-----------------------------------------------------------------------------
(* _fetch_guarded: one notice's file, within one admission to the gate *)

DelayOver(c) ==
  /\ pc[c] = "delay"
  /\ pc' = [pc EXCEPT ![c] = "request"]
  /\ UNCHANGED <<newest, gateVars, sharedVars, job>>

(* Its ladder was handed no semaphore: the backoff keeps the slot ... *)
NoticeFails(c) ==
  /\ c \in Notices
  /\ pc[c] = "request" /\ job[c].attempt < NoticeAttempts
  /\ pc' = [pc EXCEPT ![c] = "heldback"]
  /\ UNCHANGED <<newest, gateVars, sharedVars, job>>

(* ... and the next attempt goes out at once, unpaced. *)
NoticeAgain(c) ==
  /\ pc[c] = "heldback"
  /\ pc' = [pc EXCEPT ![c] = "request"]
  /\ job' = [job EXCEPT ![c].attempt = @ + 1]
  /\ UNCHANGED <<newest, gateVars, sharedVars>>

-----------------------------------------------------------------------------
(* The task is over, one way or another, and holds nothing any more. *)
Done(c) ==
  /\ pc' = [pc EXCEPT ![c] = "idle"] /\ job' = [job EXCEPT ![c] = NoJob]

LetGo(c) ==
  /\ slots' = slots \ {c}
  /\ pacer' = IF pacer = c THEN Nobody ELSE pacer
  /\ wake' = [wake EXCEPT ![c] = 0]
  /\ lock' = IF lock = c THEN Nobody ELSE lock

(* Not published, not retryable or out of attempts: None, which the PD7DAY   *)
(* client turns into an exception.  Nothing shared has changed.              *)
GiveUp(c) ==
  /\ pc[c] = "request"
  /\ LetGo(c) /\ Done(c)
  /\ UNCHANGED <<newest, gapLeft, sinceAdmitted, full, age>>

(* Another client got its file, or was told that it is not there. *)
OtherFetched(c) ==
  /\ c \in Others /\ pc[c] = "request"
  /\ LetGo(c) /\ Done(c)
  /\ UNCHANGED <<newest, gapLeft, sinceAdmitted, full, age>>

OtherStart(c) ==
  /\ c \in Others /\ pc[c] = "idle"
  /\ pc' = [pc EXCEPT ![c] = "semwait"]
  /\ job' = [job EXCEPT ![c] = [NoJob EXCEPT !.phase = "other", !.attempt = 1]]
  /\ UNCHANGED <<newest, gateVars, sharedVars>>

-----------------------------------------------------------------------------
(* SharedPD7DayFetch *)

InBurst == full # 0 /\ age < Window

(* fetch_all: inside the burst window the held parse is served at once. *)
RefreshInBurst(c) ==
  /\ pc[c] \in {"idle", "lockwait"} /\ InBurst
  /\ pc[c] = "lockwait" => lock = Nobody       \* the re-check under the lock
  /\ Done(c)
  /\ UNCHANGED <<newest, gateVars, sharedVars>>

Refresh(c) ==
  /\ pc[c] = "idle" /\ ~InBurst
  /\ pc' = [pc EXCEPT ![c] = "lockwait"]
  /\ UNCHANGED <<newest, gateVars, sharedVars, job>>

ListWithoutLock(c) ==
  /\ pc[c] = "lockwait" /\ ~InBurst
  /\ lock' = c
  /\ pc' = [pc EXCEPT ![c] = "semwait"]
  /\ job' = [job EXCEPT ![c] = [phase |-> "list", attempt |-> 1, file |-> 0]]
  /\ UNCHANGED <<newest, gateVars, full, age>>

(* Through the lock and still nothing recent: list the directory. *)
List(c) ==
  /\ pc[c] = "lockwait" /\ lock = Nobody /\ ~InBurst
  /\ lock' = c
  /\ pc' = [pc EXCEPT ![c] = "semwait"]
  /\ job' = [job EXCEPT ![c] = [phase |-> "list", attempt |-> 1, file |-> 0]]
  /\ UNCHANGED <<newest, gateVars, full, age>>

(* The listing names the file already held: _reconfirm(). *)
SameFile(c) ==
  /\ pc[c] = "request" /\ job[c].phase = "list" /\ newest = full
  /\ age' = 0
  /\ LetGo(c) /\ Done(c)
  /\ UNCHANGED <<newest, gapLeft, sinceAdmitted, full>>

(* A new one: download it, in a request of its own. *)
NewFile(c) ==
  /\ pc[c] = "request" /\ job[c].phase = "list" /\ newest # full
  /\ slots' = slots \ {c}
  /\ pc' = [pc EXCEPT ![c] = "semwait"]
  /\ job' = [job EXCEPT ![c] = [phase |-> "file", attempt |-> 1, file |-> newest]]
  /\ UNCHANGED <<newest, gapLeft, sinceAdmitted, pacer, wake, sharedVars>>

Downloaded(c) ==
  /\ pc[c] = "request" /\ job[c].phase = "file"
  /\ slots' = slots \ {c}
  /\ pc' = [pc EXCEPT ![c] = "parse"]
  /\ UNCHANGED <<newest, gapLeft, sinceAdmitted, pacer, wake, sharedVars, job>>

(* Back from the executor, with the parse or with an exception. *)
Parsed(c) ==
  /\ pc[c] = "parse"
  /\ full' = job[c].file /\ age' = 0
  /\ LetGo(c) /\ Done(c)
  /\ UNCHANGED <<newest, gapLeft, sinceAdmitted>>

ParseFails(c) ==
  /\ pc[c] = "parse"
  /\ LetGo(c) /\ Done(c)
  /\ UNCHANGED <<newest, gapLeft, sinceAdmitted, full, age>>

-----------------------------------------------------------------------------
CancelKeepingSlot(c) ==
  /\ pc[c] # "idle" /\ Done(c)
  /\ slots' = IF pc[c] = "pacing" THEN slots ELSE slots \ {c}
  /\ pacer' = IF pacer = c THEN Nobody ELSE pacer
  /\ wake' = [wake EXCEPT ![c] = 0]
  /\ lock' = IF lock = c THEN Nobody ELSE lock
  /\ UNCHANGED <<newest, gapLeft, sinceAdmitted, full, age>>

(* The task is cancelled at whatever it awaits; the context managers unwind. *)
Cancel(c) ==
  /\ pc[c] # "idle"
  /\ LetGo(c) /\ Done(c)
  /\ UNCHANGED <<newest, gapLeft, sinceAdmitted, full, age>>

Gate(c) == SemAcquire(c) \/ PaceNow(c) \/ PaceSleep(c) \/ PaceWake(c)
Notice(c) == DelayOver(c) \/ NoticeFails(c) \/ NoticeAgain(c)
Retry(c) == AttemptFails(c) \/ BackoffOver(c) \/ Notice(c) \/ GiveUp(c) \/ OtherFetched(c)
Shared(r) == List(r) \/ SameFile(r) \/ NewFile(r) \/ Downloaded(r) \/ Parsed(r) \/ ParseFails(r)

Next ==
  \/ Publish \/ Tick
  \/ \E c \in Callers : Gate(c) \/ Retry(c) \/ OtherStart(c) \/ Cancel(c)
  \/ \E r \in Regions : Refresh(r) \/ RefreshInBurst(r) \/ Shared(r)

Spec == Init /\ [][Next]_vars

(* The next step of a task that is under way. *)
TaskStep(c) ==
  \/ Gate(c) \/ Retry(c)
  \/ c \in Regions /\ (Shared(c) \/ (pc[c] = "lockwait" /\ RefreshInBurst(c)))

(* Requests end (every one has a timeout), sleeps end, threads return; the   *)
(* semaphore and the locks of asyncio are FIFO, so no waiter is passed over. *)
FairSpec == Spec /\ WF_vars(Tick) /\ \A c \in Callers : SF_vars(TaskStep(c))

-----------------------------------------------------------------------------
(* Properties *)

GateOK ==
  /\ gapLeft \in Nat /\ wake \in [Callers -> Nat] /\ sinceAdmitted \in 0..Gap
  /\ slots \subseteq Callers /\ Cardinality(slots) <= MaxConcurrent
  /\ pacer \in Callers \cup {Nobody}

SharedOK ==
  /\ newest \in 1..MaxFile /\ full \in 0..newest /\ age \in 0..Window
  /\ lock \in Regions \cup {Nobody}

TasksOK ==
  /\ pc \in [Callers -> {"idle", "lockwait"} \cup Locked]
  /\ job \in [Callers -> [phase : {"none", "list", "file", "other"},
                          attempt : 0..MaxAttempts, file : 0..newest]]

TypeOK == GateOK /\ SharedOK /\ TasksOK

(* A slot is held exactly by the tasks between __aenter__ and __aexit__: none *)
(* is leaked by a cancellation in the middle of pacing, none is used unheld, *)
(* and only a notice's backoff sleeps with one (nemweb_gate.py,              *)
(* nemweb_retry.py, market_notice_client.py _fetch_guarded).                 *)
SlotsAccountedFor == slots = {c \in Callers : pc[c] \in Held}

(* Successive acquisitions of the gate are at least the minimum gap apart,   *)
(* whoever acquires it and whatever was cancelled in between (NemwebGate,    *)
(* #22).  So are the requests that go out on acquisition.  It says nothing   *)
(* of a notice's request, delayed and then retried inside one acquisition,   *)
(* nor of the dispatch fallback, which never comes to the gate.              *)
AdmissionsAreSpaced ==
  [][\A c \in Callers :
       pc[c] \in {"pacewait", "pacing"} /\ pc'[c] \in {"delay", "request"}
         => sinceAdmitted >= Gap]_vars

(* No published file is parsed twice, and a slow download never replaces a   *)
(* newer parse: what SharedPD7DayFetch installs is newer than what it held.  *)
EachFileParsedOnce ==
  [][\A r \in Regions : Parsed(r) => full' > full]_vars

(* A refresh ends, with a parse or an exception, unless                      *)
(* it is cancelled: no order of slots, pace lock and fetch lock hangs it.    *)
EveryRefreshEnds == \A r \in Regions : pc[r] = "lockwait" ~> pc[r] = "idle"
=============================================================================
