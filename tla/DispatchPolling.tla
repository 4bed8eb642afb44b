-------------------------- MODULE DispatchPolling --------------------------
(***************************************************************************)
(* The dispatch poll chain every entry shares (DispatchCoordinator in      *)
(* coordinator.py), how concurrent setups claim it and the last unload     *)
(* drops it (shared_dispatch.py, __init__.py), and a coordinator that      *)
(* refreshes on its notifications behind a RefreshGuard (refresh_guard.py, *)
(* constraint_coordinator.py).                                             *)
(*                                                                         *)
(* One event loop: an action is the code between two awaits.               *)
(***************************************************************************)
EXTENDS Naturals, FiniteSets

CONSTANTS
  Entries,    \* config entries
  Nobody,     \* holder of a free lock
  Retries,    \* _DISPATCH_RETRIES
  MaxMade,    \* bound: DispatchCoordinators created
  MaxOld      \* bound: cancelled consumer refreshes that have not ended yet

\* What this module assumes of its constants.
DPAssumption ==
  /\ IsFiniteSet(Entries) /\ Nobody \notin Entries
  /\ Retries \in Nat /\ MaxMade \in Nat \ {0} /\ MaxOld \in Nat \ {0}

VARIABLES
  entry,    \* per entry: how far its setup got
  mine,     \* per entry: runtime_data.dispatch (0: none)
  setupLock, \* holder of the domain's setup lock
  shared,   \* hass.data[SHARED_DISPATCH_KEY] (0: absent)
  unsubs,   \* hass.data[DISPATCH_UNSUBS_KEY]: whose async_shutdown_polling it holds
  made,     \* coordinators created
  timers,   \* per coordinator: boundary timers pending in Home Assistant
  handle,   \* per coordinator: _pending_cancel is set
  refresh,  \* per coordinator: its refresh in flight, if any
  tries,    \* per coordinator: _retry_until_fresh attempts left
  stopped,  \* per coordinator: _stopped
  raised,   \* per coordinator: a listener raised out of its refresh
  source,   \* the dispatch coordinator the consumer listens to (0: no consumer)
  busy,     \* RefreshGuard._started is set
  stuck,    \* ... for more than STUCK_AFTER_S
  current,  \* the refresh of the guard's generation is running
  old       \* refreshes of earlier generations still running

setupVars == <<entry, mine, setupLock, shared, unsubs, made>>
chainVars == <<timers, handle, refresh, tries, stopped, raised>>
guardVars == <<busy, stuck, current, old>>
dispatchVars == <<setupVars, chainVars, source, guardVars>>

Ids == 1..MaxMade

DispatchInit ==
  /\ entry = [e \in Entries |-> "off"] /\ mine = [e \in Entries |-> 0]
  /\ setupLock = Nobody /\ shared = 0 /\ unsubs = {} /\ made = 0
  /\ timers = [d \in Ids |-> 0] /\ handle = [d \in Ids |-> FALSE]
  /\ refresh = [d \in Ids |-> "none"] /\ tries = [d \in Ids |-> 0]
  /\ stopped = [d \in Ids |-> FALSE] /\ raised = [d \in Ids |-> FALSE]
  /\ source = 0
  /\ busy = FALSE /\ stuck = FALSE /\ current = FALSE /\ old = 0

-----------------------------------------------------------------------------
(* RefreshGuard *)

GuardRequestWhileBusy ==
  IF busy THEN UNCHANGED guardVars
  ELSE /\ busy' = TRUE /\ stuck' = FALSE /\ current' = TRUE /\ UNCHANGED old

(* request(): dropped while a refresh runs, unless that one is stuck: it is  *)
(* cancelled, to end in its own time, and a new generation takes the slot.   *)
GuardRequest ==
  IF busy /\ ~stuck THEN UNCHANGED guardVars
  ELSE /\ busy' = TRUE /\ stuck' = FALSE /\ current' = TRUE
       /\ old' = IF current THEN old + 1 ELSE old

(* STUCK_AFTER_S go by. *)
BecomesStuck ==
  /\ busy /\ ~stuck /\ stuck' = TRUE
  /\ UNCHANGED <<setupVars, chainVars, source, busy, current, old>>

(* _run()'s finally, in the refresh of this generation ... *)
CurrentEnds ==
  /\ current
  /\ busy' = FALSE /\ stuck' = FALSE /\ current' = FALSE
  /\ UNCHANGED <<setupVars, chainVars, source, old>>

OldEndsAndReleases ==
  /\ old > 0 /\ old' = old - 1
  /\ busy' = FALSE /\ stuck' = FALSE
  /\ UNCHANGED <<setupVars, chainVars, source, current>>

(* ... and in one that was replaced. *)
OldEnds ==
  /\ old > 0 /\ old' = old - 1
  /\ UNCHANGED <<setupVars, chainVars, source, busy, stuck, current>>

-----------------------------------------------------------------------------
(* The poll chain of coordinator d *)

(* schedule_next_poll: one timer, remembered in the one slot. *)
Schedule(d) ==
  IF stopped[d] THEN UNCHANGED <<timers, handle>>
  ELSE /\ timers' = [timers EXCEPT ![d] = @ + 1]
       /\ handle' = [handle EXCEPT ![d] = TRUE]

(* _on_fire: the refresh starts as a task. *)
PollFires(d) ==
  /\ timers[d] > 0
  /\ timers' = [timers EXCEPT ![d] = @ - 1]
  /\ handle' = [handle EXCEPT ![d] = FALSE]
  /\ refresh' = IF stopped[d] THEN refresh ELSE [refresh EXCEPT ![d] = "fetch"]
  /\ tries' = [tries EXCEPT ![d] = Retries]
  /\ UNCHANGED <<setupVars, stopped, raised, source, guardVars>>

RetriesForever(d) ==
  /\ refresh[d] = "fetch"
  /\ tries' = [tries EXCEPT ![d] = @ - 1]
  /\ UNCHANGED <<setupVars, timers, handle, refresh, stopped, raised, source, guardVars>>

(* AEMO has not published the interval yet: sleep and fetch again, a bounded *)
(* number of times; after the last, whatever comes back is served.           *)
StillStale(d) ==
  /\ refresh[d] = "fetch" /\ tries[d] > 0
  /\ tries' = [tries EXCEPT ![d] = @ - 1]
  /\ UNCHANGED <<setupVars, timers, handle, refresh, stopped, raised, source, guardVars>>

(* async_refresh notifies its listeners, the consumer's guard among them ... *)
Notify(d) ==
  /\ busy /\ stuck => old < MaxOld
  /\ IF source = d THEN GuardRequest ELSE UNCHANGED guardVars

ServedWithoutNextPoll(d) ==
  /\ refresh[d] = "fetch" /\ Notify(d)
  /\ refresh' = [refresh EXCEPT ![d] = "none"]
  /\ \/ Schedule(d)
     \/ UNCHANGED <<timers, handle>>      \* the fetch failed
  /\ UNCHANGED <<setupVars, tries, stopped, raised, source>>

(* ... and the chain goes on, whether prices came, old ones were kept after  *)
(* an error, or the last retry was still behind.                             *)
Served(d) ==
  /\ refresh[d] = "fetch" /\ Notify(d)
  /\ refresh' = [refresh EXCEPT ![d] = "none"]
  /\ Schedule(d)
  /\ UNCHANGED <<setupVars, tries, stopped, raised, source>>

(* A listener raises: async_refresh raises, and _aligned_refresh with it.    *)
ListenerRaises(d) ==
  /\ refresh[d] = "fetch"
  /\ refresh' = [refresh EXCEPT ![d] = "none"]
  /\ raised' = [raised EXCEPT ![d] = TRUE]
  /\ UNCHANGED <<setupVars, timers, handle, tries, stopped, source, guardVars>>

-----------------------------------------------------------------------------
(* async_setup_entry, as far as it concerns polling *)

SetupStart(e) ==
  /\ entry[e] = "off"
  /\ entry' = [entry EXCEPT ![e] = "before"]
  /\ UNCHANGED <<mine, setupLock, shared, unsubs, made, chainVars, source, guardVars>>

(* async_shared_dispatch, the lock free: it is there already ... *)
UseShared(e) ==
  /\ entry[e] = "before" /\ setupLock = Nobody /\ shared # 0
  /\ mine' = [mine EXCEPT ![e] = shared]
  /\ entry' = [entry EXCEPT ![e] = "platforms"]
  /\ UNCHANGED <<setupLock, shared, unsubs, made, chainVars, source, guardVars>>

CreateUnlocked(e) ==
  /\ entry[e] = "before" /\ shared = 0 /\ made < MaxMade
  /\ made' = made + 1 /\ mine' = [mine EXCEPT ![e] = made + 1]
  /\ setupLock' = e
  /\ entry' = [entry EXCEPT ![e] = "creating"]
  /\ UNCHANGED <<shared, unsubs, chainVars, source, guardVars>>

(* ... or it is created, and its first refresh awaited under the lock.       *)
Create(e) ==
  /\ entry[e] = "before" /\ setupLock = Nobody /\ shared = 0 /\ made < MaxMade
  /\ made' = made + 1 /\ mine' = [mine EXCEPT ![e] = made + 1]
  /\ setupLock' = e
  /\ entry' = [entry EXCEPT ![e] = "creating"]
  /\ UNCHANGED <<shared, unsubs, chainVars, source, guardVars>>

(* The first refresh came back: publish, then schedule. *)
PublishShared(e) ==
  /\ entry[e] = "creating"
  /\ shared' = mine[e] /\ unsubs' = unsubs \cup {mine[e]}
  /\ Schedule(mine[e])
  /\ setupLock' = Nobody
  /\ entry' = [entry EXCEPT ![e] = "platforms"]
  /\ UNCHANGED <<mine, made, refresh, tries, stopped, raised, source, guardVars>>

(* The platforms: the consumer is shared too, created on first use. *)
FinishSetup(e) ==
  /\ entry[e] = "platforms"
  /\ source' = IF source = 0 THEN mine[e] ELSE source
  /\ entry' = [entry EXCEPT ![e] = "loaded"]
  /\ UNCHANGED <<mine, setupLock, shared, unsubs, made, chainVars, guardVars>>

(* The first refresh, or anything after it in setup, raised: no unload runs. *)
SetupFails(e) ==
  /\ entry[e] \in {"creating", "platforms"}
  /\ entry' = [entry EXCEPT ![e] = "off"] /\ mine' = [mine EXCEPT ![e] = 0]
  /\ setupLock' = IF setupLock = e THEN Nobody ELSE setupLock
  /\ UNCHANGED <<shared, unsubs, made, chainVars, source, guardVars>>

(* async_shutdown_polling: the flag, the timer, the refresh in flight. *)
Shutdown(D) ==
  /\ stopped' = [d \in Ids |-> stopped[d] \/ d \in D]
  /\ timers' = [d \in Ids |-> IF d \in D /\ handle[d] THEN timers[d] - 1 ELSE timers[d]]
  /\ handle' = [d \in Ids |-> handle[d] /\ d \notin D]
  /\ refresh' = [d \in Ids |-> IF d \in D THEN "none" ELSE refresh[d]]

(* async_unload_entry: when no other entry is LOADED, the unsubscribe list   *)
(* is run (it holds the consumer's clean-up too) and the shared slot emptied. *)
UnloadEntry(e) ==
  /\ entry[e] = "loaded"
  /\ entry' = [entry EXCEPT ![e] = "off"] /\ mine' = [mine EXCEPT ![e] = 0]
  /\ IF \E o \in Entries \ {e} : entry[o] = "loaded"
     THEN UNCHANGED <<shared, unsubs, timers, handle, refresh, stopped, source, guardVars>>
     ELSE /\ Shutdown(unsubs) /\ unsubs' = {} /\ shared' = 0
          /\ source' = 0
          /\ busy' = FALSE /\ stuck' = FALSE /\ current' = FALSE /\ old' = 0
  /\ UNCHANGED <<setupLock, made, tries, raised>>

-----------------------------------------------------------------------------
SetupEntry(e) ==
  SetupStart(e) \/ UseShared(e) \/ Create(e) \/ PublishShared(e) \/ FinishSetup(e) \/ SetupFails(e)

Chain(d) == PollFires(d) \/ StillStale(d) \/ Served(d) \/ ListenerRaises(d)

DispatchNext ==
  \/ \E e \in Entries : SetupEntry(e) \/ UnloadEntry(e)
  \/ \E d \in Ids : Chain(d)
  \/ BecomesStuck \/ CurrentEnds \/ OldEnds

DispatchSpec == DispatchInit /\ [][DispatchNext]_dispatchVars

(* Timers fire and fetches end (urllib and aiohttp calls carry timeouts); a  *)
(* cancelled task ends.  A consumer refresh may hang for ever.               *)
FairSpec ==
  DispatchSpec /\ WF_dispatchVars(OldEnds) /\ \A d \in Ids : WF_dispatchVars(Chain(d))

-----------------------------------------------------------------------------
(* Properties *)

Alive(d) == timers[d] > 0 \/ refresh[d] # "none"

DispatchTypeOK ==
  /\ entry \in [Entries -> {"off", "before", "creating", "platforms", "loaded"}]
  /\ mine \in [Entries -> 0..made] /\ setupLock \in Entries \cup {Nobody}
  /\ shared \in 0..made /\ unsubs \subseteq 1..made /\ made \in 0..MaxMade
  /\ timers \in [Ids -> Nat] /\ handle \in [Ids -> BOOLEAN]
  /\ refresh \in [Ids -> {"none", "fetch"}] /\ tries \in [Ids -> 0..Retries]
  /\ stopped \in [Ids -> BOOLEAN] /\ raised \in [Ids -> BOOLEAN]
  /\ source \in 0..made
  /\ busy \in BOOLEAN /\ stuck \in BOOLEAN /\ current \in BOOLEAN /\ old \in 0..MaxOld

(* At most one chain polls AEMO, with one timer or one refresh at a time,    *)
(* and it is the one hass.data knows: concurrent setups do not start five,   *)
(* and a reload leaves none running beside the new one (#34, #101).          *)
OneChain ==
  \A d \in Ids : /\ timers[d] + (IF refresh[d] = "none" THEN 0 ELSE 1) <= 1
                 /\ Alive(d) => d = shared

(* A poll always leads to the next: while a coordinator is shared its chain  *)
(* is alive, unless a listener raised out of a refresh.                      *)
ChainGoesOn == shared # 0 /\ ~raised[shared] => Alive(shared)

(* At most one refresh of the consumer is wanted at a time, and the guard    *)
(* says it is busy exactly while that one runs: a cancelled refresh ending   *)
(* late does not let a third one start beside its replacement (#256).        *)
GuardTracksCurrent == busy <=> current

(* A refresh that hangs is replaced as long as dispatch polls go on, however *)
(* long it hangs (#256).                                                     *)
StuckRefreshIsReplaced ==
  stuck ~> (~stuck \/ source = 0 \/ stopped[source] \/ raised[source])

(* shared_dispatch.py 3-4: one DispatchCoordinator serves every configured   *)
(* region.  A loaded entry's coordinator has not been shut down under it.    *)
LoadedEntryIsServed == \A e \in Entries : entry[e] = "loaded" => ~stopped[mine[e]]
=============================================================================
