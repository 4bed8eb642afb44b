---------------------------- MODULE ActiveTariff ----------------------------
(***************************************************************************)
(* The active tariff of a region and the registry entries of its tariff    *)
(* sensors (active_tariff.py, __init__.py _forward_platforms).  A setup    *)
(* resolves the active tariff, forwards the platforms, which registers the *)
(* sensors, and then brings the registry in line; between the first and    *)
(* the last the Amber site may report something else.                      *)
(*                                                                         *)
(* A tariff stands for its import sensor and the export partner's.         *)
(***************************************************************************)
EXTENDS Integers, FiniteSets

CONSTANTS
  Unset,
  Tariffs,
  Defaults,   \* DEFAULT_ENABLED_TARIFFS
  Fallback    \* default_tariff() of the region, or Unset

\* What this module assumes of its constants: Unset is nothing else.
TariffAssumption ==
  /\ Defaults \subseteq Tariffs /\ Fallback \in Tariffs \union {Unset}
  /\ Unset \notin [by : {"no", "user", "integration"}, marked : BOOLEAN]

VARIABLES
  sensors,    \* per tariff: who disabled it and whether it is marked, or Unset
  days27,     \* tariffs whose day 2-7 sensors are in the registry
  options,    \* [chosen: a tariff or "auto", only: ONLY_ACTIVE_TARIFF, days: days_2_7 mode]
  amber,      \* [site: an enabled site sensor exists, says: what it reports]
  active,     \* runtime_data.active_tariff
  watch,      \* [on, key]: the listener of watch_amber_site
  load,       \* "down" "forwarding" "loaded" "reloading"
  ours,       \* history: disabled by the integration and by nobody since
  kept        \* history: enabled by the user where that is to stand

tariffVars == <<sensors, days27, options, amber, active, watch, load, ours, kept>>

Reports == Tariffs \union {"silent", "foreign"}
Quiet == [on |-> FALSE, key |-> Unset]

TariffTypeOK ==
  /\ \A t \in Tariffs : sensors[t] = Unset \/ sensors[t] \in [by : {"no", "user", "integration"}, marked : BOOLEAN]
  /\ days27 \subseteq Tariffs
  /\ options \in [chosen : Tariffs \union {"auto"}, only : BOOLEAN, days : BOOLEAN]
  /\ amber \in [site : BOOLEAN, says : Reports]
  /\ active = Unset \/ active \in [t : Tariffs, source : {"option", "amber", "default"}]
  /\ watch \in [on : BOOLEAN, key : Tariffs \union {Unset}]
  /\ load \in {"down", "forwarding", "loaded", "reloading"}
  /\ ours \subseteq Tariffs /\ kept \subseteq Tariffs

TariffInit ==
  /\ sensors = [t \in Tariffs |-> Unset] /\ days27 = {}
  /\ options = [chosen |-> "auto", only |-> TRUE, days |-> TRUE]
  /\ amber \in [site : BOOLEAN, says : {"silent"}]
  /\ active = Unset /\ watch = Quiet /\ load = "down" /\ ours = {} /\ kept = {}

-----------------------------------------------------------------------------
\* detect_amber_tariff(): a readable site that names a tariff of the region.
Detected(a) == IF a.site /\ a.says \in Tariffs THEN a.says ELSE Unset

\* resolve_active_tariff()
Resolved ==
  IF options.chosen # "auto" THEN [t |-> options.chosen, source |-> "option"]
  ELSE IF Detected(amber) # Unset THEN [t |-> Detected(amber), source |-> "amber"]
  ELSE IF Fallback # Unset THEN [t |-> Fallback, source |-> "default"] ELSE Unset

\* _forward_platforms(), up to the await.
ForwardPlatforms ==
  /\ load \in {"down", "reloading"}
  /\ load' = "forwarding" /\ active' = Resolved /\ watch' = Quiet
  /\ UNCHANGED <<sensors, days27, options, amber, ours, kept>>

\* The platform registers every tariff it does not know yet.
Registered ==
  [t \in Tariffs |-> IF sensors[t] # Unset THEN sensors[t]
                     ELSE [by |-> IF t \in Defaults THEN "no" ELSE "integration", marked |-> FALSE]]

Wanted == IF active = Unset THEN Unset ELSE active.t
Restricting == options.only /\ active # Unset /\ active.source # "default"
Undo(t) == t = Wanted \/ ~Restricting

\* As if a sensor were disabled without leaving a mark.
SyncUnmarked(t, s) ==
  IF Undo(t) THEN [by |-> IF s.by = "integration" /\ (t = Wanted \/ s.marked) THEN "no" ELSE s.by, marked |-> FALSE]
  ELSE IF s.by # "no" \/ s.marked \/ t \notin Defaults THEN s ELSE [by |-> "integration", marked |-> FALSE]

\* _sync_one(): undo what the integration disabled, or disable, once, a sensor
\* that is on by default.
SyncOne(t, s) ==
  IF Undo(t) THEN [by |-> IF s.by = "integration" /\ (t = Wanted \/ s.marked) THEN "no" ELSE s.by, marked |-> FALSE]
  ELSE IF s.by # "no" \/ s.marked \/ t \notin Defaults THEN s ELSE [by |-> "integration", marked |-> TRUE]

\* watch_amber_site(): only an automatic choice, only with a site to watch.
WatchFor ==
  IF (active # Unset /\ active.source = "option") \/ ~amber.site THEN Quiet
  ELSE [on |-> TRUE, key |-> Wanted]

\* The platforms are up: sync_tariff_entities() and the watch.
Forwarded ==
  /\ load = "forwarding"
  /\ load' = "loaded"
  /\ sensors' = [t \in Tariffs |-> SyncOne(t, Registered[t])]
  /\ days27' = IF options.days /\ active # Unset THEN {Wanted} ELSE {}
  /\ watch' = WatchFor
  /\ ours' = {t \in Tariffs : /\ sensors'[t].by = "integration"
                              /\ t \in ours \/ Registered[t].by = "no"}
  /\ kept' = {t \in kept : t \notin Defaults \/ ~Undo(t)}
  /\ UNCHANGED <<options, amber, active>>

\* _site_changed(), on any change of the sites it watches: once, and a reload
\* if the tariff is not the one the setup found.
SiteChanged(a) ==
  IF watch.on /\ a.site /\ Detected(a) # Unset /\ Detected(a) # watch.key
    THEN /\ watch' = Quiet
         /\ load' = IF load = "loaded" THEN "reloading" ELSE load
    ELSE UNCHANGED <<watch, load>>

AmberReports ==
  /\ amber.site
  /\ \E v \in Reports : amber' = [amber EXCEPT !.says = v]
  /\ SiteChanged(amber')
  /\ UNCHANGED <<sensors, days27, options, active, ours, kept>>

\* The Amber integration is installed, or its site sensor disabled.
AmberComesOrGoes ==
  /\ amber' = [site |-> ~amber.site, says |-> "silent"]
  /\ UNCHANGED <<sensors, days27, options, active, watch, load, ours, kept>>

\* _async_update_listener()
OptionsChange ==
  /\ load = "loaded"
  /\ \E o \in [chosen : Tariffs \union {"auto"}, only : BOOLEAN, days : BOOLEAN] :
       options' = o /\ o # options
  /\ load' = "reloading"
  /\ UNCHANGED <<sensors, days27, amber, active, watch, ours, kept>>

\* Home Assistant restarts, or reloads the entry.
Restart ==
  /\ load = "loaded"
  /\ load' = "down" /\ watch' = Quiet
  /\ UNCHANGED <<sensors, days27, options, amber, active, ours, kept>>

UserEnables(t) ==
  /\ sensors[t] # Unset /\ sensors[t].by # "no"
  /\ sensors' = [sensors EXCEPT ![t].by = "no"]
  /\ ours' = ours \ {t}
  /\ kept' = IF t \notin Defaults \/ sensors[t].marked THEN kept \union {t} ELSE kept
  /\ UNCHANGED <<days27, options, amber, active, watch, load>>

UserDisables(t) ==
  /\ sensors[t] # Unset /\ sensors[t].by = "no"
  /\ sensors' = [sensors EXCEPT ![t].by = "user"]
  /\ kept' = kept \ {t}
  /\ UNCHANGED <<days27, options, amber, active, watch, load, ours>>

TariffNext ==
  \/ ForwardPlatforms \/ Forwarded \/ AmberReports \/ AmberComesOrGoes \/ OptionsChange \/ Restart
  \/ \E t \in Tariffs : UserEnables(t) \/ UserDisables(t)

TariffSpec == TariffInit /\ [][TariffNext]_tariffVars

-----------------------------------------------------------------------------
\* Whatever is active, chosen, reported and reloaded, and in what order: a
\* sensor the user disabled stays disabled; one the user enabled against the
\* integration stays enabled until its tariff has been active or nothing has
\* been restricted; and what the integration disabled is enabled again when
\* its tariff is active or nothing is restricted.
UserChoiceStands ==
  [][load = "forwarding" /\ load' = "loaded" =>
       \A t \in Tariffs : sensors[t] # Unset =>
         /\ sensors[t].by = "user" => sensors'[t].by = "user"
         /\ t \in kept /\ ~Undo(t) => sensors'[t].by = "no"
         /\ t \in ours /\ Undo(t) => sensors'[t].by = "no"]_tariffVars
=============================================================================
