----------------------------- MODULE MCPolling -----------------------------
(* What the integration polls and the timers and listeners it keeps, each  *)
(* on a small instance.  A behaviour chooses one component at the start    *)
(* and only that one steps: the dispatch chain of DispatchPolling, the     *)
(* notices of NoticeFeed, the publish slots of PublishCycle, the runs of   *)
(* HeldRuns, the registry of ActiveTariff, the writes of TariffWrites or   *)
(* the observations of PredispatchLedger.  The properties are theirs.      *)
EXTENDS HeldRuns, DispatchPolling, NoticeFeed, PublishCycle, ActiveTariff, TariffWrites,
        PredispatchLedger, TLC

VARIABLE mode

(* Six files: a LOR, one that is no notice, an update of the first, a       *)
(* cancellation naming two files, a MSL of the next day, and a cancellation *)
(* that names no notice but a date.                                         *)
Body(type, periods, updates, cancels, date) ==
  [type |-> type, region |-> "QLD1", levels |-> <<2>>, periods |-> periods,
   updates |-> updates, cancels |-> cancels, refs |-> <<>>, date |-> date]
NoticeTexts ==
  << Body("LOR", {<<1, 2>>}, 0, FALSE, 0),
     Body("other", {}, 0, FALSE, 0),
     Body("LOR", {<<2, 2>>, <<1, 1>>}, 1, FALSE, 0),
     [Body("LOR", {}, 0, TRUE, 0) EXCEPT !.refs = <<4, 3>>],
     Body("MSL", {<<2, 2>>}, 0, FALSE, 0),
     Body("MSL", {}, 0, TRUE, 2) >>

(* Runs of five half hours, kept every time, every second and every fourth. *)
ForecastOf(k, end) == 10 * k + end
SettledAt(t) == -t
Thinning == <<[below |-> 4, every |-> 1], [below |-> 8, every |-> 2], [below |-> 100, every |-> 4]>>

\* What the components assume of their constants.
ASSUME DPAssumption
ASSUME NoticeAssumption
ASSUME PublishAssumption
ASSUME TariffAssumption
ASSUME WritesAssumption
ASSUME LedgerAssumption

allVars == <<mode, runVars, dispatchVars, feedVars, publishVars, tariffVars, writeVars,
             ledgerVars>>

Init ==
  /\ mode \in {"runs", "dispatch", "notices", "publish", "tariff", "writes", "ledger"}
  /\ RunsInit /\ DispatchInit /\ FeedInit /\ PublishInit /\ TariffInit /\ WritesInit
  /\ LedgerInit
  /\ mode # "runs" => listed["p5"] = None
  /\ mode # "notices" => disk.schema = 1
  /\ mode # "tariff" => amber.site
  /\ mode # "writes" => p5due /\ memoIs = "current"

Next ==
  /\ UNCHANGED mode
  /\ \/ /\ mode = "runs" /\ RunsNext
        /\ UNCHANGED <<dispatchVars, feedVars, publishVars, tariffVars, writeVars, ledgerVars>>
     \/ /\ mode = "dispatch" /\ DispatchNext
        /\ UNCHANGED <<runVars, feedVars, publishVars, tariffVars, writeVars, ledgerVars>>
     \/ /\ mode = "notices" /\ FeedNext
        /\ UNCHANGED <<runVars, dispatchVars, publishVars, tariffVars, writeVars, ledgerVars>>
     \/ /\ mode = "publish" /\ PublishNext
        /\ UNCHANGED <<runVars, dispatchVars, feedVars, tariffVars, writeVars, ledgerVars>>
     \/ /\ mode = "tariff" /\ TariffNext
        /\ UNCHANGED <<runVars, dispatchVars, feedVars, publishVars, writeVars, ledgerVars>>
     \/ /\ mode = "writes" /\ WritesNext
        /\ UNCHANGED <<runVars, dispatchVars, feedVars, publishVars, tariffVars, ledgerVars>>
     \/ /\ mode = "ledger" /\ LedgerNext
        /\ UNCHANGED <<runVars, dispatchVars, feedVars, publishVars, tariffVars, writeVars>>

Spec == Init /\ [][Next]_allVars

RegionSymmetry == Permutations(Regions)

\* The variables of the components have their types.
TypesOK ==
  /\ RunsTypeOK /\ DispatchTypeOK /\ FeedTypeOK /\ PublishTypeOK
  /\ TariffTypeOK /\ WritesTypeOK /\ LedgerTypeOK
=============================================================================
