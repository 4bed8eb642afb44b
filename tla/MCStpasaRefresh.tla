-------------------------- MODULE MCStpasaRefresh --------------------------
(* Small instances of StpasaRefresh for TLC. *)
EXTENDS StpasaRefresh, TLC

Symmetric == Permutations(Regions)

\* The startup refit of the regions that may be unloaded is enough: to the others'
\* claims it adds one more Update.
OneRefits == \A r \in Regions \ Removable : refit[r] = "none"
=============================================================================
