--------------------------- MODULE MCNemwebFetch ---------------------------
(* Small instances of NemwebFetch for TLC. *)
EXTENDS NemwebFetch, TLC
=============================================================================
