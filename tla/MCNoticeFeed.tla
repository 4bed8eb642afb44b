---------------------------- MODULE MCNoticeFeed ----------------------------
(* Six files: a LOR, one that is no notice, an update of the first, a        *)
(* cancellation naming two files, a MSL of the next day, and a cancellation  *)
(* that names no notice but a date.                                          *)
EXTENDS NoticeFeed, TLC

Body(type, periods, updates, cancels, date) ==
  [type |-> type, region |-> "QLD1", levels |-> <<2>>, periods |-> periods,
   updates |-> updates, cancels |-> cancels, refs |-> <<>>, date |-> date]

MCText ==
  << Body("LOR", {<<1, 2>>}, 0, FALSE, 0),
     Body("other", {}, 0, FALSE, 0),
     Body("LOR", {<<2, 2>>, <<1, 1>>}, 1, FALSE, 0),
     [Body("LOR", {}, 0, TRUE, 0) EXCEPT !.refs = <<4, 3>>],
     Body("MSL", {<<2, 2>>}, 0, FALSE, 0),
     Body("MSL", {}, 0, TRUE, 2) >>

RegionSymmetry == Permutations(Regions)
=============================================================================
