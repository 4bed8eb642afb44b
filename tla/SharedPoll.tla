----------------------------- MODULE SharedPoll -----------------------------
(***************************************************************************)
(* What a poll that several coordinators share promises, whoever carries   *)
(* it out: one at a time, and none while the last answer is still fresh.   *)
(* A poll may be abandoned, and then the next one need not wait.           *)
(***************************************************************************)

VARIABLES busy, fresh

Init == ~busy /\ ~fresh

Begin == ~busy /\ ~fresh /\ busy' /\ UNCHANGED fresh
Finish == busy /\ ~busy' /\ fresh'
Abandon == busy /\ ~busy' /\ UNCHANGED fresh
Age == fresh /\ ~fresh' /\ UNCHANGED busy

Next == Begin \/ Finish \/ Abandon \/ Age

Spec == Init /\ [][Next]_<<busy, fresh>>
=============================================================================
