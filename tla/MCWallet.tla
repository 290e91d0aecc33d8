------------------------------ MODULE MCWallet ------------------------------
(* Two users, amounts 1 and 2 with a fee of at least 1: the smaller amount *)
(* leaves no net and cannot be released, the other can.  Two admins take   *)
(* out what the platform collects.                                         *)
EXTENDS PlatformWithdrawal, TLC

CONSTANTS a1, a2, r1, r2

MCSymmetry == Permutations({a1, a2}) \cup Permutations({r1, r2})
=============================================================================
