----------------------------- MODULE MCAiGateway -----------------------------
(* Three requests of a user, two of them at a time, where every limit is 1. *)
EXTENDS AiGateway, TLC

CONSTANTS w1, w2, user1

MCHourlyLimit == [k \in Keys |-> 1]
MCPlanLimit == [u \in Users |-> 1]
MCSymmetry == Permutations(Workers)
=============================================================================
