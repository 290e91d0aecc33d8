----------------------------- MODULE MCContract -----------------------------
(* Instances of Contract: one job, proposals of one or two freelancers, one *)
(* of whom may apply again after withdrawing; one contract, two milestones. *)
EXTENDS Contract, TLC

CONSTANTS j1, p1, p2, p3, f1, f2, m1, m2, w1, w2, d1, d2

MCJobOf == p1 :> j1 @@ p2 :> j1 @@ p3 :> j1
MCFreelancerOf == p1 :> f1 @@ p2 :> f2 @@ p3 :> f1
MCJobOf1 == p1 :> j1
MCFreelancerOf1 == p1 :> f1
MCProposalOf == m1 :> p1 @@ m2 :> p1

MCJobRequests == {"postJob", "viewJob", "updateJob", "updateJobStatus", "closeJob",
                  "deleteJob"}
MCProposalRequests == {"apply", "edit", "viewProposal", "withdraw",
                       "acceptProposal", "rejectProposal"}
MCContractRequests ==
  {"postJob", "apply", "acceptProposal", "hire", "confirm", "accept", "decline",
   "cancel", "startContract", "submitWork", "requestRevision", "approveWork",
   "complete", "close", "addMilestone", "fund", "start", "submit", "approve",
   "revise", "openDispute", "closeDispute",
   "viewJob", "sweepFails"}
MCHiringRequests == MCJobRequests \cup MCProposalRequests
MCProposalOf1 == m1 :> p1
MCMilestoneRequests ==
  {"postJob", "apply", "acceptProposal", "hire", "confirm", "accept", "addMilestone",
   "start", "submit", "approve", "revise", "openDispute",
   "updateDispute", "settle", "crash"}
MCWorkerSymmetry == Permutations({w1, w2})
MCSymmetry == Permutations({m1, m2}) \cup Permutations({d1, d2})
=============================================================================
