SPECIFICATION Spec
CONSTANTS
  w1 = w1
  w2 = w2
  j1 = j1
  p1 = p1
  p2 = p2
  p3 = p3
  f1 = f1
  f2 = f2
  m1 = m1
  m2 = m2
  d1 = d1
  d2 = d2
  None = None
  Workers = {w1, w2}
  Jobs = {j1}
  Proposals = {p1}
  Freelancers = {f1}
  JobOf <- MCJobOf1
  FreelancerOf <- MCFreelancerOf1
  MaxProposals = 1
  ProposalLimit = 2
  Milestones = {m1}
  ProposalOf <- MCProposalOf1
  Disputes = {d1}
  Operations <- MCMilestoneRequests
INVARIANTS
  CompletedWasPaid
  StartedWasFunded
SYMMETRY MCWorkerSymmetry
CHECK_DEADLOCK FALSE
