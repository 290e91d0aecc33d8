SPECIFICATION HiringCardsSpec
CONSTANTS
  w1 = w1
  w2 = w2
  j1 = j1
  p1 = p1
  p2 = p2
  p3 = p3
  f1 = f1
  f2 = f2
  m1 = m1
  m2 = m2
  d1 = d1
  d2 = d2
  None = None
  Workers = {w1}
  Jobs = {j1}
  Proposals = {p1, p2, p3}
  Freelancers = {f1, f2}
  JobOf <- MCJobOf
  FreelancerOf <- MCFreelancerOf
  MaxProposals = 1
  ProposalLimit = 2
  Milestones = {m1, m2}
  ProposalOf <- MCProposalOf
  Disputes = {}
  Operations <- MCModerationRequests
  cli = cli
  Clients = {cli}
  ClientOf <- MCClientOf
  dan = dan
  eve = eve
  h1 = h1
  h2 = h2
  i1 = i1
  i2 = i2
  i3 = i3
  Holders = {dan, eve}
  Handlers = {h1, h2}
  Uploads = {i1, i2, i3}
  OwnerOf <- MCOwnerOf
  Numbers = {n1}
  Absent = Absent
  MAX_SUBMISSIONS_PER_DAY = 2
INVARIANTS
  NoOrphanProposal
  CountIsLive
  ImagesKept
  NoImageIsLeftInTurn
  OneUserPerCardInTurn
SYMMETRY HiringCardsSymmetry
CHECK_DEADLOCK FALSE
