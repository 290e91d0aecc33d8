SPECIFICATION ServicesSpec
CONSTANTS
  Admins = {a1, a2}
  Senders = {a1}
  Recipients = {r1, r2}
  Batch = 2
  Attempts = 3
  MaxEdits = 1
  MaxStops = 1
  Participants = {u1, u2}
  Requests = {q1, q2}
  Authors = {u1}
  Readers = {u2}
  MaxMessages = 2
  c1 = c1
  c2 = c2
  ann = ann
  bob = bob
  cid = cid
  Contracts = {c1, c2}
  Submissions = {s1, s2}
  Parties <- MCParties
  Ratings <- MCRatings
  Repaired = {bob}
INVARIANTS
  MailedOnce
  CancelStops
  BadgeAgrees
  RatingAgrees
PROPERTY
  SendingEnds
CHECK_DEADLOCK FALSE
