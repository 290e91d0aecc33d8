------------------------------ MODULE Reviews ------------------------------
(***************************************************************************)
(* Reviews of contracts and the rating of the users they are about:        *)
(* src/modules/reviews/review.service.js, and approveWork of               *)
(* src/modules/contracts/contract.service.js, which may carry a review.    *)
(*                                                                         *)
(* A review is saved in its contract; the aggregate that the reviewed user *)
(* carries is recomputed from all his contracts that are COMPLETED, in     *)
(* later calls by submitReview and in earlier ones by approveWork.  One    *)
(* action is one awaited call.  What other requests do to a contract is    *)
(* ChangeStatus.                                                           *)
(***************************************************************************)
EXTENDS Integers, FiniteSets, Functions

CONSTANTS
  Contracts,
  Submissions,  \* requests that may be in flight together
  Parties,      \* contract -> [client, freelancer], two different users
  Ratings,      \* bound: contract -> role -> the ratings that party gives, of 1..5
  Repaired      \* bound: users whose rating is recomputed by a request

ASSUME ReviewsAssumption ==
  \A c \in Contracts :
    /\ Ratings[c].client \subseteq 1..5 /\ Ratings[c].freelancer \subseteq 1..5
    /\ Parties[c].client # Parties[c].freelancer

VARIABLES
  status,       \* contract -> its status, as far as reviews read it
  review,       \* contract -> the rating each party gave, 0 for no review
  rating,       \* user -> the aggregate he carries
  submission,   \* request -> what it remembers
  outdated      \* history: users whose reviews changed after their rating was
                \* read or saved, or whose requests overlapped or broke off,
                \* and whose rating no request has recomputed alone since

reviewsVars == <<status, review, rating, submission, outdated>>

Statuses == {"in_review", "completed", "other"}
Roles == {"client", "freelancer"}
OtherRole(r) == IF r = "client" THEN "freelancer" ELSE "client"
Rated == {Parties[c][r] : c \in Contracts, r \in Roles}
Operations == {"submitReview", "recalculateRating", "approveWork"}
Steps == {"idle", "saveReview", "readReviews", "saveRating", "saveApproved"}
NoRating == [average |-> 0, count |-> 0]
NoSubmission == [op |-> "recalculateRating", at |-> "idle",
              contract |-> CHOOSE c \in Contracts : TRUE, role |-> "client",
              user |-> CHOOSE u \in Rated : TRUE, stars |-> 0,
              result |-> NoRating, alone |-> TRUE]

\* The requests that recompute the rating of u.
Rating(u) == {q \in Submissions : submission[q].at # "idle" /\ submission[q].user = u}

\* The reviews of u that recalculateUserRating finds, and the ratings in them.
ReceivedIn(u, statuses, reviews) ==
  LET found == {d \in Contracts \X Roles :
                  /\ statuses[d[1]] = "completed" /\ reviews[d[1]][d[2]] # 0
                  /\ Parties[d[1]][OtherRole(d[2])] = u}
  IN  [d \in found |-> reviews[d[1]][d[2]]]
Received(u) == ReceivedIn(u, status, review)

\* The average in tenths, rounded half up.
Aggregate(stars) ==
  LET count == Cardinality(DOMAIN stars)
      sum == FoldFunction(+, 0, stars)
  IN  [average |-> IF count = 0 THEN 0 ELSE (20 * sum + count) \div (2 * count),
       count |-> count]

ReviewsInit ==
  /\ status = [c \in Contracts |-> "in_review"]
  /\ review = [c \in Contracts |-> [r \in Roles |-> 0]]
  /\ rating = [u \in Rated |-> NoRating]
  /\ submission = [q \in Submissions |-> NoSubmission]
  /\ outdated = {}

\* What q remembers, no longer alone if it is for a user in U.
Crowded(q, U) ==
  IF submission[q].at # "idle" /\ submission[q].user \in U
  THEN [submission[q] EXCEPT !.alone = FALSE] ELSE submission[q]

\* The users whose reviews change in this step.
Changed == {u \in Rated : ReceivedIn(u, status', review') # Received(u)}

-----------------------------------------------------------------------------
\* The contract is completed, closed or disputed by other requests.
ChangeStatus(c, to) ==
  /\ status' = [status EXCEPT ![c] = to]
  /\ UNCHANGED <<review, rating>>
  /\ outdated' = outdated \cup Changed
  /\ submission' = [q \in Submissions |-> Crowded(q, Changed)]

BeginReview(q, r) ==
  /\ submission[q].at = "idle"
  /\ submission' = [p \in Submissions |->
       IF p = q THEN [r EXCEPT !.alone = Rating(r.user) = {}] ELSE Crowded(p, {r.user})]
  /\ outdated' = IF Rating(r.user) = {} THEN outdated ELSE outdated \cup {r.user}
  /\ UNCHANGED <<status, review, rating>>

SubmitReview(q, c, role, stars) ==
  /\ status[c] = "completed" /\ review[c][role] = 0 /\ stars \in Ratings[c][role]
  /\ BeginReview(q, [NoSubmission EXCEPT !.op = "submitReview", !.at = "saveReview",
                 !.contract = c, !.role = role, !.stars = stars,
                 !.user = Parties[c][OtherRole(role)]])

RecalculateRating(q, u) ==
  /\ u \in Repaired
  /\ BeginReview(q, [NoSubmission EXCEPT !.at = "readReviews", !.user = u])

\* approveWork with a review, after the payment.
ApproveWork(q, c, stars) ==
  /\ status[c] = "in_review" /\ stars \in Ratings[c].client
  /\ BeginReview(q, [NoSubmission EXCEPT !.op = "approveWork", !.at = "readReviews",
                 !.contract = c, !.stars = stars, !.user = Parties[c].freelancer])

SaveReview(q) ==
  /\ submission[q].at = "saveReview"
  /\ review' = [review EXCEPT ![submission[q].contract][submission[q].role] = submission[q].stars]
  /\ submission' = [submission EXCEPT ![q].at = "readReviews"]
  /\ UNCHANGED <<status, rating, outdated>>

\* Mutant: what the user received as a client is left out.
ReadAsFreelancer(q) ==
  /\ submission[q].at = "readReviews"
  /\ LET all == Received(submission[q].user)
         some == {d \in DOMAIN all : d[2] = "client"}
     IN submission' = [submission EXCEPT ![q].at = "saveRating",
                      ![q].result = Aggregate([d \in some |-> all[d]])]
  /\ UNCHANGED <<status, review, rating, outdated>>

\* Both queries of recalculateUserRating are started together: one read.
ReadReviews(q) ==
  /\ submission[q].at = "readReviews"
  /\ submission' = [submission EXCEPT ![q].at = "saveRating",
                   ![q].result = Aggregate(Received(submission[q].user))]
  /\ UNCHANGED <<status, review, rating, outdated>>

\* approveWork goes on to save the review it was given.
SaveRating(q) ==
  /\ submission[q].at = "saveRating"
  /\ rating' = [rating EXCEPT ![submission[q].user] = submission[q].result]
  /\ outdated' = IF submission[q].alone THEN outdated \ {submission[q].user} ELSE outdated
  /\ submission' = IF submission[q].op = "approveWork"
                THEN [submission EXCEPT ![q].at = "saveApproved", ![q].result = NoRating]
                ELSE [submission EXCEPT ![q] = NoSubmission]
  /\ UNCHANGED <<status, review>>

SaveApproved(q) ==
  /\ submission[q].at = "saveApproved"
  /\ LET r == submission[q] IN
     /\ status' = [status EXCEPT ![r.contract] = "completed"]
     /\ review' = [review EXCEPT ![r.contract].client = r.stars]
  /\ outdated' = outdated \cup Changed
  /\ submission' = [p \in Submissions |-> IF p = q THEN NoSubmission ELSE Crowded(p, Changed)]
  /\ UNCHANGED rating

\* A call throws, or the server stops.
FailSubmission(q) ==
  /\ submission[q].at # "idle"
  /\ outdated' = outdated \cup {submission[q].user}
  /\ submission' = [submission EXCEPT ![q] = NoSubmission]
  /\ UNCHANGED <<status, review, rating>>

ReviewsNext ==
  \/ \E c \in Contracts, to \in Statuses : ChangeStatus(c, to)
  \/ \E q \in Submissions :
       \/ \E c \in Contracts, stars \in 1..5 :
            \/ \E role \in Roles : SubmitReview(q, c, role, stars)
            \/ ApproveWork(q, c, stars)
       \/ \E u \in Rated : RecalculateRating(q, u)
       \/ SaveReview(q) \/ ReadReviews(q) \/ SaveRating(q) \/ SaveApproved(q)
       \/ FailSubmission(q)

ReviewsSpec == ReviewsInit /\ [][ReviewsNext]_reviewsVars

-----------------------------------------------------------------------------
RatingRecords == [average : 0..50, count : 0..2 * Cardinality(Contracts)]

ReviewsTypeOK ==
  /\ status \in [Contracts -> Statuses]
  /\ review \in [Contracts -> [Roles -> 0..5]]
  /\ rating \in [Rated -> RatingRecords]
  /\ submission \in [Submissions ->
       [op : Operations, at : Steps, contract : Contracts, role : Roles, user : Rated,
        stars : 0..5, result : RatingRecords, alone : BOOLEAN]]
  /\ outdated \subseteq Rated

\* The rating a user carries is the aggregate of the reviews he has received in
\* completed contracts, unless these changed behind the computation (a contract
\* left COMPLETED, a review came with the approval), or requests for him
\* overlapped or broke off; the next one that runs alone puts the rating right.
RatingAgrees ==
  \A u \in Rated : u \notin outdated /\ Rating(u) = {} => rating[u] = Aggregate(Received(u))

-----------------------------------------------------------------------------
(* Claims of the code that do not hold.                                    *)

\* "Each party can submit only ONE review per contract (immutable)"
\* (review.service.js:13).
ReviewIsImmutable ==
  [][\A c \in Contracts, role \in Roles :
       review[c][role] # 0 => review'[c][role] = review[c][role]]_reviewsVars

\* "Reviews automatically update user's aggregate rating" (reviews/index.js:10).
ReviewsAreRated ==
  \A u \in Rated : Rating(u) = {} => rating[u] = Aggregate(Received(u))
=============================================================================
