----------------------------- MODULE Moderation -----------------------------
(***************************************************************************)
(* What admins do to jobs and users, and what it does to the jobs and      *)
(* proposals of module Hiring:                                             *)
(* src/modules/admin/jobs/job-checker.service.js and                       *)
(* src/modules/admin/users/user-management.service.js.                     *)
(*                                                                         *)
(* A suspended or banned user makes no requests (auth.middleware.js);      *)
(* those under way go on.  Suspending a freelancer withdraws his pending   *)
(* proposals, marked suspendedByAdmin, and activating him brings those     *)
(* back.  Suspending a client closes no job: the closing sets the reason   *)
(* 'admin_action', which the Job model does not list, and the first save   *)
(* is refused.  So no job is marked suspendedByAdmin, and activating him   *)
(* reopens none.                                                           *)
(***************************************************************************)
EXTENDS Hiring

CONSTANTS
  Clients,
  ClientOf  \* job -> client

ASSUME ModerationAssumption ==
  /\ ClientOf \in [Jobs -> Clients]
  /\ Clients \cap Freelancers = {}
  /\ None \notin Clients \cup Freelancers

VARIABLES
  inactive,   \* users with isActive false: suspended or banned
  suspended,  \* proposals with suspendedByAdmin
  revived     \* history: proposals that activating their user brought back

moderationVars == <<inactive, suspended, revived>>

AllUsers == Clients \cup Freelancers

ModerationInit == inactive = {} /\ suspended = {} /\ revived = {}
-----------------------------------------------------------------------------
(* authenticate refuses the requests of an inactive user.  Those about a   *)
(* proposal are its freelancer's, or the client's: viewing (which leaves   *)
(* no task), accepting and rejecting.                                      *)
Party(op, p) == IF op \in {"none", "acceptProposal", "rejectProposal"}
                THEN ClientOf[JobOf[p]] ELSE FreelancerOf[p]
HiringRequest(w) ==
  \/ \E j \in Jobs : ClientOf[j] \notin inactive /\ JobRequest(w, j)
  \/ \E p \in Proposals : ProposalRequest(w, p) /\ Party(task'[w].op, p) \notin inactive
  \/ JobCall(w)
  \/ ProposalCall(w)

\* The status an admin's request gives the job it has read.
Moderated(op, status) ==
  CASE op = "approveJob" /\ status \in {"closed", "cancelled"} -> "open"
    [] op = "rejectJob" -> "closed"
    [] OTHER -> status
\* The pre-save hook closes an open job that has received maxProposals.
Hooked(j, status) ==
  IF status = "open" /\ job[j].proposals >= MaxProposals THEN "closed" ELSE status

\* Mutant: the status is updated without the hook of save().
UpdateModerated(w, j, op) ==
  /\ May(w, op) /\ JobExists(j)
  /\ LET to == Hooked(j, Moderated(op, job[j].status)) IN
       /\ to # job[j].status
       /\ Begin(w, [OnJob(op, "saveJob", j) EXCEPT !.to = to])
  /\ UNCHANGED <<hiringVars, moderationVars>>
(* approveJob, rejectJob, flagJob and toggleFeature, of any job.  A save    *)
(* that leaves the status runs no sweep; one that opens the job and is      *)
(* closed again by the hook may count as modified or not.                   *)
ModerateJob(w, j, op) ==
  /\ May(w, op) /\ JobExists(j)
  /\ LET to == Hooked(j, Moderated(op, job[j].status)) IN
       /\ to # job[j].status \/ (op = "approveJob" /\ to = "closed")
       /\ Begin(w, [OnJob(op, IF to = "closed" THEN "sweep" ELSE "saveJob", j)
                      EXCEPT !.to = to])
  /\ UNCHANGED <<hiringVars, moderationVars>>

(* deleteJob counts and deletes proposals by a field they do not have       *)
(* (job): it finds none, and removes the job.                               *)
AdminDeleteJob(w, j) ==
  /\ May(w, "adminDelete") /\ JobExists(j)
  /\ Begin(w, OnJob("adminDelete", "removeJob", j))
  /\ UNCHANGED <<hiringVars, moderationVars>>

ForUser(op, pc, u) == [Request(op, pc) EXCEPT !.user = u]
Of(w) == {p \in Proposals : FreelancerOf[p] = task[w].user}

\* suspendUser and banUser, the user saved.
Suspend(w, u) ==
  /\ May(w, "suspend")
  /\ inactive' = inactive \cup {u}
  /\ IF u \in Freelancers THEN Begin(w, ForUser("suspend", "withdrawAll", u))
                          ELSE UNCHANGED task
  /\ UNCHANGED <<hiringVars, suspended, revived>>
WithdrawAll(w) ==
  /\ At(w, "withdrawAll")
  /\ LET found == {p \in Of(w) : proposal[p].status = "pending"} IN
       /\ SetProposals(found, "withdrawn")
       /\ suspended' = suspended \cup found
  /\ Done(w)
  /\ UNCHANGED <<job, inactive, revived>>

\* activateUser.
Activate(w, u) ==
  /\ May(w, "activate")
  /\ inactive' = inactive \ {u}
  /\ IF u \in Freelancers THEN Begin(w, ForUser("activate", "bringBack", u))
                          ELSE UNCHANGED task
  /\ UNCHANGED <<hiringVars, suspended, revived>>
\* Mutant: suspendedByAdmin is not in the filter.
BringAllBack(w) ==
  /\ At(w, "bringBack")
  /\ LET found == {p \in Of(w) : proposal[p].status = "withdrawn"} IN
       /\ SetProposals(found, "pending")
       /\ suspended' = suspended \ found
       /\ revived' = revived \cup found
  /\ Done(w)
  /\ UNCHANGED <<job, inactive>>
BringBack(w) ==
  /\ At(w, "bringBack")
  /\ LET found == {p \in Of(w) \cap suspended : proposal[p].status = "withdrawn"} IN
       /\ SetProposals(found, "pending")
       /\ suspended' = suspended \ found
       /\ revived' = revived \cup found
  /\ Done(w)
  /\ UNCHANGED <<job, inactive>>

ModerationStep(w) ==
  \/ \E j \in Jobs :
       \/ \E op \in {"approveJob", "rejectJob", "flagJob"} : ModerateJob(w, j, op)
       \/ AdminDeleteJob(w, j)
  \/ \E u \in AllUsers : Suspend(w, u) \/ Activate(w, u)
  \/ WithdrawAll(w) \/ BringBack(w)

\* Jobs and proposals with their moderation; no contract is made.
ModerationNext ==
  \E w \in Workers : \/ HiringRequest(w) /\ UNCHANGED moderationVars
                    \/ ModerationStep(w)

moderatedVars == <<hiringVars, moderationVars, task>>
ModeratedInit == HiringInit /\ ModerationInit /\ task = [w \in Workers |-> Idle]
ModerationSpec == ModeratedInit /\ [][ModerationNext]_moderatedVars
-----------------------------------------------------------------------------
(* The properties of requests that do not overlap.                         *)

(* deleteJob of a client refuses a job with proposals and closing rejects  *)
(* the pending ones, by a counter and a hook: whatever its client and the  *)
(* admins do, no live proposal is on a job its client has deleted, nor a   *)
(* pending one on a closed job, unless activating its freelancer has       *)
(* brought it back.                                                        *)
NoOrphanProposal ==
  Quiet => \A p \in Proposals :
    /\ Live(p) => ~job[JobOf[p]].deleted
    /\ proposal[p].status = "pending" =>
         job[JobOf[p]].status # "closed" \/ p \in revived

(* proposalsCount is changed apart from the documents, and not at all when *)
(* proposals are withdrawn by a suspension and brought back: it counts the *)
(* proposals that their freelancers have not withdrawn themselves.         *)
CountIsLive ==
  Quiet => \A j \in Jobs : JobExists(j) =>
    job[j].proposals =
      Cardinality(LiveOn(j) \cup
                  {p \in suspended : JobOf[p] = j /\ proposal[p].status = "withdrawn"})

-----------------------------------------------------------------------------
(* Claims of the code that do not hold.                                    *)

(* job.service.js: "Cannot delete job with active proposals." Refuted by   *)
(* two workers that withdraw one proposal twice, or delete while another   *)
(* applies.                                                                *)
ActiveProposalsKeepTheJob ==
  \A p \in Proposals : proposal[p].status \in {"pending", "accepted"}
    => ~job[JobOf[p]].deleted

(* The same message in job-checker.service.js:253, refuted by the filter   *)
(* on a field that proposals do not have.                                  *)
ActiveProposalsKeepTheJobFromAdmins ==
  \A p \in Proposals : proposal[p].status \in {"pending", "accepted"}
    => JobExists(JobOf[p])

(* user-management.service.js:172: "Cascade: Close all jobs if user is a   *)
(* client (triggers middleware to reject proposals)".                      *)
SuspendedClientHasNoOpenJob ==
  \A j \in Jobs : ClientOf[j] \in inactive => job[j].status \notin {"open", "draft"}

(* Job.js:414: "Auto-reject PENDING proposals when job status changes to   *)
(* 'closed'".  Refuted by a proposal that was withdrawn by a suspension    *)
(* while the job was closed, and brought back.                             *)
ClosedHasNoPending ==
  Quiet => \A p \in Proposals :
    proposal[p].status = "pending" => job[JobOf[p]].status # "closed"
=============================================================================
