------------------------------- MODULE Hiring -------------------------------
(***************************************************************************)
(* Jobs and proposals: src/modules/jobs/job.service.js,                    *)
(* src/modules/proposals/proposal.service.js, src/models/Job.js and        *)
(* src/models/Proposal.js.  Module Contract composes them with contracts,  *)
(* whose documents they read.                                              *)
(*                                                                         *)
(* As in module Escrow a worker is a request in flight, an action is one   *)
(* awaited database call with the code up to the next await, save() writes *)
(* the fields the request changed, and a request that throws before it has *)
(* written anything is not a step.                                         *)
(***************************************************************************)
EXTENDS Integers, FiniteSets

CONSTANTS
  Workers,        \* requests in flight at the same time
  Jobs, Proposals, Freelancers,  \* identities of documents and users
  JobOf,          \* proposal -> jobId
  FreelancerOf,   \* proposal -> freelancerId
  MaxProposals,   \* maxProposals of every job
  ProposalLimit,  \* proposals of the free plan, per window
  None,           \* stands for an absent document
  Operations      \* the requests that are made

ASSUME HiringAssumption ==
  /\ IsFiniteSet(Proposals) /\ JobOf \in [Proposals -> Jobs]
  /\ FreelancerOf \in [Proposals -> Freelancers]
  /\ MaxProposals \in Nat \ {0}
  /\ ProposalLimit \in Nat
  /\ None \notin Jobs \cup Proposals

VARIABLES
  job,       \* the stored Job documents
  proposal,  \* the stored Proposal documents
  contract,  \* the stored Contract documents, by their proposal
  task       \* worker -> the request it is executing

hiringVars == <<job, proposal>>

\* "none" is not yet created, "DELETED" removed from the collection.
JobStatuses == {"draft", "open", "in-progress", "in-review", "completed",
                "cancelled", "closed"}
ProposalStatuses == {"pending", "accepted", "completed", "closed", "rejected",
                     "withdrawn"}
Gone == {"none", "DELETED"}

JobRecord == [status : JobStatuses \cup Gone, proposals : Int,
              deleted : BOOLEAN]
\* viewed: clientViewed.  edited: the freelancer has changed the bid.
ProposalRecord == [status : ProposalStatuses \cup Gone, viewed : BOOLEAN,
                   edited : BOOLEAN]

NoJob == [status |-> "none", proposals |-> 0, deleted |-> FALSE]
NoProposal == [status |-> "none", viewed |-> FALSE, edited |-> FALSE]

HiringInit ==
  /\ job = [j \in Jobs |-> NoJob]
  /\ proposal = [p \in Proposals |-> NoProposal]
-----------------------------------------------------------------------------
At(w, pc) == task[w].pc = pc
Quiet == \A w \in Workers : At(w, "idle")
May(w, op) == At(w, "idle") /\ op \in Operations
Job(w) == task[w].job
Proposal(w) == task[w].proposal

JobExists(j) == job[j].status \notin Gone
ProposalExists(p) == proposal[p].status \notin Gone
\* The filter isActive: true, deletedAt: null of the client's requests.
Active(j) == JobExists(j) /\ ~job[j].deleted

Live(p) == ProposalExists(p) /\ proposal[p].status # "withdrawn"
LiveOn(j) == {p \in Proposals : JobOf[p] = j /\ Live(p)}
Pending(j) == {p \in Proposals : JobOf[p] = j /\ proposal[p].status = "pending"}
SameApplicant(p) == {q \in Proposals : /\ JobOf[q] = JobOf[p]
                                       /\ FreelancerOf[q] = FreelancerOf[p]
                                       /\ ProposalExists(q)}

\* STATUS_TRANSITIONS
JobTransitions == {<<"draft", "open">>, <<"draft", "closed">>,
                   <<"open", "in-progress">>, <<"open", "closed">>,
                   <<"in-progress", "completed">>, <<"in-progress", "closed">>}
canChangeStatus(from, to) == <<from, to>> \in JobTransitions

\* Where the requests of module Contract go on once the job is marked.
AfterJob(op) ==
  CASE op = "accept" -> "saveAccepted"
    [] op \in {"approve", "approveWork", "complete"} -> "markProposal"
    [] OTHER -> "idle"

SetProposals(ps, status) ==
  proposal' = [p \in Proposals |->
    IF p \in ps THEN [proposal[p] EXCEPT !.status = status] ELSE proposal[p]]

Go(w, pc) == task' = [task EXCEPT ![w].pc = pc]
-----------------------------------------------------------------------------
(* What a request remembers.  Hiring's own use job, proposal, other (an     *)
(* earlier proposal) and to (the status to be saved), module Moderation's   *)
(* user; the rest is module Contract's.                                     *)
Request(op, pc) ==
  [op |-> op, pc |-> pc, job |-> None, proposal |-> None, other |-> None,
   to |-> "none", milestone |-> None, left |-> {}, user |-> None,
   dispute |-> None, current |-> TRUE]
Idle == Request("none", "idle")
Begin(w, r) == task' = [task EXCEPT ![w] = r]
Done(w) == Begin(w, Idle)
Continue(w, pc) == IF pc = "idle" THEN Done(w) ELSE Go(w, pc)

OnJob(op, pc, j) == [Request(op, pc) EXCEPT !.job = j]
OnProposal(op, pc, p) ==
  [Request(op, pc) EXCEPT !.proposal = p, !.job = JobOf[p]]

CreateJob(w, j) ==
  /\ May(w, "postJob")
  /\ job[j].status = "none"
  /\ \E status \in {"draft", "open"} :
       job' = [job EXCEPT ![j].status = status]
  /\ UNCHANGED <<proposal, task>>

(* getJobById counts a view through save(), and the pre-save hook closes a *)
(* job that has received maxProposals.                                     *)
ViewJob(w, j) ==
  /\ May(w, "viewJob")
  /\ Active(j)
  /\ job[j].status = "open" /\ job[j].proposals >= MaxProposals
  /\ Begin(w, [OnJob("viewJob", "sweep", j) EXCEPT !.to = "closed"])
  /\ UNCHANGED hiringVars

\* updateJob also accepts a status, whatever the transitions say.
UpdateJob(w, j) ==
  /\ May(w, "updateJob")
  /\ Active(j)
  /\ job[j].proposals <= 0
  /\ job[j].status \notin {"in-progress", "completed", "cancelled", "closed"}
  /\ \E to \in {"draft", "open", "in-progress", "completed", "cancelled", "closed"} :
       /\ to # job[j].status
       /\ Begin(w, [OnJob("updateJob", IF to = "closed" THEN "sweep" ELSE "saveJob", j)
                      EXCEPT !.to = to])
  /\ UNCHANGED hiringVars

UpdateJobStatus(w, j) ==
  /\ May(w, "updateJobStatus")
  /\ Active(j)
  /\ \E to \in JobStatuses :
       /\ canChangeStatus(job[j].status, to)
       /\ Begin(w, [OnJob("updateJobStatus",
                          IF to = "closed" THEN "sweep" ELSE "saveJob", j)
                      EXCEPT !.to = to])
  /\ UNCHANGED hiringVars

(* closeJob looks for the contracts that keep the job open.  Its own       *)
(* search for proposals filters on a field they do not have (job) and      *)
(* finds none; the pre-save hook rejects them.                             *)
CloseJob(w, j) ==
  /\ May(w, "closeJob")
  /\ Active(j)
  /\ canChangeStatus(job[j].status, "closed")
  /\ Begin(w, [OnJob("closeJob", "findContract", j) EXCEPT !.to = "closed"])
  /\ UNCHANGED hiringVars

FindContract(w) ==
  /\ At(w, "findContract")
  /\ IF \E p \in Proposals : JobOf[p] = Job(w) /\ contract[p].status = "active"
       THEN Done(w) ELSE Go(w, "sweep")
  /\ UNCHANGED hiringVars

(* The pre-save hook of a save that closes the job; it goes on when its    *)
(* update fails.                                                           *)
Sweep(w) ==
  /\ At(w, "sweep")
  /\ SetProposals(Pending(Job(w)), "rejected")
  /\ Go(w, "saveJob")
  /\ UNCHANGED job
SweepFails(w) ==
  /\ At(w, "sweep") /\ "sweepFails" \in Operations
  /\ Go(w, "saveJob")
  /\ UNCHANGED hiringVars

SaveJob(w) ==
  /\ At(w, "saveJob")
  /\ job' = IF JobExists(Job(w)) THEN [job EXCEPT ![Job(w)].status = task[w].to]
                                 ELSE job
  /\ Continue(w, AfterJob(task[w].op))
  /\ UNCHANGED proposal

\* markJobInProgress, markJobCompleted: their errors are caught.
MarkJob(w) ==
  /\ At(w, "markJob")
  /\ IF canChangeStatus(job[Job(w)].status, task[w].to)
       THEN Go(w, "saveJob") ELSE Continue(w, AfterJob(task[w].op))
  /\ UNCHANGED hiringVars

\* A draft is removed, another job without proposals only marked.
DeleteJob(w, j) ==
  /\ May(w, "deleteJob")
  /\ Active(j)
  /\ job[j].status = "draft" \/ job[j].proposals = 0
  /\ Begin(w, OnJob("deleteJob", IF job[j].status = "draft" THEN "removeJob"
                                 ELSE "saveDeleted", j))
  /\ UNCHANGED hiringVars
RemoveJob(w) ==
  /\ At(w, "removeJob")
  /\ job' = [job EXCEPT ![Job(w)].status = "DELETED"]
  /\ Done(w)
  /\ UNCHANGED proposal
SaveDeleted(w) ==
  /\ At(w, "saveDeleted")
  /\ job' = IF JobExists(Job(w)) THEN [job EXCEPT ![Job(w)].deleted = TRUE]
                                 ELSE job
  /\ Done(w)
  /\ UNCHANGED proposal
-----------------------------------------------------------------------------
\* createProposal reads the plan's count, the job and an earlier proposal.
CountProposals(w, p) ==
  /\ May(w, "apply")
  /\ proposal[p].status = "none"
  /\ Cardinality({q \in Proposals : FreelancerOf[q] = FreelancerOf[p] /\ Live(q)})
       < ProposalLimit
  /\ Begin(w, OnProposal("apply", "readJob", p))
  /\ UNCHANGED hiringVars
ReadJob(w) ==
  /\ At(w, "readJob")
  /\ IF Active(Job(w)) /\ job[Job(w)].status = "open"
       THEN Go(w, "findEarlier") ELSE Done(w)
  /\ UNCHANGED hiringVars
FindEarlier(w) ==
  /\ At(w, "findEarlier")
  /\ \/ SameApplicant(Proposal(w)) = {} /\ Go(w, "insert")
     \/ \E q \in SameApplicant(Proposal(w)) :
          IF proposal[q].status = "withdrawn"
          THEN task' = [task EXCEPT ![w].other = q, ![w].pc = "deleteEarlier"]
          ELSE Done(w)
  /\ UNCHANGED hiringVars
(* The bid is tested against the budget only after the withdrawn proposal  *)
(* has been removed: the request may end here.                             *)
DeleteEarlier(w) ==
  /\ At(w, "deleteEarlier")
  /\ proposal' = [proposal EXCEPT ![task[w].other].status =
                    IF ProposalExists(task[w].other) THEN "DELETED" ELSE @]
  /\ \/ Go(w, "insert")
     \/ Done(w)
  /\ UNCHANGED job
\* The unique index on freelancerId and jobId refuses a second document.
InsertProposal(w) ==
  /\ At(w, "insert")
  /\ IF SameApplicant(Proposal(w)) = {} /\ proposal[Proposal(w)].status = "none"
     THEN /\ proposal' = [proposal EXCEPT ![Proposal(w)].status = "pending"]
          /\ Go(w, "countUp")
     ELSE Done(w) /\ UNCHANGED proposal
  /\ UNCHANGED job
AddToCount(j, n) ==
  job' = IF JobExists(j) THEN [job EXCEPT ![j].proposals = @ + n] ELSE job
CountUp(w) ==
  /\ At(w, "countUp")
  /\ AddToCount(Job(w), 1)
  /\ Done(w)
  /\ UNCHANGED proposal

\* updateProposal (within the edit window) and getClientProposalById.
checkCanEditProposal(p) == proposal[p].status = "pending" /\ ~proposal[p].viewed
EditProposal(w, p) ==
  /\ May(w, "edit")
  /\ checkCanEditProposal(p)
  /\ Begin(w, OnProposal("edit", "saveEdited", p))
  /\ UNCHANGED hiringVars
SaveEdited(w) ==
  /\ At(w, "saveEdited")
  /\ proposal' = [proposal EXCEPT ![Proposal(w)].edited = ProposalExists(Proposal(w))]
  /\ Done(w)
  /\ UNCHANGED job
ViewProposal(w, p) ==
  /\ May(w, "viewProposal")
  /\ ProposalExists(p) /\ ~proposal[p].viewed
  /\ proposal' = [proposal EXCEPT ![p].viewed = TRUE]
  /\ UNCHANGED <<job, task>>

\* withdrawProposal, acceptProposal, rejectProposal read a pending document.
Decide(w, p) ==
  /\ proposal[p].status = "pending"
  /\ \E op \in {"withdraw", "acceptProposal", "rejectProposal"} :
       /\ May(w, op)
       /\ Begin(w, OnProposal(op, "saveDecision", p))
  /\ UNCHANGED hiringVars
Decision(op) == CASE op = "withdraw" -> "withdrawn"
                  [] op = "acceptProposal" -> "accepted"
                  [] OTHER -> "rejected"
AfterDecision(op) == CASE op = "withdraw" -> "countDown"
                       [] op = "acceptProposal" -> "rejectOthers"
                       [] OTHER -> "idle"
SaveDecision(w) ==
  /\ At(w, "saveDecision")
  /\ IF ProposalExists(Proposal(w))
     THEN /\ SetProposals({Proposal(w)}, Decision(task[w].op))
          /\ Continue(w, AfterDecision(task[w].op))
     ELSE Done(w) /\ UNCHANGED proposal
  /\ UNCHANGED job
CountDown(w) ==
  /\ At(w, "countDown")
  /\ AddToCount(Job(w), -1)
  /\ Done(w)
  /\ UNCHANGED proposal
RejectOthers(w) ==
  /\ At(w, "rejectOthers")
  /\ SetProposals(Pending(Job(w)) \ {Proposal(w)}, "rejected")
  /\ Done(w)
  /\ UNCHANGED job

\* markLinkedProposalCompleted, markLinkedProposalClosed: filtered updates.
MarkProposal(w) ==
  /\ At(w, "markProposal")
  /\ SetProposals({p \in {Proposal(w)} : proposal[p].status = "accepted"}, "completed")
  /\ Done(w)
  /\ UNCHANGED job
MarkProposalClosed(w) ==
  /\ At(w, "markProposalClosed")
  /\ SetProposals({p \in {Proposal(w)} : proposal[p].status \in {"accepted", "completed"}},
                  "closed")
  /\ Done(w)
  /\ UNCHANGED job

\* The requests of the client of j, and those about p, of either party.
JobRequest(w, j) ==
  \/ CreateJob(w, j) \/ ViewJob(w, j) \/ UpdateJob(w, j) \/ UpdateJobStatus(w, j)
  \/ CloseJob(w, j) \/ DeleteJob(w, j)
ProposalRequest(w, p) ==
  CountProposals(w, p) \/ EditProposal(w, p) \/ ViewProposal(w, p) \/ Decide(w, p)

JobCall(w) ==
  \/ FindContract(w) \/ Sweep(w) \/ SweepFails(w) \/ SaveJob(w) \/ MarkJob(w)
  \/ RemoveJob(w) \/ SaveDeleted(w)
ProposalCall(w) ==
  \/ ReadJob(w) \/ FindEarlier(w) \/ DeleteEarlier(w) \/ InsertProposal(w)
  \/ CountUp(w) \/ SaveEdited(w) \/ SaveDecision(w) \/ CountDown(w)
  \/ RejectOthers(w) \/ MarkProposal(w) \/ MarkProposalClosed(w)

JobStep(w) == (\E j \in Jobs : JobRequest(w, j)) \/ JobCall(w)
ProposalStep(w) == (\E p \in Proposals : ProposalRequest(w, p)) \/ ProposalCall(w)
=============================================================================
