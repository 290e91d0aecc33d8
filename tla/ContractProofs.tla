--------------------------- MODULE ContractProofs ---------------------------
(***************************************************************************)
(* Contracts, for any number of requests, proposals, milestones and        *)
(* disputes: whatever overlaps, a completed milestone has been paid, and a *)
(* contract never in dispute is paid for before work on it begins.         *)
(*                                                                         *)
(* Both properties are about what a request read many steps before it      *)
(* wrote.  The invariant therefore says of every request what it carries   *)
(* (RequestInv: which operation can be where, and what it is about to      *)
(* save) and why that is still justified by the documents (Justified), by  *)
(* facts that no step takes back: a funded contract, a paid escrow and the *)
(* contract of a dispute remain so.                                        *)
(*                                                                         *)
(* For requests in turn, none cut short: the proposal, the contract, its   *)
(* milestones and its disputes follow each other.  There TurnInv says what *)
(* of the documents each request still finds as it read it (Carries), and  *)
(* how the documents agree but for what it is about to write (EngagedInv). *)
(*                                                                         *)
(* For requests in turn about jobs and proposals, the admins' among them:  *)
(* no proposal is orphaned and proposalsCount counts, by ModerationInv.    *)
(***************************************************************************)
EXTENDS Contract, Moderation, FiniteSetTheorems, TLAPS

USE HiringAssumption, ContractAssumption

JobOps == {"none", "postJob", "viewJob", "updateJob", "updateJobStatus",
           "closeJob", "deleteJob"}
Funding == {"hire", "accept", "fund", "addMilestone"}
Approving == {"approve", "approveWork"}
OfMilestone == {"start", "submit", "approve", "revise"}
\* The requests that only begin on a contract that is funded or was disputed.
Committed == OfMilestone \cup {"accept", "startContract", "submitWork",
               "requestRevision", "complete", "close", "approveWork", "closeDispute"}

Funded(p) == contract[p].payment # "PENDING" \/ \E d \in Disputes : dispute[d].on = p

(* What a request carries, by its operation and by the point it has come to. *)
RequestInv(t) ==
  /\ t \in TaskRecord
  /\ t.pc # "idle" => t.job \in Jobs
  /\ t.op \in JobOps \/ t.proposal \in Proposals
  /\ t.op \in OfMilestone =>
       t.milestone \in Milestones /\ t.proposal = ProposalOf[t.milestone]
  /\ t.op \in Funding \cup {"start"} => t.left \subseteq Milestones
  /\ t.op \in Approving => t.to = "completed"
  /\ t.op = "start" => t.to \in {"none", "in_progress"}
  /\ t.op = "closeDispute" => t.dispute \in Disputes

PointInv(t) ==
  /\ t.pc \in {"sweep", "findContract"} => t.to = "closed"
  /\ t.pc = "saveJob" => t.to \in JobStatuses
  /\ t.pc = "saveAccepted" => t.op = "accept"
  /\ t.pc = "setPaid" => t.op = "confirm"
  /\ t.pc \in {"insertContract", "pushMilestone", "fundNext", "claim"} => t.op \in Funding
  /\ t.pc = "pushMilestone" => t.milestone \in Milestones
  /\ t.pc = "lock" => t.op \in Funding \cup {"start"}
  /\ t.pc = "readEscrow" => t.op \in Approving \cup {"start"}
  /\ t.pc \in {"release", "pay", "saveReleased"} => t.op \in Approving
  /\ t.pc = "saveMilestone" =>
       /\ t.op \in OfMilestone /\ t.to \in MilestoneStatuses \cup {"none"}
       /\ t.op # "approve" => t.to # "completed"
  /\ t.pc = "saveStatus" =>
       /\ t.proposal \in Proposals /\ t.to \in ContractStatuses
       /\ t.op \in Committed \/ t.to \in {"cancelled", "disputed"}
  /\ t.pc = "insertDispute" => t.dispute \in Disputes
  /\ t.pc \in {"insertDispute", "listEscrows", "freezeNext"} => t.op = "openDispute"
  /\ t.pc \in {"saveDispute", "countOpen", "readDisputed"} => t.op = "closeDispute"
  /\ t.pc = "saveDispute" => t.to \in DisputeStatuses

(* Why what the request is about to do is still right.                       *)
Justified(t) ==
  /\ t.op \in Committed => Funded(t.proposal)
  /\ t.op = "closeDispute" => dispute[t.dispute].on = t.proposal
  /\ t.pc = "setPaid" => Exists(t.proposal)
  /\ t.pc = "saveReleased" =>
       (IF t.op = "approve" THEN t.milestone ELSE t.proposal) \in paid
  /\ t.pc = "saveMilestone" /\ t.to = "completed" => t.milestone \in paid

DocumentsTyped ==
  /\ job \in [Jobs -> JobRecord]
  /\ proposal \in [Proposals -> ProposalRecord]
  /\ contract \in [Proposals -> ContractRecord]
  /\ milestone \in [Milestones -> MilestoneStatuses \cup {"none"}]
  /\ escrow \in [Keys -> EscrowStatuses]
  /\ paid \subseteq Keys
  /\ dispute \in [Disputes -> DisputeRecord]

RequestsInv ==
  /\ task \in [Workers -> TaskRecord]
  /\ \A w \in Workers : RequestInv(task[w]) /\ PointInv(task[w]) /\ Justified(task[w])

MoneyInv ==
  /\ \A k \in Keys : escrow[k] = "RELEASED" => k \in paid
  /\ \A m \in Milestones : milestone[m] = "completed" => m \in paid

WorkInv ==
  /\ \A p \in Proposals : ~Exists(p) => contract[p].payment = "PENDING"
  /\ \A p \in Proposals :
       contract[p].status \in {"active", "in_review", "completed", "closed"} => Funded(p)
  /\ \A m \in Milestones : milestone[m] \notin {"none", "pending"} => Funded(ProposalOf[m])
  /\ \A d \in Disputes : dispute[d].on \in Proposals <=> dispute[d].status # "none"

Inv == DocumentsTyped /\ RequestsInv /\ MoneyInv /\ WorkInv

-----------------------------------------------------------------------------
(* What a step makes of the requests: that of w becomes r, of the others at  *)
(* most the version they have read is outdated.                              *)
Same(t, u) ==
  /\ t.op = u.op /\ t.pc = u.pc /\ t.job = u.job /\ t.proposal = u.proposal
  /\ t.to = u.to /\ t.milestone = u.milestone /\ t.left = u.left
  /\ t.dispute = u.dispute

Becomes(w, r) ==
  /\ task' \in [Workers -> TaskRecord]
  /\ task'[w] = r
  /\ \A v \in Workers \ {w} : Same(task'[v], task[v])

\* What no step takes back.
Grows ==
  /\ paid \subseteq paid'
  /\ \A p \in Proposals : (Funded(p) => Funded(p)') /\ (Exists(p) => Exists(p)')
  /\ \A d \in Disputes : dispute[d].on \in Proposals => dispute'[d].on = dispute[d].on

LEMMA Begins ==
  ASSUME task \in [Workers -> TaskRecord], NEW w \in Workers, NEW r \in TaskRecord,
         Begin(w, r)
  PROVE  Becomes(w, r)
BY DEF Begin, Becomes, Same

LEMMA Outdates ==
  ASSUME task \in [Workers -> TaskRecord], NEW w \in Workers, NEW r \in TaskRecord,
         Outdate(w, r)
  PROVE  Becomes(w, r)
<1>1. \A v \in Workers :
        /\ [task[v] EXCEPT !.current = FALSE] \in TaskRecord
        /\ Same([task[v] EXCEPT !.current = FALSE], task[v])
  BY ZenonT(40) DEF TaskRecord, Same
<1> QED  BY <1>1, ZenonT(40) DEF Outdate, Becomes, Same

LEMMA RequestIs ==
  ASSUME NEW op \in Ops, NEW pc \in Points
  PROVE  /\ Request(op, pc) \in TaskRecord
         /\ Request(op, pc).op = op /\ Request(op, pc).pc = pc
         /\ Request(op, pc).to = "none" /\ Request(op, pc).left = {}
BY DEF Request, TaskRecord, Statuses

LEMMA IdleOK == RequestInv(Idle) /\ PointInv(Idle) /\ Justified(Idle)
<1>1. /\ Idle.op = "none" /\ Idle.pc = "idle" /\ Idle.to = "none" /\ Idle.left = {}
      /\ Idle \in TaskRecord
  <2>1. "none" \in Ops /\ "idle" \in Points  BY DEF Ops, Points
  <2> QED  BY <2>1, RequestIs DEF Idle
<1>2. RequestInv(Idle)
  BY <1>1 DEF RequestInv, JobOps, OfMilestone, Funding, Approving
<1>3. PointInv(Idle) /\ Justified(Idle)
  BY <1>1 DEF PointInv, Justified, OfMilestone, Committed
<1> QED  BY <1>2, <1>3

LEMMA Rests ==
  ASSUME task \in [Workers -> TaskRecord], NEW w \in Workers, Done(w)
  PROVE  Becomes(w, Idle)
BY IdleOK, Begins DEF Done, RequestInv

Moved(w, pc) == [task[w] EXCEPT !.pc = pc]

LEMMA MovedIs ==
  ASSUME task \in [Workers -> TaskRecord], NEW w \in Workers, NEW pc \in Points
  PROVE  /\ Moved(w, pc) \in TaskRecord
         /\ Moved(w, pc).pc = pc
         /\ Moved(w, pc).op = task[w].op /\ Moved(w, pc).job = task[w].job
         /\ Moved(w, pc).proposal = task[w].proposal /\ Moved(w, pc).to = task[w].to
         /\ Moved(w, pc).milestone = task[w].milestone
         /\ Moved(w, pc).left = task[w].left /\ Moved(w, pc).dispute = task[w].dispute
BY DEF Moved, TaskRecord

LEMMA Goes ==
  ASSUME task \in [Workers -> TaskRecord], NEW w \in Workers, NEW pc \in Points, Go(w, pc)
  PROVE  Becomes(w, Moved(w, pc))
<1>1. task' = [task EXCEPT ![w] = Moved(w, pc)]  BY DEF Go, Moved
<1> QED  BY <1>1, MovedIs, Begins DEF Begin

LEMMA MovedRequest ==
  ASSUME RequestsInv, NEW w \in Workers, ~At(w, "idle"), NEW pc \in Points
  PROVE  RequestInv(Moved(w, pc))
BY MovedIs DEF RequestsInv, RequestInv, At

LEMMA JustifiedKept ==
  ASSUME NEW t, RequestInv(t), PointInv(t), Justified(t), Grows
  PROVE  Justified(t)'
BY DEF Justified, Grows, RequestInv, PointInv, Committed, OfMilestone, JobOps

LEMMA Keeps ==
  ASSUME Inv, NEW w \in Workers, NEW r, Becomes(w, r),
         RequestInv(r), PointInv(r), Justified(r)', Grows,
         DocumentsTyped', MoneyInv', WorkInv'
  PROVE  Inv'
<1>1. ASSUME NEW v \in Workers \ {w}
      PROVE  RequestInv(task'[v]) /\ PointInv(task'[v])
  BY <1>1 DEF Inv, RequestsInv, Becomes, Same, RequestInv, PointInv
<1>2. ASSUME NEW v \in Workers \ {w}
      PROVE  Justified(task[v])'
  <2>1. /\ Justified(task[v]) /\ Same(task'[v], task[v])
        /\ RequestInv(task[v]) /\ PointInv(task[v])
    BY DEF Inv, RequestsInv, Becomes
  <2> QED
    BY <2>1 DEF Justified, Same, Grows, RequestInv, PointInv, Committed, OfMilestone, JobOps
<1> QED  BY <1>1, <1>2 DEF Inv, RequestsInv, Becomes

LEMMA QuietKeeps ==
  ASSUME Inv, NEW w \in Workers, NEW r, Becomes(w, r),
         RequestInv(r), PointInv(r), Justified(r), UNCHANGED contractVars,
         job' \in [Jobs -> JobRecord], proposal' \in [Proposals -> ProposalRecord]
  PROVE  Inv'
<1>1. Grows  BY DEF Grows, contractVars, Funded, Exists
<1>2. Justified(r)'  BY DEF Justified, contractVars, Funded, Exists
<1>3. DocumentsTyped' /\ MoneyInv' /\ WorkInv'
  BY DEF Inv, DocumentsTyped, MoneyInv, WorkInv, contractVars, Funded, Exists
<1> QED  BY <1>1, <1>2, <1>3, Keeps

-----------------------------------------------------------------------------
(* Hiring: it leaves the documents of contracts alone.                       *)
HiringTyped == /\ job' \in [Jobs -> JobRecord]
               /\ proposal' \in [Proposals -> ProposalRecord]

\* The points that nothing is known about, and nothing is asked of.
Plain == {"markJob", "removeJob", "saveDeleted", "readJob", "findEarlier",
          "deleteEarlier", "insert", "countUp", "saveEdited", "saveDecision",
          "countDown", "rejectOthers", "markProposal", "markProposalClosed"}

LEMMA PlainMoves ==
  ASSUME Inv, NEW w \in Workers, ~At(w, "idle"), NEW pc \in Plain
  PROVE  /\ RequestInv(Moved(w, pc)) /\ PointInv(Moved(w, pc))
         /\ Justified(Moved(w, pc)) /\ pc \in Points
<1>1. pc \in Points  BY DEF Plain, Points
<1>2. RequestInv(Moved(w, pc))  BY <1>1, MovedRequest DEF Inv
<1>3. PointInv(Moved(w, pc))
  BY <1>1, MovedIs DEF Inv, RequestsInv, PointInv, Plain
<1>4. Justified(Moved(w, pc))
  BY <1>1, MovedIs DEF Inv, RequestsInv, Justified, Plain
<1> QED  BY <1>1, <1>2, <1>3, <1>4

LEMMA PlainKeeps ==
  ASSUME Inv, NEW w \in Workers, ~At(w, "idle"), NEW pc \in Plain,
         Go(w, pc) \/ Done(w), HiringTyped, UNCHANGED contractVars
  PROVE  Inv'
<1> USE DEF HiringTyped
<1>1. CASE Go(w, pc)
  <2>1. Becomes(w, Moved(w, pc))  BY <1>1, PlainMoves, Goes DEF Inv, RequestsInv
  <2> QED  BY <2>1, PlainMoves, QuietKeeps
<1>2. CASE Done(w)
  BY <1>2, Rests, IdleOK, QuietKeeps DEF Inv, RequestsInv
<1> QED  BY <1>1, <1>2

OfJob(r, op, pc, j, to) ==
  r \in TaskRecord /\ r.op = op /\ r.pc = pc /\ r.job = j /\ r.to = to

LEMMA OnJobIsPlain ==
  ASSUME NEW op \in Ops, NEW pc \in Points, NEW j \in Jobs
  PROVE  OfJob(OnJob(op, pc, j), op, pc, j, "none")
BY RequestIs DEF OfJob, OnJob, TaskRecord

LEMMA OnJobIs ==
  ASSUME NEW op \in Ops, NEW pc \in Points, NEW j \in Jobs, NEW to \in Statuses
  PROVE  /\ OfJob(OnJob(op, pc, j), op, pc, j, "none")
         /\ OfJob([OnJob(op, pc, j) EXCEPT !.to = to], op, pc, j, to)
BY OnJobIsPlain DEF OfJob, TaskRecord

LEMMA JobBegins ==
  ASSUME Inv, NEW w \in Workers, NEW j \in Jobs, NEW op \in JobOps \ {"none"},
         NEW pc \in {"sweep", "findContract", "saveJob", "removeJob", "saveDeleted"},
         NEW to, NEW r, OfJob(r, op, pc, j, to),
         pc \in {"sweep", "findContract"} => to = "closed",
         pc = "saveJob" => to \in JobStatuses,
         Begin(w, r), UNCHANGED hiringVars, UNCHANGED contractVars
  PROVE  Inv'
<1>1. RequestInv(r)
  BY DEF OfJob, RequestInv, JobOps, OfMilestone, Funding, Approving
<1>2. PointInv(r) /\ Justified(r)
  BY DEF OfJob, PointInv, Justified, JobOps, Committed, OfMilestone
<1>3. Becomes(w, r)  BY Begins DEF OfJob, Inv, RequestsInv
<1> QED
  BY <1>1, <1>2, <1>3, QuietKeeps DEF Inv, DocumentsTyped, hiringVars

LEMMA JobRequestKeeps ==
  ASSUME Inv, NEW w \in Workers, NEW j \in Jobs, JobRequest(w, j), UNCHANGED contractVars
  PROVE  Inv'
<1>1. CASE CreateJob(w, j)
  <2>1. HiringTyped
    BY <1>1 DEF CreateJob, Inv, DocumentsTyped, HiringTyped, JobRecord, JobStatuses
  <2>2. task' = task  BY <1>1 DEF CreateJob
  <2> QED
    BY <2>1, <2>2 DEF Inv, HiringTyped, DocumentsTyped, RequestsInv, Justified, MoneyInv,
                      WorkInv, contractVars, Funded, Exists
<1>0. /\ {"viewJob", "updateJob", "updateJobStatus", "closeJob", "deleteJob"}
           \subseteq Ops \cap (JobOps \ {"none"})
      /\ {"sweep", "findContract", "saveJob", "removeJob", "saveDeleted"} \subseteq Points
      /\ JobStatuses \subseteq Statuses /\ {"none", "closed"} \subseteq Statuses
  BY DEF Points, Ops, JobOps, Statuses, JobStatuses
<1>2. CASE ViewJob(w, j)
  <2>1. OfJob([OnJob("viewJob", "sweep", j) EXCEPT !.to = "closed"],
              "viewJob", "sweep", j, "closed")
    BY <1>0, OnJobIs
  <2> QED  BY <1>0, <1>2, <2>1, JobBegins DEF ViewJob
<1>3. CASE UpdateJob(w, j) \/ UpdateJobStatus(w, j)
  <2>1. PICK op \in {"updateJob", "updateJobStatus"}, to \in JobStatuses :
          /\ Begin(w, [OnJob(op, IF to = "closed" THEN "sweep" ELSE "saveJob", j)
                         EXCEPT !.to = to])
          /\ UNCHANGED hiringVars
    BY <1>3 DEF UpdateJob, UpdateJobStatus, JobStatuses
  <2> DEFINE pc == IF to = "closed" THEN "sweep" ELSE "saveJob"
  <2>2. op \in Ops /\ pc \in Points /\ to \in Statuses  BY <1>0
  <2>3. OfJob([OnJob(op, pc, j) EXCEPT !.to = to], op, pc, j, to)  BY <2>2, OnJobIs
  <2> QED  BY <1>0, <2>1, <2>3, JobBegins
<1>4. CASE CloseJob(w, j)
  <2>1. OfJob([OnJob("closeJob", "findContract", j) EXCEPT !.to = "closed"],
              "closeJob", "findContract", j, "closed")
    BY <1>0, OnJobIs
  <2> QED  BY <1>0, <1>4, <2>1, JobBegins DEF CloseJob
<1>5. CASE DeleteJob(w, j)
  <2>1. PICK pc \in {"removeJob", "saveDeleted"} :
          Begin(w, OnJob("deleteJob", pc, j)) /\ UNCHANGED hiringVars
    BY <1>5 DEF DeleteJob
  <2>2. "deleteJob" \in Ops /\ pc \in Points  BY <1>0
  <2>3. OfJob(OnJob("deleteJob", pc, j), "deleteJob", pc, j, "none")
    BY <2>2, OnJobIsPlain
  <2> QED  BY <1>0, <2>1, <2>3, JobBegins
<1> QED  BY <1>1, <1>2, <1>3, <1>4, <1>5 DEF JobRequest

LEMMA MovesKeeps ==
  ASSUME Inv, NEW w \in Workers, ~At(w, "idle"), NEW pc \in Points, Go(w, pc),
         PointInv(Moved(w, pc)), Justified(Moved(w, pc)),
         HiringTyped, UNCHANGED contractVars
  PROVE  Inv'
<1>1. Becomes(w, Moved(w, pc)) /\ RequestInv(Moved(w, pc))
  BY Goes, MovedRequest DEF Inv, RequestsInv
<1> QED  BY <1>1, QuietKeeps DEF HiringTyped

LEMMA EndKeeps ==
  ASSUME Inv, NEW w \in Workers, Done(w), HiringTyped, UNCHANGED contractVars
  PROVE  Inv'
BY Rests, IdleOK, QuietKeeps DEF Inv, RequestsInv, HiringTyped

\* Once the job is marked, the request goes on where its operation says.
LEMMA AfterJobKeeps ==
  ASSUME Inv, NEW w \in Workers, ~At(w, "idle"),
         Continue(w, AfterJob(task[w].op)), HiringTyped, UNCHANGED contractVars
  PROVE  Inv'
<1>1. CASE task[w].op = "accept"
  <2>1. Go(w, "saveAccepted") /\ "saveAccepted" \in Points
    BY <1>1 DEF Continue, AfterJob, Points
  <2>2. PointInv(Moved(w, "saveAccepted")) /\ Justified(Moved(w, "saveAccepted"))
    BY <1>1, <2>1, MovedIs DEF Inv, RequestsInv, PointInv, Justified
  <2> QED  BY <2>1, <2>2, MovesKeeps
<1>2. CASE task[w].op \in {"approve", "approveWork", "complete"}
  <2>1. Go(w, "markProposal") /\ "markProposal" \in Plain
    BY <1>2 DEF Continue, AfterJob, Plain
  <2> QED  BY <2>1, PlainKeeps
<1>3. CASE task[w].op \notin {"accept", "approve", "approveWork", "complete"}
  <2>1. Done(w)  BY <1>3 DEF Continue, AfterJob
  <2> QED  BY <2>1, EndKeeps
<1> QED  BY <1>1, <1>2, <1>3

LEMMA ToSaveJob ==
  ASSUME Inv, NEW w \in Workers, ~At(w, "idle"), task[w].to \in JobStatuses,
         Go(w, "saveJob"), HiringTyped, UNCHANGED contractVars
  PROVE  Inv'
<1>1. "saveJob" \in Points  BY DEF Points
<1>2. PointInv(Moved(w, "saveJob")) /\ Justified(Moved(w, "saveJob"))
  BY <1>1, MovedIs DEF Inv, RequestsInv, PointInv, Justified
<1> QED  BY <1>1, <1>2, MovesKeeps

LEMMA JobCallKeeps ==
  ASSUME Inv, NEW w \in Workers, JobCall(w), UNCHANGED contractVars
  PROVE  Inv'
<1> USE DEF At
<1>1. DocumentsTyped /\ PointInv(task[w]) /\ RequestInv(task[w])  BY DEF Inv, RequestsInv
<1>2. CASE FindContract(w)
  <2>1. HiringTyped  BY <1>1, <1>2 DEF FindContract, hiringVars, DocumentsTyped, HiringTyped
  <2>2. CASE Done(w)  BY <2>1, <2>2, EndKeeps
  <2>3. CASE Go(w, "sweep")
    <3>1. "sweep" \in Points /\ task[w].to = "closed"
      BY <1>1, <1>2 DEF FindContract, PointInv, Points
    <3>2. PointInv(Moved(w, "sweep")) /\ Justified(Moved(w, "sweep"))
      BY <3>1, MovedIs DEF Inv, RequestsInv, PointInv, Justified
    <3> QED  BY <1>2, <2>1, <2>3, <3>1, <3>2, MovesKeeps DEF FindContract
  <2> QED  BY <1>2, <2>2, <2>3 DEF FindContract
<1>3. CASE Sweep(w) \/ SweepFails(w)
  <2>1. HiringTyped
    BY <1>1, <1>3 DEF Sweep, SweepFails, hiringVars, DocumentsTyped, HiringTyped, SetProposals,
                      ProposalRecord, ProposalStatuses
  <2>2. task[w].to \in JobStatuses /\ task[w].pc = "sweep" /\ Go(w, "saveJob")
    BY <1>1, <1>3 DEF Sweep, SweepFails, PointInv, JobStatuses
  <2> QED  BY <2>1, <2>2, ToSaveJob
<1>4. CASE SaveJob(w)
  <2>1. Job(w) \in Jobs /\ task[w].to \in JobStatuses
    BY <1>1, <1>4 DEF SaveJob, RequestInv, PointInv, Job
  <2>2. HiringTyped
    BY <1>1, <1>4, <2>1, SMTT(30) DEF SaveJob, DocumentsTyped, HiringTyped, JobRecord
  <2> QED  BY <1>4, <2>2, AfterJobKeeps DEF SaveJob
<1>5. CASE MarkJob(w)
  <2>1. HiringTyped  BY <1>1, <1>5 DEF MarkJob, hiringVars, DocumentsTyped, HiringTyped
  <2>2. CASE canChangeStatus(job[Job(w)].status, task[w].to) /\ Go(w, "saveJob")
    <3>1. task[w].to \in JobStatuses
      BY <2>2 DEF canChangeStatus, JobTransitions, JobStatuses
    <3> QED  BY <1>5, <2>1, <2>2, <3>1, ToSaveJob DEF MarkJob
  <2>3. CASE Continue(w, AfterJob(task[w].op))  BY <1>5, <2>1, <2>3, AfterJobKeeps DEF MarkJob
  <2> QED  BY <1>5, <2>2, <2>3 DEF MarkJob
<1>6. CASE RemoveJob(w) \/ SaveDeleted(w)
  <2>1. job[Job(w)] \in JobRecord
    <3>1. task[w].pc # "idle"  BY <1>6 DEF RemoveJob, SaveDeleted
    <3> QED  BY <1>1, <3>1 DEF RequestInv, Job, DocumentsTyped
  <2>2. /\ [job[Job(w)] EXCEPT !.status = "DELETED"] \in JobRecord
        /\ [job[Job(w)] EXCEPT !.deleted = TRUE] \in JobRecord
    BY <2>1 DEF JobRecord, Gone
  <2>3. CASE RemoveJob(w)
    BY <1>1, <2>2, <2>3, EndKeeps DEF RemoveJob, DocumentsTyped, HiringTyped
  <2>4. CASE SaveDeleted(w)
    <3>1. HiringTyped
      BY <1>1, <2>2, <2>4 DEF SaveDeleted, DocumentsTyped, HiringTyped
    <3> QED  BY <2>4, <3>1, EndKeeps DEF SaveDeleted
  <2> QED  BY <1>6, <2>3, <2>4
<1> QED  BY <1>2, <1>3, <1>4, <1>5, <1>6 DEF JobCall

-----------------------------------------------------------------------------
OfProposal(r, op, pc, p) ==
  /\ r \in TaskRecord /\ r.op = op /\ r.pc = pc
  /\ r.job = JobOf[p] /\ r.proposal = p /\ r.left = {} /\ r.to = "none"

LEMMA OnProposalIs ==
  ASSUME NEW op \in Ops, NEW pc \in Points, NEW p \in Proposals
  PROVE  OfProposal(OnProposal(op, pc, p), op, pc, p)
<1>1. JobOf[p] \in Jobs  OBVIOUS
<1>2. /\ Request(op, pc) \in TaskRecord
      /\ Request(op, pc).op = op /\ Request(op, pc).pc = pc
      /\ Request(op, pc).to = "none" /\ Request(op, pc).left = {}
  BY RequestIs
<1> QED  BY <1>1, <1>2 DEF OfProposal, OnProposal, TaskRecord

LEMMA ProposalBegins ==
  ASSUME Inv, NEW w \in Workers, NEW p \in Proposals,
         NEW op \in {"apply", "edit", "withdraw", "acceptProposal", "rejectProposal"},
         NEW pc \in {"readJob", "saveEdited", "saveDecision"},
         Begin(w, OnProposal(op, pc, p)), UNCHANGED hiringVars, UNCHANGED contractVars
  PROVE  Inv'
<1> DEFINE r == OnProposal(op, pc, p)
<1>1. op \in Ops /\ pc \in Points  BY DEF Ops, Points
<1>2. OfProposal(r, op, pc, p)  BY <1>1, OnProposalIs
<1> HIDE DEF r
<1>3. RequestInv(r)
  BY <1>2 DEF OfProposal, RequestInv, OfMilestone, Funding, Approving
<1>4. PointInv(r) /\ Justified(r)
  BY <1>2 DEF OfProposal, PointInv, Justified, Committed, OfMilestone
<1>5. Becomes(w, r)  BY <1>2, Begins DEF OfProposal, Inv, RequestsInv, r
<1> QED
  BY <1>3, <1>4, <1>5, QuietKeeps DEF Inv, DocumentsTyped, hiringVars

LEMMA SetProposalsTyped ==
  ASSUME DocumentsTyped, NEW ps, NEW status \in ProposalStatuses \cup Gone,
         SetProposals(ps, status)
  PROVE  proposal' \in [Proposals -> ProposalRecord]
<1>1. \A p \in Proposals : [proposal[p] EXCEPT !.status = status] \in ProposalRecord
  BY DEF DocumentsTyped, ProposalRecord
<1> QED  BY <1>1 DEF SetProposals, DocumentsTyped

LEMMA ProposalRequestKeeps ==
  ASSUME Inv, NEW w \in Workers, NEW p \in Proposals, ProposalRequest(w, p),
         UNCHANGED contractVars
  PROVE  Inv'
<1>1. CASE CountProposals(w, p)  BY <1>1, ProposalBegins DEF CountProposals
<1>2. CASE EditProposal(w, p)  BY <1>2, ProposalBegins DEF EditProposal
<1>3. CASE Decide(w, p)
  <2>1. PICK op \in {"withdraw", "acceptProposal", "rejectProposal"} :
          Begin(w, OnProposal(op, "saveDecision", p))
    BY <1>3 DEF Decide
  <2> QED  BY <1>3, <2>1, ProposalBegins DEF Decide
<1>4. CASE ViewProposal(w, p)
  <2>1. proposal[p] \in ProposalRecord  BY DEF Inv, DocumentsTyped
  <2>2. [proposal[p] EXCEPT !.viewed = TRUE] \in ProposalRecord  BY <2>1 DEF ProposalRecord
  <2>3. HiringTyped /\ task' = task
    BY <1>4, <2>2 DEF ViewProposal, Inv, DocumentsTyped, HiringTyped
  <2> QED
    BY <2>3 DEF Inv, HiringTyped, DocumentsTyped, RequestsInv, Justified, MoneyInv,
                WorkInv, contractVars, Funded, Exists
<1> QED  BY <1>1, <1>2, <1>3, <1>4 DEF ProposalRequest

LEMMA EditedTyped ==
  ASSUME NEW r \in ProposalRecord, NEW b \in BOOLEAN
  PROVE  [r EXCEPT !.edited = b] \in ProposalRecord
BY DEF ProposalRecord

LEMMA ProposalCallKeeps ==
  ASSUME Inv, NEW w \in Workers, ProposalCall(w), UNCHANGED contractVars
  PROVE  Inv'
<1> USE DEF At
<1>1. DocumentsTyped /\ RequestInv(task[w])  BY DEF Inv, RequestsInv
<1>2. task[w].pc # "idle"
  BY DEF ProposalCall, ReadJob, FindEarlier, DeleteEarlier, InsertProposal, CountUp,
         SaveEdited, SaveDecision, CountDown, RejectOthers, MarkProposal, MarkProposalClosed
<1>3. Job(w) \in Jobs  BY <1>1, <1>2 DEF RequestInv, Job
<1>4. CASE ReadJob(w)
  <2>1. HiringTyped  BY <1>1, <1>4 DEF ReadJob, hiringVars, DocumentsTyped, HiringTyped
  <2> QED  BY <1>2, <1>4, <2>1, PlainKeeps DEF ReadJob, Plain
<1>5. CASE FindEarlier(w)
  <2>1. HiringTyped  BY <1>1, <1>5 DEF FindEarlier, hiringVars, DocumentsTyped, HiringTyped
  <2>2. CASE Done(w) \/ Go(w, "insert")  BY <1>2, <2>1, <2>2, PlainKeeps DEF Plain
  <2>3. ASSUME NEW q \in Proposals,
               task' = [task EXCEPT ![w].other = q, ![w].pc = "deleteEarlier"]
        PROVE  Inv'
    <3> DEFINE r == [task[w] EXCEPT !.other = q, !.pc = "deleteEarlier"]
    <3>1. "deleteEarlier" \in Points /\ q \in Proposals \cup {None} /\ task[w] \in TaskRecord
      BY <1>1 DEF Points, RequestInv
    <3>2. /\ r \in TaskRecord
          /\ r.pc = "deleteEarlier" /\ r.op = task[w].op /\ r.job = task[w].job
          /\ r.proposal = task[w].proposal /\ r.to = task[w].to
          /\ r.milestone = task[w].milestone /\ r.left = task[w].left
          /\ r.dispute = task[w].dispute
      BY <3>1 DEF TaskRecord
    <3>3. task' = [task EXCEPT ![w] = r]  BY <2>3
    <3> HIDE DEF r
    <3>4. Becomes(w, r)  BY <3>2, <3>3, Begins DEF Begin, Inv, RequestsInv
    <3>5. RequestInv(r)  BY <1>1, <1>2, <3>2 DEF RequestInv
    <3>6. PointInv(r) /\ Justified(r)
      BY <3>2 DEF PointInv, Justified, Inv, RequestsInv
    <3> QED  BY <2>1, <3>4, <3>5, <3>6, QuietKeeps DEF HiringTyped
  <2> QED  BY <1>5, <2>2, <2>3 DEF FindEarlier, SameApplicant
<1>6. CASE DeleteEarlier(w)
  <2>1. \A p \in Proposals : /\ [proposal[p] EXCEPT !.status = "DELETED"] \in ProposalRecord
                              /\ [proposal[p] EXCEPT !.status = @] \in ProposalRecord
    BY <1>1 DEF DocumentsTyped, ProposalRecord, Gone
  <2>2. HiringTyped
    BY <1>1, <1>6, <2>1 DEF DeleteEarlier, DocumentsTyped, HiringTyped
  <2> QED  BY <1>2, <1>6, <2>2, PlainKeeps DEF DeleteEarlier, Plain
<1>7. CASE InsertProposal(w)
  <2>1. \A p \in Proposals : [proposal[p] EXCEPT !.status = "pending"] \in ProposalRecord
    BY <1>1 DEF DocumentsTyped, ProposalRecord, ProposalStatuses
  <2>2. HiringTyped
    BY <1>1, <1>7, <2>1 DEF InsertProposal, DocumentsTyped, HiringTyped
  <2> QED  BY <1>2, <1>7, <2>2, PlainKeeps DEF InsertProposal, Plain
<1>8. CASE CountUp(w) \/ CountDown(w)
  <2>1. job[Job(w)] \in JobRecord  BY <1>1, <1>3 DEF DocumentsTyped
  <2>2. \A n \in Int : [job[Job(w)] EXCEPT !.proposals = @ + n] \in JobRecord
    BY <2>1 DEF JobRecord
  <2>3. PICK n \in Int : AddToCount(Job(w), n)  BY <1>8 DEF CountUp, CountDown
  <2>4. job' \in [Jobs -> JobRecord]
    <3>1. CASE JobExists(Job(w))
      <4> DEFINE more == [job[Job(w)] EXCEPT !.proposals = @ + n]
      <4>1. job' = [job EXCEPT ![Job(w)] = more]  BY <2>3, <3>1 DEF AddToCount
      <4>2. more \in JobRecord  BY <2>2
      <4> HIDE DEF more
      <4> QED  BY <1>1, <4>1, <4>2 DEF DocumentsTyped
    <3>2. CASE ~JobExists(Job(w))  BY <1>1, <2>3, <3>2 DEF AddToCount, DocumentsTyped
    <3> QED  BY <3>1, <3>2
  <2>5. HiringTyped  BY <1>1, <1>8, <2>4 DEF CountUp, CountDown, DocumentsTyped, HiringTyped
  <2> QED  BY <1>8, <2>5, EndKeeps DEF CountUp, CountDown
<1>9. CASE SaveEdited(w)
  <2> DEFINE p == Proposal(w)
             b == ProposalExists(p)
             edited == [proposal[p] EXCEPT !.edited = b]
  <2>1. proposal' = [proposal EXCEPT ![p] = edited]  BY <1>9 DEF SaveEdited
  <2>2. b \in BOOLEAN  BY DEF ProposalExists
  <2>3. p \in Proposals => edited \in ProposalRecord
    <3>1. p \in Proposals => proposal[p] \in ProposalRecord  BY <1>1 DEF DocumentsTyped
    <3> QED  BY <2>2, <3>1, EditedTyped
  <2> HIDE DEF edited
  <2> HIDE DEF p
  <2>4. proposal' \in [Proposals -> ProposalRecord]
    BY <1>1, <2>1, <2>3 DEF DocumentsTyped
  <2>5. HiringTyped  BY <1>1, <1>9, <2>4 DEF SaveEdited, DocumentsTyped, HiringTyped
  <2> QED  BY <1>9, <2>5, EndKeeps DEF SaveEdited
<1>10. CASE SaveDecision(w)
  <2>1. Decision(task[w].op) \in ProposalStatuses  BY DEF Decision, ProposalStatuses
  <2>2. HiringTyped
    BY <1>1, <1>10, <2>1, SetProposalsTyped DEF SaveDecision, DocumentsTyped, HiringTyped
  <2>3. \/ Done(w) \/ Go(w, "countDown") \/ Go(w, "rejectOthers")
    BY <1>10 DEF SaveDecision, Continue, AfterDecision
  <2> QED  BY <1>2, <2>2, <2>3, PlainKeeps DEF Plain
<1>11. CASE RejectOthers(w) \/ MarkProposal(w) \/ MarkProposalClosed(w)
  <2>1. HiringTyped
    BY <1>1, <1>11, SetProposalsTyped
       DEF RejectOthers, MarkProposal, MarkProposalClosed, DocumentsTyped, HiringTyped,
           ProposalStatuses
  <2> QED  BY <1>11, <2>1, EndKeeps DEF RejectOthers, MarkProposal, MarkProposalClosed
<1> QED
  BY <1>4, <1>5, <1>6, <1>7, <1>8, <1>9, <1>10, <1>11 DEF ProposalCall

-----------------------------------------------------------------------------
(* Contracts.  A request may write one document; what it then carries is of *)
(* the shape the invariant says, and justified.                             *)
Carried(r) == RequestInv(r) /\ PointInv(r) /\ Justified(r)

LEMMA StillKeeps ==
  ASSUME Inv, task' = task, Grows, DocumentsTyped', MoneyInv', WorkInv'
  PROVE  Inv'
<1>1. \A v \in Workers : Justified(task[v])'
  BY JustifiedKept DEF Inv, RequestsInv
<1> QED  BY <1>1 DEF Inv, RequestsInv

LEMMA GrowingKeeps ==
  ASSUME Inv, NEW w \in Workers, NEW r, Becomes(w, r), Carried(r), Grows,
         DocumentsTyped', MoneyInv', WorkInv'
  PROVE  Inv'
<1>1. Justified(r)'  BY JustifiedKept DEF Carried
<1> QED  BY <1>1, Keeps DEF Carried

LEMMA EscrowWriteKeeps ==
  ASSUME Inv, NEW w \in Workers, NEW r, Becomes(w, r), Carried(r),
         escrow' \in [Keys -> EscrowStatuses],
         \A i \in Keys : escrow'[i] = "RELEASED" => i \in paid,
         UNCHANGED hiringVars, UNCHANGED <<contract, milestone, paid, dispute>>
  PROVE  Inv'
<1>1. Grows  BY DEF Grows, Funded, Exists
<1>2. Justified(r)'  BY <1>1, JustifiedKept DEF Carried
<1>3. DocumentsTyped'  BY DEF Inv, DocumentsTyped, hiringVars
<1>4. MoneyInv' /\ WorkInv'  BY DEF Inv, MoneyInv, WorkInv, Funded, Exists
<1> QED  BY <1>1, <1>2, <1>3, <1>4, Keeps DEF Carried

LEMMA EscrowKeeps ==
  ASSUME Inv, NEW w \in Workers, NEW r, Becomes(w, r), Carried(r), NEW k,
         NEW status \in EscrowStatuses, SetEscrow(k, status),
         status = "RELEASED" => k \in paid,
         UNCHANGED hiringVars, UNCHANGED <<contract, milestone, paid, dispute>>
  PROVE  Inv'
<1>1. escrow' \in [Keys -> EscrowStatuses]
  BY DEF SetEscrow, Inv, DocumentsTyped
<1>2. \A i \in Keys : escrow'[i] = "RELEASED" => i \in paid
  BY DEF SetEscrow, Inv, DocumentsTyped, MoneyInv
<1> QED  BY <1>1, <1>2, EscrowWriteKeeps

LEMMA MilestoneKeeps ==
  ASSUME Inv, NEW w \in Workers, NEW r, Becomes(w, r), Carried(r),
         NEW m \in Milestones, NEW status \in MilestoneStatuses, SetMilestone(m, status),
         status = "completed" => m \in paid,
         status # "pending" => Funded(ProposalOf[m]),
         UNCHANGED hiringVars, UNCHANGED <<contract, escrow, paid, dispute>>
  PROVE  Inv'
<1>1. /\ milestone' \in [Milestones -> MilestoneStatuses \cup {"none"}]
      /\ milestone'[m] = status
      /\ \A n \in Milestones \ {m} : milestone'[n] = milestone[n]
  BY DEF SetMilestone, Inv, DocumentsTyped
<1>2. Grows  BY DEF Grows, Funded, Exists
<1>3. Justified(r)'  BY DEF Carried, Justified, Funded, Exists
<1>4. DocumentsTyped'  BY <1>1 DEF Inv, DocumentsTyped, hiringVars
<1>5. MoneyInv'  BY <1>1 DEF Inv, MoneyInv
<1>6. WorkInv'  BY <1>1 DEF Inv, WorkInv, Funded, Exists
<1> QED  BY <1>2, <1>3, <1>4, <1>5, <1>6, Keeps DEF Carried

LEMMA StatusKeeps ==
  ASSUME Inv, NEW w \in Workers, NEW r, Becomes(w, r), Carried(r),
         NEW p \in Proposals, NEW status \in ContractStatuses, SetStatus(p, status),
         Funded(p) \/ status \in {"cancelled", "disputed"},
         UNCHANGED hiringVars, UNCHANGED <<milestone, escrow, paid, dispute>>
  PROVE  Inv'
<1>1. /\ contract' \in [Proposals -> ContractRecord]
      /\ contract'[p].status = status
      /\ \A q \in Proposals : contract'[q].payment = contract[q].payment
      /\ \A q \in Proposals \ {p} : contract'[q] = contract[q]
  BY DEF SetStatus, Inv, DocumentsTyped, ContractRecord
<1>2. \A q \in Proposals : Funded(q)' <=> Funded(q)  BY <1>1 DEF Funded
<1>3. status # "none"  BY DEF ContractStatuses
<1>4. \A q \in Proposals : Exists(q) => Exists(q)'  BY <1>1, <1>3 DEF Exists
<1>5. Grows  BY <1>2, <1>4 DEF Grows
<1>6. Justified(r)'  BY <1>5, JustifiedKept DEF Carried
<1>7. DocumentsTyped'  BY <1>1 DEF Inv, DocumentsTyped, hiringVars
<1>8. MoneyInv'  BY DEF Inv, MoneyInv
<1>9. WorkInv'
  <2>1. \A q \in Proposals : ~Exists(q)' => contract'[q].payment = "PENDING"
    BY <1>1, <1>4 DEF Inv, WorkInv
  <2>2. ASSUME NEW q \in Proposals,
               contract'[q].status \in {"active", "in_review", "completed", "closed"}
        PROVE  Funded(q)'
    BY <1>1, <1>2, <2>2 DEF Inv, WorkInv
  <2>3. \A m \in Milestones : milestone'[m] \notin {"none", "pending"}
          => Funded(ProposalOf[m])'
    BY <1>2 DEF Inv, WorkInv
  <2> QED  BY <2>1, <2>2, <2>3 DEF Inv, WorkInv
<1> QED  BY <1>5, <1>6, <1>7, <1>8, <1>9, Keeps DEF Carried

LEMMA CarriedIdle ==
  ASSUME Inv, NEW w \in Workers, Done(w)
  PROVE  Becomes(w, Idle) /\ Carried(Idle)
BY Rests, IdleOK DEF Inv, RequestsInv, Carried

LEMMA CarriedMoved ==
  ASSUME Inv, NEW w \in Workers, ~At(w, "idle"), NEW pc \in Points, Go(w, pc),
         PointInv(Moved(w, pc)), Justified(Moved(w, pc))
  PROVE  Becomes(w, Moved(w, pc)) /\ Carried(Moved(w, pc))
BY Goes, MovedRequest DEF Inv, RequestsInv, Carried

-----------------------------------------------------------------------------
(* The requests begin.                                                      *)
Bears(r, op, pc, p, to, left) ==
  /\ r \in TaskRecord /\ r.op = op /\ r.pc = pc /\ r.job = JobOf[p] /\ r.proposal = p
  /\ r.to = to /\ r.left = left

LEMMA ProposalBears ==
  ASSUME NEW op \in Ops, NEW pc \in Points, NEW p \in Proposals, NEW to \in Statuses,
         NEW left \in SUBSET Milestones
  PROVE  /\ Bears(OnProposal(op, pc, p), op, pc, p, "none", {})
         /\ Bears([OnProposal(op, pc, p) EXCEPT !.to = to], op, pc, p, to, {})
         /\ Bears([OnProposal(op, pc, p) EXCEPT !.to = to, !.left = left],
                  op, pc, p, to, left)
<1>1. OfProposal(OnProposal(op, pc, p), op, pc, p)  BY OnProposalIs
<1>2. left \in SUBSET Keys  BY DEF Keys
<1> QED  BY <1>1, <1>2 DEF Bears, OfProposal, TaskRecord

BearsDispute(r, op, pc, p, to, d) == Bears(r, op, pc, p, to, {}) /\ r.dispute = d
BearsMilestone(r, op, pc, m, to, left) ==
  Bears(r, op, pc, ProposalOf[m], to, left) /\ r.milestone = m

LEMMA DisputeBears ==
  ASSUME NEW op \in Ops, NEW pc \in Points, NEW p \in Proposals, NEW to \in Statuses,
         NEW d \in Disputes
  PROVE  BearsDispute([OnProposal(op, pc, p) EXCEPT !.dispute = d, !.to = to],
                      op, pc, p, to, d)
<1>1. OfProposal(OnProposal(op, pc, p), op, pc, p)  BY OnProposalIs
<1> QED  BY <1>1 DEF BearsDispute, Bears, OfProposal, TaskRecord

LEMMA MilestoneBears ==
  ASSUME NEW op \in Ops, NEW pc \in Points, NEW m \in Milestones, NEW to \in Statuses,
         NEW left \in SUBSET Milestones
  PROVE  /\ BearsMilestone([OnMilestone(op, pc, m) EXCEPT !.to = to],
                           op, pc, m, to, {})
         /\ BearsMilestone([OnMilestone(op, pc, m) EXCEPT !.left = left],
                           op, pc, m, "none", left)
         /\ BearsMilestone([OnMilestone(op, pc, m) EXCEPT !.to = to, !.left = left],
                           op, pc, m, to, left)
         /\ BearsMilestone([OnMilestone(op, pc, m) EXCEPT !.left = left, !.to = to],
                           op, pc, m, to, left)
<1> DEFINE r == OnMilestone(op, pc, m)
           p == ProposalOf[m]
<1>1. p \in Proposals  OBVIOUS
<1>2. left \in SUBSET Keys  BY DEF Keys
<1>3. OfProposal(OnProposal(op, pc, p), op, pc, p)  BY <1>1, OnProposalIs
<1>4. Bears(r, op, pc, p, "none", {}) /\ r.milestone = m
  BY <1>3 DEF Bears, OfProposal, OnMilestone, TaskRecord
<1> HIDE DEF r, p
<1>5. /\ Bears([r EXCEPT !.to = to], op, pc, p, to, {})
      /\ Bears([r EXCEPT !.left = left], op, pc, p, "none", left)
      /\ Bears([r EXCEPT !.to = to, !.left = left], op, pc, p, to, left)
      /\ Bears([r EXCEPT !.left = left, !.to = to], op, pc, p, to, left)
  BY <1>2, <1>4 DEF Bears, TaskRecord
<1>6. /\ [r EXCEPT !.to = to].milestone = m
      /\ [r EXCEPT !.left = left].milestone = m
      /\ [r EXCEPT !.to = to, !.left = left].milestone = m
      /\ [r EXCEPT !.left = left, !.to = to].milestone = m
  BY <1>4 DEF Bears, TaskRecord
<1> QED  BY <1>5, <1>6 DEF r, p, BearsMilestone

LEMMA ContractBegins ==
  ASSUME Inv, NEW w \in Workers, NEW p \in Proposals, NEW op \in Ops, NEW pc \in Points,
         NEW to, NEW left, NEW r, Bears(r, op, pc, p, to, left),
         op \in OfMilestone => r.milestone \in Milestones /\ p = ProposalOf[r.milestone],
         op \in Funding \cup {"start"} => left \subseteq Milestones,
         op \in Approving => to = "completed",
         op = "start" => to \in {"none", "in_progress"},
         op = "closeDispute" => r.dispute \in Disputes /\ dispute[r.dispute].on = p,
         op \in Committed => Funded(p),
         PointInv(r), pc \notin {"setPaid", "saveReleased"},
         pc = "saveMilestone" => to # "completed",
         Begin(w, r), UNCHANGED hiringVars, UNCHANGED contractVars
  PROVE  Inv'
<1>1. RequestInv(r)  BY DEF Bears, RequestInv
<1>2. Justified(r)  BY DEF Bears, Justified
<1>3. Becomes(w, r)  BY Begins DEF Bears, Inv, RequestsInv
<1> QED  BY <1>1, <1>2, <1>3, QuietKeeps DEF Inv, DocumentsTyped, hiringVars

LEMMA BeginKeeps ==
  ASSUME Inv, NEW w \in Workers, NEW p \in Proposals, UNCHANGED hiringVars,
         \/ Hire(w, p) \/ Accept(w, p) \/ RequestStatus(w, p) \/ StartContract(w, p)
         \/ ApproveWork(w, p) \/ \E d \in Disputes : OpenDispute(w, p, d)
  PROVE  Inv'
<1> USE DEF Funding, Approving, OfMilestone, Committed
<1>1. Funded(p) \/ contract[p].status \notin {"active", "in_review", "completed", "closed"}
  BY DEF Inv, WorkInv
<1>2. CASE Hire(w, p)
  <2> DEFINE r == OnProposal("hire", "insertContract", p)
  <2>1. "hire" \in Ops /\ "insertContract" \in Points /\ "none" \in Statuses
    BY DEF Ops, Points, Statuses
  <2>2. Bears(r, "hire", "insertContract", p, "none", {})  BY <2>1, ProposalBears
  <2>3. Begin(w, r) /\ UNCHANGED contractVars  BY <1>2 DEF Hire
  <2> HIDE DEF r
  <2>4. PointInv(r)  BY <2>2 DEF Bears, PointInv
  <2> QED  BY <2>1, <2>2, <2>3, <2>4, ContractBegins
<1>3. CASE Accept(w, p)
  <2> DEFINE left == MilestonesOf(p)
             r == [OnProposal("accept", "markJob", p) EXCEPT !.to = "in-progress", !.left = left]
  <2>1. /\ "accept" \in Ops /\ "markJob" \in Points /\ "in-progress" \in Statuses
        /\ left \in SUBSET Milestones
    BY DEF Ops, Points, Statuses, JobStatuses, MilestonesOf
  <2>2. Bears(r, "accept", "markJob", p, "in-progress", left)  BY <2>1, ProposalBears
  <2>3. Begin(w, r) /\ UNCHANGED contractVars /\ Funded(p)  BY <1>3 DEF Accept, Funded
  <2> HIDE DEF r, left
  <2>4. PointInv(r)  BY <2>2 DEF Bears, PointInv
  <2> QED  BY <2>1, <2>2, <2>3, <2>4, ContractBegins
<1>4. CASE RequestStatus(w, p)
  <2>1. PICK x \in StatusRequests :
          /\ contract[p].status = x[2]
          /\ Begin(w, [OnProposal(x[1], "saveStatus", p) EXCEPT !.to = x[3]])
    BY <1>4 DEF RequestStatus
  <2> DEFINE op == x[1]
             to == x[3]
             r == [OnProposal(op, "saveStatus", p) EXCEPT !.to = to]
  <2>2. /\ op \in {"decline", "cancel", "submitWork", "requestRevision", "complete", "close"}
        /\ to \in ContractStatuses
        /\ x[2] \in {"active", "in_review", "completed", "closed"} \/ to = "cancelled"
        /\ op \in {"submitWork", "requestRevision", "complete", "close"}
             \/ to = "cancelled"
        /\ op \in {"submitWork", "requestRevision", "complete", "close"} =>
             x[2] \in {"active", "in_review", "completed", "closed"}
    BY DEF StatusRequests, ContractStatuses
  <2>3. Begin(w, r)  BY <2>1
  <2>4. op \in Committed => Funded(p)  BY <1>1, <2>1, <2>2
  <2> HIDE DEF op, to
  <2>5. op \in Ops /\ "saveStatus" \in Points /\ to \in Statuses
    BY <2>2 DEF Ops, Points, Statuses
  <2>6. Bears(r, op, "saveStatus", p, to, {})  BY <2>5, ProposalBears
  <2> HIDE DEF r
  <2>7. PointInv(r)  BY <2>2, <2>6 DEF Bears, PointInv
  <2>8. UNCHANGED contractVars  BY <1>4 DEF RequestStatus
  <2> QED  BY <2>2, <2>3, <2>4, <2>5, <2>6, <2>7, <2>8, ContractBegins
<1>5. CASE StartContract(w, p)
  <2> DEFINE r == [OnProposal("startContract", "saveStatus", p) EXCEPT !.to = "active"]
  <2>1. /\ "startContract" \in Ops /\ "saveStatus" \in Points /\ "active" \in Statuses
        /\ "active" \in ContractStatuses
    BY DEF Ops, Points, Statuses, ContractStatuses
  <2>2. Bears(r, "startContract", "saveStatus", p, "active", {})  BY <2>1, ProposalBears
  <2>3. Begin(w, r) /\ UNCHANGED contractVars /\ Funded(p)
    BY <1>5 DEF StartContract, Funded
  <2> HIDE DEF r
  <2>4. PointInv(r)  BY <2>1, <2>2 DEF Bears, PointInv
  <2> QED  BY <2>1, <2>2, <2>3, <2>4, ContractBegins
<1>6. CASE ApproveWork(w, p)
  <2> DEFINE r == [OnProposal("approveWork", "readEscrow", p) EXCEPT !.to = "completed"]
  <2>1. "approveWork" \in Ops /\ "readEscrow" \in Points /\ "completed" \in Statuses
    BY DEF Ops, Points, Statuses, ContractStatuses
  <2>2. Bears(r, "approveWork", "readEscrow", p, "completed", {})  BY <2>1, ProposalBears
  <2>3. Begin(w, r) /\ UNCHANGED contractVars /\ Funded(p)
    BY <1>1, <1>6 DEF ApproveWork
  <2> HIDE DEF r
  <2>4. PointInv(r)  BY <2>2 DEF Bears, PointInv
  <2> QED  BY <2>1, <2>2, <2>3, <2>4, ContractBegins
<1>7. ASSUME NEW d \in Disputes, OpenDispute(w, p, d)  PROVE Inv'
  <2> DEFINE to == IF contract[p].status = "disputed" THEN "none" ELSE "disputed"
             r == [OnProposal("openDispute", "insertDispute", p) EXCEPT !.dispute = d, !.to = to]
  <2>1. /\ "openDispute" \in Ops /\ "insertDispute" \in Points /\ to \in Statuses
        /\ to \in {"none", "disputed"}
    BY DEF Ops, Points, Statuses, ContractStatuses
  <2>2. Begin(w, r) /\ UNCHANGED contractVars  BY <1>7 DEF OpenDispute
  <2> HIDE DEF to
  <2>3. BearsDispute(r, "openDispute", "insertDispute", p, to, d)
    BY <2>1, DisputeBears
  <2> HIDE DEF r
  <2>4. PointInv(r)  BY <2>1, <2>3 DEF BearsDispute, Bears, PointInv
  <2> QED  BY <2>1, <2>2, <2>3, <2>4, ContractBegins DEF BearsDispute
<1> QED  BY <1>2, <1>3, <1>4, <1>5, <1>6, <1>7

LEMMA BeginMilestoneKeeps ==
  ASSUME Inv, NEW w \in Workers, NEW m \in Milestones, UNCHANGED hiringVars,
         \/ AddMilestone(w, m) \/ FundMilestone(w, m) \/ Start(w, m) \/ Submit(w, m)
         \/ Approve(w, m) \/ RequestMilestoneRevision(w, m)
  PROVE  Inv'
<1> USE DEF Funding, Approving, OfMilestone, Committed
<1> DEFINE p == ProposalOf[m]
<1>1. /\ Funded(p) \/ contract[p].status # "active"
      /\ Funded(p) \/ milestone[m] \in {"none", "pending"}
  BY DEF Inv, WorkInv
<1>2. p \in Proposals  OBVIOUS
<1>3. CASE AddMilestone(w, m)
  <2> DEFINE to == IF contract[p].status = "active" THEN "LOCKED" ELSE "none"
             r == [OnMilestone("addMilestone", "pushMilestone", m) EXCEPT
                     !.left = {m}, !.to = to]
  <2>1. /\ "addMilestone" \in Ops /\ "pushMilestone" \in Points /\ to \in Statuses
        /\ {m} \in SUBSET Milestones
    BY DEF Ops, Points, Statuses
  <2>2. Begin(w, r) /\ UNCHANGED contractVars  BY <1>3 DEF AddMilestone
  <2> HIDE DEF to
  <2>3. BearsMilestone(r, "addMilestone", "pushMilestone", m, to, {m})  BY <2>1, MilestoneBears
  <2> HIDE DEF r, p
  <2>4. PointInv(r)  BY <2>3 DEF BearsMilestone, Bears, PointInv
  <2> QED  BY <1>2, <2>1, <2>2, <2>3, <2>4, ContractBegins DEF BearsMilestone
<1>4. CASE FundMilestone(w, m)
  <2> DEFINE r == [OnMilestone("fund", "fundNext", m) EXCEPT !.left = {m}]
  <2>1. /\ "fund" \in Ops /\ "fundNext" \in Points /\ "none" \in Statuses
        /\ {m} \in SUBSET Milestones
    BY DEF Ops, Points, Statuses
  <2>2. Begin(w, r) /\ UNCHANGED contractVars  BY <1>4 DEF FundMilestone
  <2>3. BearsMilestone(r, "fund", "fundNext", m, "none", {m})  BY <2>1, MilestoneBears
  <2> HIDE DEF r, p
  <2>4. PointInv(r)  BY <2>3 DEF BearsMilestone, Bears, PointInv
  <2> QED  BY <1>2, <2>1, <2>2, <2>3, <2>4, ContractBegins DEF BearsMilestone
<1>5. CASE Start(w, m)
  <2> DEFINE to == IF Busy(m) THEN "none" ELSE "in_progress"
             r == [OnMilestone("start", "readEscrow", m) EXCEPT !.to = to]
  <2>1. /\ "start" \in Ops /\ "readEscrow" \in Points /\ to \in Statuses
        /\ to \in {"none", "in_progress"}
    BY DEF Ops, Points, Statuses, MilestoneStatuses
  <2>2. Begin(w, r) /\ UNCHANGED contractVars /\ Funded(p)  BY <1>1, <1>5 DEF Start
  <2> HIDE DEF to
  <2>3. BearsMilestone(r, "start", "readEscrow", m, to, {})
    BY <2>1, MilestoneBears
  <2>4. PointInv(r)
    <3> HIDE DEF r, p
    <3> QED  BY <2>3 DEF BearsMilestone, Bears, PointInv
  <2> HIDE DEF r
  <2> QED  BY <1>2, <2>1, <2>2, <2>3, <2>4, ContractBegins DEF BearsMilestone
<1>6. CASE Submit(w, m) \/ RequestMilestoneRevision(w, m)
  <2>1. PICK op \in {"submit", "revise"}, to \in {"in_review", "revision_requested"} :
          /\ Begin(w, [OnMilestone(op, "saveMilestone", m) EXCEPT !.to = to])
          /\ UNCHANGED contractVars /\ Funded(p)
    BY <1>1, <1>6 DEF Submit, RequestMilestoneRevision
  <2> DEFINE r == [OnMilestone(op, "saveMilestone", m) EXCEPT !.to = to]
  <2>2. /\ op \in Ops /\ "saveMilestone" \in Points /\ to \in Statuses
        /\ to \in MilestoneStatuses
    BY DEF Ops, Points, Statuses, MilestoneStatuses
  <2>3. BearsMilestone(r, op, "saveMilestone", m, to, {})
    BY <2>2, MilestoneBears
  <2>4. PointInv(r)
    <3> HIDE DEF r, p
    <3> QED  BY <2>2, <2>3 DEF BearsMilestone, Bears, PointInv
  <2>5. Begin(w, r)  BY <2>1
  <2>6. to # "completed"  OBVIOUS
  <2> HIDE DEF r
  <2> QED
    BY <1>2, <2>1, <2>2, <2>3, <2>4, <2>5, <2>6, ContractBegins DEF BearsMilestone
<1>7. CASE Approve(w, m)
  <2> DEFINE left == Unfinished(p) \ {m}
             r == [OnMilestone("approve", "readEscrow", m) EXCEPT
                     !.to = "completed", !.left = left]
  <2>1. /\ "approve" \in Ops /\ "readEscrow" \in Points /\ "completed" \in Statuses
        /\ left \in SUBSET Milestones
    BY DEF Ops, Points, Statuses, ContractStatuses, Unfinished, MilestonesOf
  <2>2. Begin(w, r) /\ UNCHANGED contractVars /\ Funded(p)  BY <1>1, <1>7 DEF Approve
  <2> HIDE DEF left
  <2>3. BearsMilestone(r, "approve", "readEscrow", m, "completed", left)
    BY <2>1, MilestoneBears
  <2>4. PointInv(r)
    <3> HIDE DEF r, p
    <3> QED  BY <2>3 DEF BearsMilestone, Bears, PointInv
  <2> HIDE DEF r
  <2> QED  BY <1>2, <2>1, <2>2, <2>3, <2>4, ContractBegins DEF BearsMilestone
<1> QED  BY <1>3, <1>4, <1>5, <1>6, <1>7

LEMMA CloseDisputeKeeps ==
  ASSUME Inv, NEW w \in Workers, NEW d \in Disputes, CloseDispute(w, d),
         UNCHANGED hiringVars
  PROVE  Inv'
<1> DEFINE p == dispute[d].on
<1>1. p \in Proposals /\ Funded(p)
  BY DEF Inv, WorkInv, CloseDispute, Funded
<1>2. PICK to \in {"RESOLVED", "REJECTED"} :
        /\ Begin(w, [OnProposal("closeDispute", "saveDispute", p) EXCEPT
                       !.dispute = d, !.to = to])
        /\ UNCHANGED contractVars
  BY DEF CloseDispute
<1> DEFINE r == [OnProposal("closeDispute", "saveDispute", p) EXCEPT !.dispute = d, !.to = to]
<1>3. /\ "closeDispute" \in Ops /\ "saveDispute" \in Points /\ to \in Statuses
      /\ to \in DisputeStatuses
  BY DEF Ops, Points, Statuses, DisputeStatuses
<1>4. BearsDispute(r, "closeDispute", "saveDispute", p, to, d)
  BY <1>1, <1>3, DisputeBears
<1>5. Begin(w, r) /\ UNCHANGED contractVars  BY <1>2
<1>6. dispute[d].on = p  OBVIOUS
<1> HIDE DEF r, p
<1>7. PointInv(r)  BY <1>3, <1>4 DEF BearsDispute, Bears, PointInv
<1> QED
  BY <1>1, <1>3, <1>4, <1>5, <1>6, <1>7, ContractBegins
     DEF Funding, Approving, OfMilestone, BearsDispute

-----------------------------------------------------------------------------
(* The requests go on.                                                      *)
LEMMA AtWork ==
  ASSUME Inv, NEW w \in Workers
  PROVE  /\ task[w] \in TaskRecord /\ RequestInv(task[w]) /\ PointInv(task[w])
         /\ Justified(task[w])
         /\ task[w].op \in JobOps \/ Proposal(w) \in Proposals
BY DEF Inv, RequestsInv, RequestInv, Proposal

\* A request goes on to pc with something else in hand.
Takes(w, r, pc, to, m, left) ==
  /\ r \in TaskRecord /\ r.op = task[w].op /\ r.pc = pc /\ r.job = task[w].job
  /\ r.proposal = task[w].proposal /\ r.to = to /\ r.milestone = m /\ r.left = left
  /\ r.dispute = task[w].dispute

LEMMA InsertContractKeeps ==
  ASSUME Inv, NEW w \in Workers, InsertContract(w), UNCHANGED hiringVars
  PROVE  Inv'
<1> DEFINE p == Proposal(w)
<1>1. task[w].pc = "insertContract" /\ task[w].op \in Funding /\ p \in Proposals
  BY AtWork DEF InsertContract, At, PointInv, Funding, JobOps
<1>2. CASE Exists(p)
  BY <1>2, EndKeeps
     DEF InsertContract, contractVars, HiringTyped, hiringVars, Inv, DocumentsTyped
<1>3. CASE ~Exists(p)
  <2>1. PICK ms \in SUBSET {m \in Milestones : ProposalOf[m] = p},
             payment \in {"FUNDED", "PENDING"} :
          /\ contract' = [contract EXCEPT ![p] = [status |-> "pending", payment |-> payment]]
          /\ milestone' = [m \in Milestones |-> IF m \in ms THEN "pending" ELSE milestone[m]]
          /\ SetEscrow(p, IF payment = "FUNDED" THEN "LOCKED" ELSE "CREATED")
          /\ IF payment = "FUNDED"
             THEN task' = [task EXCEPT ![w].pc = "fundNext", ![w].left = ms]
             ELSE Done(w)
    BY <1>3 DEF InsertContract
  <2>2. UNCHANGED <<paid, dispute>>  BY DEF InsertContract
  <2>3. [status |-> "pending", payment |-> payment] \in ContractRecord
    BY DEF ContractRecord, ContractStatuses
  <2>4. /\ contract' \in [Proposals -> ContractRecord] /\ contract'[p].status = "pending"
        /\ \A q \in Proposals \ {p} : contract'[q] = contract[q]
    BY <1>1, <2>1, <2>3 DEF Inv, DocumentsTyped
  <2>5. /\ milestone' \in [Milestones -> MilestoneStatuses \cup {"none"}]
        /\ \A m \in Milestones : milestone'[m] \in {"pending", milestone[m]}
    BY <2>1 DEF Inv, DocumentsTyped, MilestoneStatuses
  <2>6. /\ escrow' \in [Keys -> EscrowStatuses]
        /\ \A k \in Keys : escrow'[k] = "RELEASED" => escrow[k] = "RELEASED"
    BY <2>1 DEF SetEscrow, Inv, DocumentsTyped, EscrowStatuses
  <2>7. \A q \in Proposals : Funded(q) => Funded(q)'
    BY <1>1, <1>3, <2>2, <2>4 DEF Funded, Inv, WorkInv
  <2>8. \A q \in Proposals : Exists(q) => Exists(q)'
    BY <1>1, <2>4 DEF Exists
  <2>9. Grows  BY <2>2, <2>7, <2>8 DEF Grows
  <2>10. DocumentsTyped'
    BY <2>2, <2>4, <2>5, <2>6 DEF Inv, DocumentsTyped, hiringVars
  <2>11. MoneyInv'  BY <2>2, <2>5, <2>6 DEF Inv, MoneyInv
  <2>12. WorkInv'
    <3>1. \A q \in Proposals : ~Exists(q)' => contract'[q].payment = "PENDING"
      BY <1>1, <2>4 DEF Inv, WorkInv, Exists
    <3>2. \A q \in Proposals :
            contract'[q].status \in {"active", "in_review", "completed", "closed"} => Funded(q)'
      BY <1>1, <2>4, <2>7 DEF Inv, WorkInv
    <3>3. \A m \in Milestones : milestone'[m] \notin {"none", "pending"}
            => Funded(ProposalOf[m])'
      BY <2>5, <2>7 DEF Inv, WorkInv
    <3>4. \A d \in Disputes : dispute'[d].on \in Proposals <=> dispute'[d].status # "none"
      BY <2>2 DEF Inv, WorkInv
    <3> QED  BY <3>1, <3>2, <3>3, <3>4 DEF WorkInv, Exists
  <2>13. CASE Done(w)
    <3>1. Becomes(w, Idle) /\ Carried(Idle)  BY <2>13, CarriedIdle
    <3> QED  BY <2>9, <2>10, <2>11, <2>12, <3>1, GrowingKeeps
  <2>14. CASE task' = [task EXCEPT ![w].pc = "fundNext", ![w].left = ms]
    <3> DEFINE r == [task[w] EXCEPT !.pc = "fundNext", !.left = ms]
    <3>1. /\ "fundNext" \in Points /\ ms \in SUBSET Keys /\ ms \subseteq Milestones
          /\ task[w] \in TaskRecord /\ task[w].job \in Jobs
      BY <1>1, AtWork DEF Points, Keys, RequestInv
    <3>2. Takes(w, r, "fundNext", task[w].to, task[w].milestone, ms)
      BY <3>1 DEF Takes, TaskRecord
    <3>3. Begin(w, r)  BY <2>14 DEF Begin
    <3> HIDE DEF r
    <3>4. RequestInv(r)  BY <1>1, <3>1, <3>2, AtWork DEF Takes, RequestInv
    <3>5. PointInv(r)  BY <1>1, <3>2 DEF Takes, PointInv
    <3>6. Justified(r)  BY <3>2, AtWork DEF Takes, Justified
    <3>7. Becomes(w, r)  BY <3>2, <3>3, Begins DEF Takes, Inv, RequestsInv
    <3> QED
      BY <2>9, <2>10, <2>11, <2>12, <3>4, <3>5, <3>6, <3>7, GrowingKeeps DEF Carried
  <2> QED  BY <2>1, <2>13, <2>14
<1> QED  BY <1>2, <1>3

LEMMA ConfirmPaymentKeeps ==
  ASSUME Inv, NEW w \in Workers, NEW p \in Proposals, ConfirmPayment(w, p),
         UNCHANGED hiringVars
  PROVE  Inv'
<1> DEFINE r == OnProposal("confirm", "setPaid", p)
<1>1. "confirm" \in Ops /\ "setPaid" \in Points /\ "none" \in Statuses
  BY DEF Ops, Points, Statuses
<1>2. Bears(r, "confirm", "setPaid", p, "none", {})  BY <1>1, ProposalBears
<1> DEFINE to == IF escrow[p] = "CREATED" THEN "LOCKED" ELSE escrow[p]
<1>3. /\ Begin(w, r) /\ SetEscrow(p, to) /\ Exists(p)
      /\ UNCHANGED <<contract, milestone, paid, dispute>>
  BY DEF ConfirmPayment
<1>7. to \in EscrowStatuses /\ (to = "RELEASED" => p \in paid)
  BY DEF EscrowStatuses, Inv, DocumentsTyped, MoneyInv, Keys
<1> HIDE DEF r, to
<1>4. RequestInv(r)
  BY <1>2 DEF Bears, RequestInv, OfMilestone, Funding, Approving
<1>5. PointInv(r) /\ Justified(r)
  BY <1>2, <1>3 DEF Bears, PointInv, Justified, Committed, OfMilestone
<1>6. Becomes(w, r)  BY <1>2, <1>3, Begins DEF Bears, Inv, RequestsInv
<1> QED  BY <1>3, <1>4, <1>5, <1>6, <1>7, EscrowKeeps DEF Carried

LEMMA SetPaidKeeps ==
  ASSUME Inv, NEW w \in Workers, SetPaid(w), UNCHANGED hiringVars
  PROVE  Inv'
<1> DEFINE p == Proposal(w)
<1>1. p \in Proposals /\ Exists(p)
  BY AtWork DEF SetPaid, At, PointInv, Justified, JobOps, Proposal
<1>2. /\ contract' = [contract EXCEPT ![p].payment = "COMPLETED"]
      /\ Done(w) /\ UNCHANGED <<milestone, escrow, paid, dispute>>
  BY DEF SetPaid
<1> HIDE DEF p
<1>3. /\ contract' \in [Proposals -> ContractRecord]
      /\ contract'[p].payment = "COMPLETED"
      /\ \A q \in Proposals : contract'[q].status = contract[q].status
      /\ \A q \in Proposals \ {p} : contract'[q] = contract[q]
  BY <1>1, <1>2 DEF Inv, DocumentsTyped, ContractRecord
<1>4. \A q \in Proposals : Funded(q) => Funded(q)'  BY <1>2, <1>3 DEF Funded
<1>5. \A q \in Proposals : Exists(q)' <=> Exists(q)  BY <1>3 DEF Exists
<1>6. Grows  BY <1>2, <1>4, <1>5 DEF Grows
<1>7. DocumentsTyped' /\ MoneyInv'
  BY <1>2, <1>3 DEF Inv, DocumentsTyped, MoneyInv, hiringVars
<1>8. WorkInv'
  <2>1. \A q \in Proposals : ~Exists(q)' => contract'[q].payment = "PENDING"
    BY <1>1, <1>3, <1>5 DEF Inv, WorkInv
  <2>2. \A q \in Proposals :
          contract'[q].status \in {"active", "in_review", "completed", "closed"} => Funded(q)'
    BY <1>3, <1>4 DEF Inv, WorkInv
  <2>3. \A m \in Milestones : milestone'[m] \notin {"none", "pending"}
          => Funded(ProposalOf[m])'
    BY <1>2, <1>4 DEF Inv, WorkInv
  <2>4. \A d \in Disputes : dispute'[d].on \in Proposals <=> dispute'[d].status # "none"
    BY <1>2 DEF Inv, WorkInv
  <2> QED  BY <2>1, <2>2, <2>3, <2>4 DEF WorkInv, Exists
<1>9. Becomes(w, Idle) /\ Carried(Idle)  BY <1>2, CarriedIdle
<1> QED  BY <1>6, <1>7, <1>8, <1>9, GrowingKeeps

LEMMA SaveAcceptedKeeps ==
  ASSUME Inv, NEW w \in Workers, SaveAccepted(w), UNCHANGED hiringVars
  PROVE  Inv'
<1>1. task[w].pc = "saveAccepted" /\ task[w].op = "accept"
  BY AtWork DEF SaveAccepted, At, PointInv
<1>2. Proposal(w) \in Proposals /\ Funded(Proposal(w))
  BY <1>1, AtWork DEF JobOps, Justified, Committed, Proposal
<1>3. "fundNext" \in Points /\ "active" \in ContractStatuses
  BY DEF Points, ContractStatuses
<1>4. PointInv(Moved(w, "fundNext")) /\ Justified(Moved(w, "fundNext"))
  BY <1>1, <1>3, MovedIs, AtWork DEF Inv, RequestsInv, PointInv, Justified, Funding
<1>5. /\ SetStatus(Proposal(w), "active") /\ Go(w, "fundNext") /\ ~At(w, "idle")
      /\ UNCHANGED <<milestone, escrow, paid, dispute>>
  BY DEF SaveAccepted, At
<1>6. Becomes(w, Moved(w, "fundNext")) /\ Carried(Moved(w, "fundNext"))
  BY <1>3, <1>4, <1>5, CarriedMoved
<1> QED  BY <1>2, <1>3, <1>5, <1>6, StatusKeeps

LEMMA FundNextKeeps ==
  ASSUME Inv, NEW w \in Workers, FundNext(w), UNCHANGED hiringVars
  PROVE  Inv'
<1>1. /\ task[w].pc = "fundNext" /\ task[w].op \in Funding
      /\ task[w].left \subseteq Milestones /\ task[w].job \in Jobs
      /\ UNCHANGED <<contract, milestone, paid, dispute>>
  BY AtWork DEF FundNext, At, PointInv, RequestInv
<1>2. CASE Done(w) /\ UNCHANGED escrow
  BY <1>1, <1>2, EndKeeps
     DEF contractVars, HiringTyped, hiringVars, Inv, DocumentsTyped
<1>3. ASSUME NEW m \in task[w].left, NEW pc \in {"claim", "fundNext", "lock"},
             Begin(w, [task[w] EXCEPT !.milestone = m, !.left = @ \ {m}, !.pc = pc]),
             SetEscrow(m, "CREATED") \/ UNCHANGED escrow
      PROVE  Inv'
  <2> DEFINE left == task[w].left \ {m}
             r == [task[w] EXCEPT !.milestone = m, !.left = left, !.pc = pc]
  <2>1. /\ pc \in Points /\ m \in Milestones \cup {None}
        /\ left \in SUBSET Keys /\ left \subseteq Milestones
    BY <1>1 DEF Points, Keys
  <2>2. Begin(w, r)  BY <1>3
  <2> HIDE DEF left
  <2>3. Takes(w, r, pc, task[w].to, m, left)
    BY <2>1, AtWork, ZenonT(40) DEF Takes, TaskRecord
  <2> HIDE DEF r
  <2>4. RequestInv(r)
    BY <1>1, <2>1, <2>3, AtWork DEF Takes, RequestInv, Funding, OfMilestone
  <2>5. PointInv(r)  BY <1>1, <2>3 DEF Takes, PointInv
  <2>6. Justified(r)  BY <2>3, AtWork DEF Takes, Justified
  <2>7. Becomes(w, r)  BY <2>2, <2>3, Begins DEF Takes, Inv, RequestsInv
  <2>8. CASE SetEscrow(m, "CREATED")
    <3>1. "CREATED" \in EscrowStatuses  BY DEF EscrowStatuses
    <3> QED  BY <1>1, <2>4, <2>5, <2>6, <2>7, <2>8, <3>1, EscrowKeeps DEF Carried
  <2>9. CASE UNCHANGED escrow
    BY <1>1, <2>4, <2>5, <2>6, <2>7, <2>9, QuietKeeps
       DEF contractVars, hiringVars, Inv, DocumentsTyped
  <2> QED  BY <1>3, <2>8, <2>9
<1>4. ASSUME NEW m \in task[w].left,
             Begin(w, [task[w] EXCEPT !.milestone = m, !.left = @ \ {m}]),
             UNCHANGED escrow
      PROVE  Inv'
  <2>1. [task[w] EXCEPT !.milestone = m, !.left = @ \ {m}]
          = [task[w] EXCEPT !.milestone = m, !.left = @ \ {m}, !.pc = "fundNext"]
    BY <1>1, AtWork DEF TaskRecord
  <2> QED  BY <1>3, <1>4, <2>1
<1> QED  BY <1>2, <1>3, <1>4 DEF FundNext

LEMMA LockKeeps ==
  ASSUME Inv, NEW w \in Workers, Lock(w), UNCHANGED hiringVars
  PROVE  Inv'
<1>1. /\ task[w].pc = "lock" /\ task[w].op \in Funding \cup {"start"} /\ ~At(w, "idle")
      /\ SetEscrow(Milestone(w), "LOCKED") /\ "LOCKED" \in EscrowStatuses
      /\ UNCHANGED <<contract, milestone, paid, dispute>>
  BY AtWork DEF Lock, At, PointInv, EscrowStatuses
<1>2. CASE task[w].op = "start"
  <2>1. Go(w, "saveMilestone") /\ "saveMilestone" \in Points
    BY <1>2 DEF Lock, Points
  <2>2. PointInv(Moved(w, "saveMilestone")) /\ Justified(Moved(w, "saveMilestone"))
    BY <1>2, <2>1, MovedIs, AtWork
       DEF Inv, RequestsInv, PointInv, Justified, RequestInv, OfMilestone, MilestoneStatuses
  <2>3. Becomes(w, Moved(w, "saveMilestone")) /\ Carried(Moved(w, "saveMilestone"))
    BY <1>1, <2>1, <2>2, CarriedMoved
  <2> QED  BY <1>1, <2>3, EscrowKeeps
<1>3. CASE task[w].op # "start"
  <2>1. Go(w, "fundNext") /\ "fundNext" \in Points  BY <1>3 DEF Lock, Points
  <2>2. PointInv(Moved(w, "fundNext")) /\ Justified(Moved(w, "fundNext"))
    BY <1>1, <1>3, <2>1, MovedIs, AtWork DEF Inv, RequestsInv, PointInv, Justified
  <2>3. Becomes(w, Moved(w, "fundNext")) /\ Carried(Moved(w, "fundNext"))
    BY <1>1, <2>1, <2>2, CarriedMoved
  <2> QED  BY <1>1, <2>3, EscrowKeeps
<1> QED  BY <1>2, <1>3

LEMMA ClaimKeeps ==
  ASSUME Inv, NEW w \in Workers, Claim(w), UNCHANGED hiringVars
  PROVE  Inv'
<1>1. escrow' = [escrow EXCEPT ![Milestone(w)] = IF @ = "CREATED" THEN "LOCKED" ELSE @]
  BY DEF Claim
<1>2. /\ escrow' \in [Keys -> EscrowStatuses]
      /\ \A k \in Keys : escrow'[k] = "RELEASED" => k \in paid
  BY <1>1 DEF Inv, DocumentsTyped, MoneyInv, EscrowStatuses
<1>3. Becomes(w, Idle) /\ Carried(Idle)  BY CarriedIdle DEF Claim
<1> QED  BY <1>2, <1>3, EscrowWriteKeeps DEF Claim

LEMMA PushMilestoneKeeps ==
  ASSUME Inv, NEW w \in Workers, PushMilestone(w), UNCHANGED hiringVars
  PROVE  Inv'
<1>1. /\ task[w].pc = "pushMilestone" /\ task[w].op \in Funding
      /\ Milestone(w) \in Milestones /\ task[w].job \in Jobs /\ ~At(w, "idle")
      /\ UNCHANGED <<contract, escrow, paid, dispute>>
  BY AtWork DEF PushMilestone, At, PointInv, RequestInv, Milestone
<1>2. CASE Done(w) /\ UNCHANGED milestone
  BY <1>1, <1>2, EndKeeps
     DEF contractVars, HiringTyped, hiringVars, Inv, DocumentsTyped
<1>3. CASE /\ SetMilestone(Milestone(w), "pending")
           /\ Outdate(w, [task[w] EXCEPT !.pc = "fundNext"])
  <2>1. "fundNext" \in Points /\ "pending" \in MilestoneStatuses
    BY DEF Points, MilestoneStatuses
  <2>2. Outdate(w, Moved(w, "fundNext"))  BY <1>3 DEF Moved
  <2>3. Becomes(w, Moved(w, "fundNext"))
    BY <2>1, <2>2, MovedIs, Outdates DEF Inv, RequestsInv
  <2>4. RequestInv(Moved(w, "fundNext"))  BY <1>1, <2>1, MovedRequest DEF Inv
  <2>5. PointInv(Moved(w, "fundNext")) /\ Justified(Moved(w, "fundNext"))
    BY <1>1, <2>1, MovedIs, AtWork DEF Inv, RequestsInv, PointInv, Justified
  <2> QED  BY <1>1, <1>3, <2>1, <2>3, <2>4, <2>5, MilestoneKeeps DEF Carried
<1> QED  BY <1>2, <1>3 DEF PushMilestone

LEMMA SaveStatusKeeps ==
  ASSUME Inv, NEW w \in Workers, SaveStatus(w), UNCHANGED hiringVars
  PROVE  Inv'
<1> DEFINE op == task[w].op
           p == Proposal(w)
           to == task[w].to
<1>1. /\ task[w].pc = "saveStatus" /\ task[w].job \in Jobs /\ ~At(w, "idle")
      /\ p \in Proposals /\ to \in ContractStatuses
      /\ op \in Committed \/ to \in {"cancelled", "disputed"}
      /\ SetStatus(p, to) /\ UNCHANGED <<milestone, escrow, paid, dispute>>
  BY AtWork DEF SaveStatus, At, PointInv, RequestInv, Proposal
<1>2. Funded(p) \/ to \in {"cancelled", "disputed"}
  BY <1>1, AtWork DEF Justified, Proposal
<1>3. ASSUME NEW r, Becomes(w, r), Carried(r)  PROVE Inv'
  BY <1>1, <1>2, <1>3, StatusKeeps
<1>4. ASSUME NEW mark \in {"completed", "in-progress"},
             op = "startContract" \/ op \in {"approve", "approveWork", "complete"},
             op \in {"approve", "approveWork", "complete"} => mark = "completed",
             Begin(w, [task[w] EXCEPT !.pc = "markJob", !.to = mark])
      PROVE  Inv'
  <2> DEFINE r == [task[w] EXCEPT !.pc = "markJob", !.to = mark]
  <2>1. /\ "markJob" \in Points /\ mark \in Statuses /\ task[w] \in TaskRecord
        /\ RequestInv(task[w]) /\ Justified(task[w])
    BY AtWork DEF Points, Statuses, JobStatuses
  <2>2. Takes(w, r, "markJob", mark, task[w].milestone, task[w].left)
    BY <2>1 DEF Takes, TaskRecord
  <2>3. Begin(w, r)  BY <1>4
  <2> HIDE DEF r
  <2>4. RequestInv(r)
    BY <1>1, <1>4, <2>1, <2>2 DEF Takes, RequestInv, Approving
  <2>5. PointInv(r) /\ Justified(r)  BY <2>1, <2>2 DEF Takes, PointInv, Justified
  <2>6. Becomes(w, r)  BY <2>2, <2>3, Begins DEF Takes, Inv, RequestsInv
  <2> QED  BY <1>1, <1>2, <2>4, <2>5, <2>6, StatusKeeps DEF Carried
<1>5. ASSUME Go(w, "markProposalClosed")  PROVE Inv'
  <2>1. "markProposalClosed" \in Plain  BY DEF Plain
  <2>2. Becomes(w, Moved(w, "markProposalClosed")) /\ Carried(Moved(w, "markProposalClosed"))
    BY <1>1, <1>5, <2>1, PlainMoves, Goes DEF Inv, RequestsInv, Carried
  <2> QED  BY <1>1, <1>2, <2>2, StatusKeeps
<1>6. ASSUME op = "openDispute", Go(w, "listEscrows")  PROVE Inv'
  <2>1. "listEscrows" \in Points  BY DEF Points
  <2>2. PointInv(Moved(w, "listEscrows")) /\ Justified(Moved(w, "listEscrows"))
    BY <1>6, <2>1, MovedIs, AtWork DEF Inv, RequestsInv, PointInv, Justified
  <2>3. Becomes(w, Moved(w, "listEscrows")) /\ Carried(Moved(w, "listEscrows"))
    BY <1>1, <1>6, <2>1, <2>2, CarriedMoved
  <2> QED  BY <1>1, <1>2, <2>3, StatusKeeps
<1>7. ASSUME Outdate(w, Idle)  PROVE Inv'
  <2>1. Becomes(w, Idle) /\ Carried(Idle)
    BY <1>7, IdleOK, Outdates DEF RequestInv, Carried, Inv, RequestsInv
  <2> QED  BY <1>3, <2>1
<1>8. ASSUME Done(w)  PROVE Inv'  BY <1>3, <1>8, CarriedIdle
<1>9. \/ /\ op \in {"approve", "approveWork", "complete"}
         /\ Begin(w, [task[w] EXCEPT !.pc = "markJob", !.to = "completed"])
      \/ /\ op = "startContract"
         /\ Begin(w, [task[w] EXCEPT !.pc = "markJob", !.to = "in-progress"])
      \/ Go(w, "markProposalClosed")
      \/ op = "openDispute" /\ Go(w, "listEscrows")
      \/ Outdate(w, Idle) \/ Done(w)
  BY DEF SaveStatus
<1> QED  BY <1>4, <1>5, <1>6, <1>7, <1>8, <1>9

(* The documents are as they were, and the request goes on to pc.           *)
LEMMA LooksKeeps ==
  ASSUME Inv, NEW w \in Workers, ~At(w, "idle"), NEW pc \in Points, Go(w, pc),
         PointInv(Moved(w, pc)), Justified(Moved(w, pc)),
         UNCHANGED hiringVars, UNCHANGED contractVars
  PROVE  Inv'
BY MovesKeeps DEF HiringTyped, hiringVars, Inv, DocumentsTyped

LEMMA StopsKeeps ==
  ASSUME Inv, NEW w \in Workers, Done(w), UNCHANGED hiringVars, UNCHANGED contractVars
  PROVE  Inv'
BY EndKeeps DEF HiringTyped, hiringVars, Inv, DocumentsTyped

(* What a request at the escrow of an approval is about.                    *)
LEMMA Approved ==
  ASSUME Inv, NEW w \in Workers, task[w].op \in Approving
  PROVE  /\ Escrow(w) \in Keys /\ task[w].to = "completed" /\ Proposal(w) \in Proposals
         /\ task[w].op \in Committed
         /\ Escrow(w) = IF task[w].op = "approve" THEN task[w].milestone
                        ELSE task[w].proposal
         /\ task[w].op = "approve" => Escrow(w) = task[w].milestone
<1>1. RequestInv(task[w]) /\ (task[w].op \in JobOps \/ Proposal(w) \in Proposals)  BY AtWork
<1>2. Proposal(w) \in Proposals /\ task[w].to = "completed" /\ task[w].op \in Committed
  BY <1>1 DEF RequestInv, JobOps, Approving, Committed, OfMilestone
<1>3. task[w].op = "approve" => task[w].milestone \in Milestones
  BY <1>1 DEF RequestInv, OfMilestone
<1> QED  BY <1>2, <1>3 DEF Escrow, Keys, Milestone, Proposal

\* The escrow of an approval has been paid: the approval may be saved.
LEMMA PaidMoves ==
  ASSUME Inv, NEW w \in Workers, task[w].op \in Approving,
         task[w].op = "approve" => Escrow(w) \in paid,
         NEW pc, pc = IF task[w].op = "approve" THEN "saveMilestone" ELSE "saveStatus"
  PROVE  pc \in Points /\ PointInv(Moved(w, pc)) /\ Justified(Moved(w, pc))
<1>1. pc \in Points  BY DEF Points
<1>2. /\ "completed" \in MilestoneStatuses /\ "completed" \in ContractStatuses
      /\ "approve" \in OfMilestone
  BY DEF MilestoneStatuses, ContractStatuses, OfMilestone
<1>3. PointInv(Moved(w, pc))
  BY <1>1, <1>2, MovedIs, Approved DEF Inv, RequestsInv, PointInv, Approving, Proposal
<1>4. Justified(Moved(w, pc))
  BY <1>1, MovedIs, Approved, AtWork DEF Inv, RequestsInv, Justified, Approving
<1> QED  BY <1>1, <1>3, <1>4

LEMMA ReadEscrowKeeps ==
  ASSUME Inv, NEW w \in Workers, ReadEscrow(w), UNCHANGED hiringVars
  PROVE  Inv'
<1>1. /\ task[w].pc = "readEscrow" /\ task[w].op \in Approving \cup {"start"}
      /\ ~At(w, "idle") /\ UNCHANGED <<contract, milestone, paid, dispute>>
  BY AtWork DEF ReadEscrow, At, PointInv
<1>2. ASSUME task[w].op = "start", Go(w, "lock"),
             SetEscrow(Milestone(w), "CREATED") \/ UNCHANGED escrow
      PROVE  Inv'
  <2>1. "lock" \in Points /\ "CREATED" \in EscrowStatuses  BY DEF Points, EscrowStatuses
  <2>2. PointInv(Moved(w, "lock")) /\ Justified(Moved(w, "lock"))
    BY <1>2, <2>1, MovedIs, AtWork DEF Inv, RequestsInv, PointInv, Justified
  <2>3. Becomes(w, Moved(w, "lock")) /\ Carried(Moved(w, "lock"))
    BY <1>1, <1>2, <2>1, <2>2, CarriedMoved
  <2>4. CASE SetEscrow(Milestone(w), "CREATED")  BY <1>1, <2>1, <2>3, <2>4, EscrowKeeps
  <2>5. CASE UNCHANGED escrow
    BY <1>1, <1>2, <2>1, <2>2, <2>5, LooksKeeps DEF contractVars
  <2> QED  BY <1>2, <2>4, <2>5
<1>3. ASSUME task[w].op \in Approving, Go(w, "release"), UNCHANGED escrow  PROVE Inv'
  <2>1. "release" \in Points  BY DEF Points
  <2>2. PointInv(Moved(w, "release")) /\ Justified(Moved(w, "release"))
    BY <1>3, <2>1, MovedIs, AtWork DEF Inv, RequestsInv, PointInv, Justified
  <2> QED  BY <1>1, <1>3, <2>1, <2>2, LooksKeeps DEF contractVars
<1>4. ASSUME Done(w), UNCHANGED escrow  PROVE Inv'
  BY <1>1, <1>4, StopsKeeps DEF contractVars
<1>5. ASSUME task[w].op = "start", Go(w, "saveMilestone"), UNCHANGED escrow  PROVE Inv'
  <2>1. "saveMilestone" \in Points  BY DEF Points
  <2>2. PointInv(Moved(w, "saveMilestone")) /\ Justified(Moved(w, "saveMilestone"))
    BY <1>5, <2>1, MovedIs, AtWork
       DEF Inv, RequestsInv, PointInv, Justified, RequestInv, OfMilestone, MilestoneStatuses
  <2> QED  BY <1>1, <1>5, <2>1, <2>2, LooksKeeps DEF contractVars
<1>6. ASSUME task[w].op \in Approving, UNCHANGED escrow,
             task[w].op = "approve" => escrow[Escrow(w)] = "RELEASED",
             Go(w, IF task[w].op = "approve" THEN "saveMilestone" ELSE "saveStatus")
      PROVE  Inv'
  <2>1. task[w].op = "approve" => Escrow(w) \in paid
    BY <1>6, Approved DEF Inv, MoneyInv
  <2> QED  BY <1>1, <1>6, <2>1, PaidMoves, LooksKeeps DEF contractVars
<1>7. CASE task[w].op = "start"
  BY <1>2, <1>4, <1>5, <1>7 DEF ReadEscrow, Escrow
<1>8. CASE task[w].op \in Approving
  <2>1. \/ Go(w, "release") /\ UNCHANGED escrow
        \/ Done(w) /\ UNCHANGED escrow
        \/ /\ task[w].op = "approve" => escrow[Escrow(w)] = "RELEASED"
           /\ Go(w, IF task[w].op = "approve" THEN "saveMilestone" ELSE "saveStatus")
           /\ UNCHANGED escrow
    BY <1>8 DEF ReadEscrow, Approving
  <2> QED  BY <1>3, <1>4, <1>6, <1>8, <2>1
<1> QED  BY <1>1, <1>7, <1>8

LEMMA ReleaseKeeps ==
  ASSUME Inv, NEW w \in Workers, Release(w), UNCHANGED hiringVars
  PROVE  Inv'
<1>1. task[w].op \in Approving /\ ~At(w, "idle") /\ UNCHANGED contractVars
  BY AtWork DEF Release, At, PointInv
<1>2. CASE Go(w, "pay")
  <2>1. "pay" \in Points  BY DEF Points
  <2>2. PointInv(Moved(w, "pay")) /\ Justified(Moved(w, "pay"))
    BY <1>1, <2>1, MovedIs, AtWork DEF Inv, RequestsInv, PointInv, Justified
  <2> QED  BY <1>1, <1>2, <2>1, <2>2, LooksKeeps
<1>3. CASE Done(w)  BY <1>1, <1>3, StopsKeeps
<1> QED  BY <1>2, <1>3 DEF Release

LEMMA PayKeeps ==
  ASSUME Inv, NEW w \in Workers, Pay(w), UNCHANGED hiringVars
  PROVE  Inv'
<1>1. /\ task[w].op \in Approving /\ ~At(w, "idle")
      /\ UNCHANGED <<contract, milestone, escrow, dispute>>
  BY AtWork DEF Pay, At, PointInv
<1>2. CASE paid' = paid /\ Done(w)  BY <1>1, <1>2, StopsKeeps DEF contractVars
<1>3. CASE paid' = paid \cup {Escrow(w)} /\ Go(w, "saveReleased")
  <2> DEFINE r == Moved(w, "saveReleased")
  <2>1. "saveReleased" \in Points /\ Escrow(w) \in Keys  BY <1>1, Approved DEF Points
  <2>2. RequestInv(r)  BY <1>1, <2>1, MovedRequest DEF Inv
  <2>3. PointInv(r)  BY <1>1, <2>1, MovedIs DEF Inv, RequestsInv, PointInv
  <2>4. Becomes(w, r)  BY <1>3, <2>1, Goes DEF Inv, RequestsInv
  <2>5. Grows  BY <1>1, <1>3 DEF Grows, Funded, Exists
  <2>6. DocumentsTyped' /\ MoneyInv' /\ WorkInv'
    BY <1>1, <1>3, <2>1
       DEF Inv, DocumentsTyped, MoneyInv, WorkInv, hiringVars, Funded, Exists
  <2>7. PICK x : x = r  OBVIOUS
  <2>8. Justified(x)'
    <3>1. /\ x.op = task[w].op /\ x.proposal = task[w].proposal
          /\ x.milestone = task[w].milestone /\ x.pc = "saveReleased"
      BY <2>1, <2>7, MovedIs DEF Inv, RequestsInv
    <3>2. (IF x.op = "approve" THEN x.milestone ELSE x.proposal) \in paid'
      BY <1>1, <1>3, <3>1, Approved
    <3>3. x.op \in Committed => Funded(x.proposal)'
      BY <1>1, <3>1, AtWork DEF Justified, Funded
    <3> QED  BY <1>1, <3>1, <3>2, <3>3 DEF Justified, Approving
  <2> HIDE DEF r
  <2> QED  BY <2>2, <2>3, <2>4, <2>5, <2>6, <2>7, <2>8, Keeps
<1> QED  BY <1>2, <1>3 DEF Pay

LEMMA SaveReleasedKeeps ==
  ASSUME Inv, NEW w \in Workers, SaveReleased(w), UNCHANGED hiringVars
  PROVE  Inv'
<1> DEFINE pc == IF task[w].op = "approve" THEN "saveMilestone" ELSE "saveStatus"
<1>1. /\ task[w].op \in Approving /\ ~At(w, "idle") /\ task[w].pc = "saveReleased"
      /\ SetEscrow(Escrow(w), "RELEASED") /\ "RELEASED" \in EscrowStatuses
      /\ Go(w, pc) /\ UNCHANGED <<contract, milestone, paid, dispute>>
  BY AtWork DEF SaveReleased, At, PointInv, EscrowStatuses
<1>2. Escrow(w) \in paid
  BY <1>1, Approved, AtWork DEF Justified
<1>3. pc \in Points /\ PointInv(Moved(w, pc)) /\ Justified(Moved(w, pc))
  BY <1>1, <1>2, PaidMoves
<1> HIDE DEF pc
<1>4. Becomes(w, Moved(w, pc)) /\ Carried(Moved(w, pc))  BY <1>1, <1>3, CarriedMoved
<1> QED  BY <1>1, <1>2, <1>4, EscrowKeeps

LEMMA SaveMilestoneKeeps ==
  ASSUME Inv, NEW w \in Workers, SaveMilestone(w), UNCHANGED hiringVars
  PROVE  Inv'
<1> DEFINE m == Milestone(w)
           to == task[w].to
<1>1. /\ task[w].pc = "saveMilestone" /\ ~At(w, "idle") /\ task[w].op \in OfMilestone
      /\ to \in MilestoneStatuses \cup {"none"}
      /\ m \in Milestones /\ Proposal(w) = ProposalOf[m]
      /\ UNCHANGED <<contract, escrow, paid, dispute>>
  BY AtWork DEF SaveMilestone, At, PointInv, RequestInv, Milestone, Proposal
<1>2. Funded(ProposalOf[m]) /\ (to = "completed" => m \in paid)
  BY <1>1, AtWork DEF Justified, Milestone, Proposal, Committed
<1>3. CASE Done(w) /\ UNCHANGED milestone
  BY <1>1, <1>3, StopsKeeps DEF contractVars
<1>4. CASE SetMilestone(m, to) /\ to # "none"
  <2>1. ASSUME NEW r, Becomes(w, r), Carried(r)  PROVE Inv'
    BY <1>1, <1>2, <1>4, <2>1, MilestoneKeeps
  <2>2. CASE Outdate(w, Idle)
    <3>1. Becomes(w, Idle) /\ Carried(Idle)
      BY <2>2, IdleOK, Outdates DEF RequestInv, Carried, Inv, RequestsInv
    <3> QED  BY <2>1, <3>1
  <2>3. CASE Done(w)  BY <2>1, <2>3, CarriedIdle
  <2>4. CASE task[w].op = "approve" /\ Go(w, "saveStatus")
    <3>1. "saveStatus" \in Points /\ "completed" \in ContractStatuses
      BY DEF Points, ContractStatuses
    <3>2. task[w].op \in Approving  BY <2>4 DEF Approving
    <3>3. PointInv(Moved(w, "saveStatus"))
      BY <3>1, <3>2, MovedIs, Approved DEF Inv, RequestsInv, PointInv, Proposal
    <3>4. Justified(Moved(w, "saveStatus"))
      BY <3>1, MovedIs, AtWork DEF Inv, RequestsInv, Justified
    <3>5. Becomes(w, Moved(w, "saveStatus")) /\ Carried(Moved(w, "saveStatus"))
      BY <1>1, <2>4, <3>1, <3>3, <3>4, CarriedMoved
    <3> QED  BY <1>1, <1>2, <1>4, <3>5, MilestoneKeeps
  <2> QED  BY <1>4, <2>2, <2>3, <2>4 DEF SaveMilestone, SetMilestone
<1> QED  BY <1>3, <1>4 DEF SaveMilestone

-----------------------------------------------------------------------------
(* Disputes.                                                                *)
LEMMA DisputeWriteKeeps ==
  ASSUME Inv, NEW w \in Workers, NEW r, Becomes(w, r), Carried(r),
         dispute' \in [Disputes -> DisputeRecord],
         \A d \in Disputes : dispute[d].on \in Proposals => dispute'[d].on = dispute[d].on,
         \A d \in Disputes : dispute'[d].on \in Proposals <=> dispute'[d].status # "none",
         UNCHANGED hiringVars, UNCHANGED <<contract, milestone, escrow, paid>>
  PROVE  Inv'
<1>1. \A d \in Disputes, p \in Proposals : dispute[d].on = p => dispute'[d].on = p
  OBVIOUS
<1>2. \A p \in Proposals : Funded(p) => Funded(p)'  BY <1>1 DEF Funded
<1>3. Grows  BY <1>2 DEF Grows, Exists
<1>4. DocumentsTyped' /\ MoneyInv'  BY DEF Inv, DocumentsTyped, MoneyInv, hiringVars
<1>5. WorkInv'  BY <1>2 DEF Inv, WorkInv, Exists
<1> QED  BY <1>3, <1>4, <1>5, GrowingKeeps

LEMMA InsertDisputeKeeps ==
  ASSUME Inv, NEW w \in Workers, InsertDispute(w), UNCHANGED hiringVars
  PROVE  Inv'
<1> DEFINE d == task[w].dispute
           p == Proposal(w)
           pc == IF task[w].to = "disputed" THEN "saveStatus" ELSE "listEscrows"
           new == [status |-> "OPEN", on |-> p]
<1>1. /\ task[w].op = "openDispute" /\ ~At(w, "idle") /\ d \in Disputes
      /\ UNCHANGED <<contract, milestone, escrow, paid>>
  BY AtWork DEF InsertDispute, At, PointInv
<1>2. p \in Proposals  BY <1>1, AtWork DEF JobOps
<1>3. CASE Done(w) /\ UNCHANGED dispute
  BY <1>1, <1>3, StopsKeeps DEF contractVars
<1>4. CASE /\ dispute[d].status = "none"
           /\ dispute' = [dispute EXCEPT ![d] = new]
           /\ Go(w, pc)
  <2>1. pc \in Points /\ "disputed" \in ContractStatuses  BY DEF Points, ContractStatuses
  <2>2. PointInv(Moved(w, pc))
    BY <1>1, <1>2, <2>1, MovedIs DEF Inv, RequestsInv, PointInv, Proposal
  <2>3. Justified(Moved(w, pc))
    BY <2>1, MovedIs, AtWork DEF Inv, RequestsInv, Justified
  <2>4. Becomes(w, Moved(w, pc)) /\ Carried(Moved(w, pc))
    BY <1>1, <1>4, <2>1, <2>2, <2>3, CarriedMoved
  <2>5. new \in DisputeRecord /\ new.on \in Proposals /\ new.status # "none"
    BY <1>2 DEF DisputeRecord, DisputeStatuses
  <2>6. /\ dispute' \in [Disputes -> DisputeRecord] /\ dispute'[d] = new
        /\ \A e \in Disputes \ {d} : dispute'[e] = dispute[e]
    <3> HIDE DEF new, d
    <3> QED  BY <1>1, <1>4, <2>5 DEF Inv, DocumentsTyped
  <2>7. dispute[d].on \notin Proposals  BY <1>1, <1>4 DEF Inv, WorkInv
  <2>8. \A e \in Disputes : dispute[e].on \in Proposals => dispute'[e].on = dispute[e].on
    BY <2>6, <2>7
  <2>9. \A e \in Disputes : dispute'[e].on \in Proposals <=> dispute'[e].status # "none"
    <3> HIDE DEF new
    <3> QED  BY <2>5, <2>6 DEF Inv, WorkInv
  <2> HIDE DEF pc
  <2> QED  BY <1>1, <2>4, <2>6, <2>8, <2>9, DisputeWriteKeeps
<1> QED  BY <1>3, <1>4 DEF InsertDispute

\* A status that is given to a stored dispute.
LEMMA DisputeStatus ==
  ASSUME Inv, NEW d \in Disputes, dispute[d].on \in Proposals,
         NEW to \in DisputeStatuses, dispute' = [dispute EXCEPT ![d].status = to]
  PROVE  /\ dispute' \in [Disputes -> DisputeRecord]
         /\ \A e \in Disputes : dispute'[e].on = dispute[e].on
         /\ \A e \in Disputes : dispute'[e].on \in Proposals <=> dispute'[e].status # "none"
<1>1. to # "none"  BY DEF DisputeStatuses
<1>2. /\ dispute' \in [Disputes -> DisputeRecord]
      /\ \A e \in Disputes : dispute'[e].on = dispute[e].on
      /\ dispute'[d].status = to
      /\ \A e \in Disputes \ {d} : dispute'[e] = dispute[e]
  BY DEF Inv, DocumentsTyped, DisputeRecord
<1> QED  BY <1>1, <1>2 DEF Inv, WorkInv

LEMMA SaveDisputeKeeps ==
  ASSUME Inv, NEW w \in Workers, SaveDispute(w), UNCHANGED hiringVars
  PROVE  Inv'
<1> DEFINE d == task[w].dispute
           to == task[w].to
<1>1. /\ task[w].op = "closeDispute" /\ ~At(w, "idle") /\ to \in DisputeStatuses
      /\ Go(w, "countOpen") /\ dispute' = [dispute EXCEPT ![d].status = to]
      /\ UNCHANGED <<contract, milestone, escrow, paid>>
  BY AtWork DEF SaveDispute, At, PointInv
<1>2. d \in Disputes /\ dispute[d].on \in Proposals
  BY <1>1, AtWork DEF RequestInv, Justified, JobOps, Proposal
<1>3. "countOpen" \in Points  BY DEF Points
<1>4. PointInv(Moved(w, "countOpen")) /\ Justified(Moved(w, "countOpen"))
  BY <1>1, <1>3, MovedIs, AtWork DEF Inv, RequestsInv, PointInv, Justified
<1>5. Becomes(w, Moved(w, "countOpen")) /\ Carried(Moved(w, "countOpen"))
  BY <1>1, <1>3, <1>4, CarriedMoved
<1> HIDE DEF d, to
<1> QED  BY <1>1, <1>2, <1>5, DisputeStatus, DisputeWriteKeeps

LEMMA UpdateDisputeStatusKeeps ==
  ASSUME Inv, NEW w \in Workers, NEW d \in Disputes, UpdateDisputeStatus(w, d),
         UNCHANGED hiringVars
  PROVE  Inv'
<1>1. /\ dispute[d].on \in Proposals
      /\ UNCHANGED <<contract, milestone, escrow, paid, task>>
  BY DEF UpdateDisputeStatus, Inv, WorkInv
<1>2. PICK to \in DisputeStatuses : dispute' = [dispute EXCEPT ![d].status = to]
  BY DEF UpdateDisputeStatus
<1>3. /\ dispute' \in [Disputes -> DisputeRecord]
      /\ \A e \in Disputes : dispute'[e].on = dispute[e].on
      /\ \A e \in Disputes : dispute'[e].on \in Proposals <=> dispute'[e].status # "none"
  BY <1>1, <1>2, DisputeStatus
<1>4. \A p \in Proposals : Funded(p)' <=> Funded(p)  BY <1>1, <1>3 DEF Funded
<1>5. Grows  BY <1>1, <1>3, <1>4 DEF Grows, Exists
<1>6. DocumentsTyped' /\ MoneyInv'
  BY <1>1, <1>3 DEF Inv, DocumentsTyped, MoneyInv, hiringVars
<1>7. WorkInv'  BY <1>1, <1>3, <1>4 DEF Inv, WorkInv, Exists
<1> QED  BY <1>1, <1>5, <1>6, <1>7, StillKeeps

LEMMA ListEscrowsKeeps ==
  ASSUME Inv, NEW w \in Workers, ListEscrows(w), UNCHANGED hiringVars
  PROVE  Inv'
<1> DEFINE left == {k \in EscrowsOf(Proposal(w)) : escrow[k] = "LOCKED"}
           r == [task[w] EXCEPT !.pc = "freezeNext", !.left = left]
<1>1. /\ task[w].op = "openDispute" /\ task[w].job \in Jobs
      /\ task' = [task EXCEPT ![w].pc = "freezeNext", ![w].left = left]
      /\ UNCHANGED contractVars
  BY AtWork DEF ListEscrows, At, PointInv, RequestInv
<1>2. Proposal(w) \in Proposals  BY <1>1, AtWork DEF JobOps
<1>3. "freezeNext" \in Points /\ left \in SUBSET Keys /\ task[w] \in TaskRecord
  BY <1>2, AtWork DEF Points, EscrowsOf, MilestonesOf, Keys
<1>4. Begin(w, r)  BY <1>1 DEF Begin
<1> HIDE DEF left
<1>5. Takes(w, r, "freezeNext", task[w].to, task[w].milestone, left)
  BY <1>3 DEF Takes, TaskRecord
<1> HIDE DEF r
<1>6. RequestInv(r)
  BY <1>1, <1>5, AtWork DEF Takes, RequestInv, Funding
<1>7. PointInv(r) /\ Justified(r)
  BY <1>1, <1>5, AtWork DEF Takes, PointInv, Justified
<1>8. Becomes(w, r)  BY <1>4, <1>5, Begins DEF Takes, Inv, RequestsInv
<1> QED
  BY <1>1, <1>6, <1>7, <1>8, QuietKeeps DEF hiringVars, Inv, DocumentsTyped

LEMMA FreezeNextKeeps ==
  ASSUME Inv, NEW w \in Workers, FreezeNext(w), UNCHANGED hiringVars
  PROVE  Inv'
<1>1. /\ task[w].pc = "freezeNext" /\ task[w].op = "openDispute" /\ task[w].job \in Jobs
      /\ UNCHANGED <<contract, milestone, paid, dispute>>
  BY AtWork DEF FreezeNext, At, PointInv, RequestInv
<1>2. CASE Done(w) /\ UNCHANGED escrow
  BY <1>1, <1>2, StopsKeeps DEF contractVars
<1>3. ASSUME NEW k \in task[w].left, SetEscrow(k, "DISPUTED"),
             task' = [task EXCEPT ![w].left = @ \ {k}]
      PROVE  Inv'
  <2> DEFINE left == task[w].left \ {k}
             r == [task[w] EXCEPT !.left = left]
  <2>1. /\ task[w] \in TaskRecord /\ "DISPUTED" \in EscrowStatuses
        /\ left \in SUBSET Keys
    BY AtWork DEF TaskRecord, EscrowStatuses
  <2>2. Begin(w, r)  BY <1>3 DEF Begin
  <2> HIDE DEF left
  <2>3. Takes(w, r, "freezeNext", task[w].to, task[w].milestone, left)
    BY <1>1, <2>1 DEF Takes, TaskRecord
  <2> HIDE DEF r
  <2>4. RequestInv(r)  BY <1>1, <2>3, AtWork DEF Takes, RequestInv, Funding
  <2>5. PointInv(r) /\ Justified(r)
    BY <1>1, <2>3, AtWork DEF Takes, PointInv, Justified
  <2>6. Becomes(w, r)  BY <2>2, <2>3, Begins DEF Takes, Inv, RequestsInv
  <2> QED  BY <1>1, <1>3, <2>1, <2>4, <2>5, <2>6, EscrowKeeps DEF Carried
<1> QED  BY <1>2, <1>3 DEF FreezeNext

LEMMA CountOpenKeeps ==
  ASSUME Inv, NEW w \in Workers, CountOpen(w), UNCHANGED hiringVars
  PROVE  Inv'
<1>1. task[w].op = "closeDispute" /\ ~At(w, "idle") /\ UNCHANGED contractVars
  BY AtWork DEF CountOpen, At, PointInv
<1>2. CASE Go(w, "readDisputed")
  <2>1. "readDisputed" \in Points  BY DEF Points
  <2>2. PointInv(Moved(w, "readDisputed")) /\ Justified(Moved(w, "readDisputed"))
    BY <1>1, <2>1, MovedIs, AtWork DEF Inv, RequestsInv, PointInv, Justified
  <2> QED  BY <1>1, <1>2, <2>1, <2>2, LooksKeeps
<1>3. CASE Done(w)  BY <1>1, <1>3, StopsKeeps
<1> QED  BY <1>2, <1>3 DEF CountOpen

LEMMA ReadDisputedKeeps ==
  ASSUME Inv, NEW w \in Workers, ReadDisputed(w), UNCHANGED hiringVars
  PROVE  Inv'
<1>1. /\ task[w].op = "closeDispute" /\ task[w].job \in Jobs /\ UNCHANGED contractVars
  BY AtWork DEF ReadDisputed, At, PointInv, RequestInv
<1>2. CASE Done(w)  BY <1>1, <1>2, StopsKeeps
<1>3. CASE Begin(w, [task[w] EXCEPT !.pc = "saveStatus", !.to = "active", !.current = TRUE])
  <2> DEFINE r == [task[w] EXCEPT !.pc = "saveStatus", !.to = "active", !.current = TRUE]
  <2>1. /\ "saveStatus" \in Points /\ "active" \in Statuses /\ task[w] \in TaskRecord
        /\ "active" \in ContractStatuses /\ task[w].proposal \in Proposals
    BY <1>1, AtWork DEF Points, Statuses, ContractStatuses, JobOps, Proposal
  <2>2. Takes(w, r, "saveStatus", "active", task[w].milestone, task[w].left)
    BY <2>1 DEF Takes, TaskRecord
  <2>3. Begin(w, r)  BY <1>3
  <2> HIDE DEF r
  <2>4. RequestInv(r)  BY <1>1, <2>2, AtWork DEF Takes, RequestInv, Approving
  <2>5. PointInv(r)  BY <1>1, <2>1, <2>2 DEF Takes, PointInv, Committed
  <2>6. Justified(r)  BY <2>2, AtWork DEF Takes, Justified
  <2>7. Becomes(w, r)  BY <2>2, <2>3, Begins DEF Takes, Inv, RequestsInv
  <2> QED
    BY <1>1, <2>4, <2>5, <2>6, <2>7, QuietKeeps DEF hiringVars, Inv, DocumentsTyped
<1> QED  BY <1>2, <1>3 DEF ReadDisputed

LEMMA SettleEscrowKeeps ==
  ASSUME Inv, NEW k \in Keys, SettleEscrow(k), UNCHANGED hiringVars
  PROVE  Inv'
<1>1. UNCHANGED <<contract, milestone, dispute, task>> /\ paid \subseteq paid'
  BY DEF SettleEscrow
<1>2. /\ escrow' \in [Keys -> EscrowStatuses] /\ paid' \subseteq Keys
      /\ \A i \in Keys : escrow'[i] = "RELEASED" => i \in paid'
  BY DEF SettleEscrow, SetEscrow, Inv, DocumentsTyped, MoneyInv, EscrowStatuses
<1>3. Grows  BY <1>1 DEF Grows, Funded, Exists
<1>4. DocumentsTyped' /\ MoneyInv'
  BY <1>1, <1>2 DEF Inv, DocumentsTyped, MoneyInv, hiringVars
<1>5. WorkInv'  BY <1>1 DEF Inv, WorkInv, Funded, Exists
<1> QED  BY <1>1, <1>3, <1>4, <1>5, StillKeeps

-----------------------------------------------------------------------------
LEMMA InitInv == Init => Inv
<1> SUFFICES ASSUME Init PROVE Inv
  OBVIOUS
<1>1. Idle \in TaskRecord /\ RequestInv(Idle) /\ PointInv(Idle) /\ Justified(Idle)
  BY IdleOK DEF RequestInv
<1>2. RequestsInv  BY <1>1 DEF Init, RequestsInv
<1>3. DocumentsTyped
  <2>1. NoJob \in JobRecord /\ NoProposal \in ProposalRecord
    BY DEF NoJob, JobRecord, Gone, NoProposal, ProposalRecord
  <2>2. /\ [status |-> "none", payment |-> "PENDING"] \in ContractRecord
        /\ [status |-> "none", on |-> None] \in DisputeRecord /\ "none" \in EscrowStatuses
    BY DEF ContractRecord, DisputeRecord, EscrowStatuses
  <2> QED  BY <2>1, <2>2 DEF Init, HiringInit, DocumentsTyped
<1>4. MoneyInv /\ WorkInv
  BY DEF Init, MoneyInv, WorkInv, Exists
<1> QED  BY <1>2, <1>3, <1>4 DEF Inv

LEMMA NextInv == Inv /\ [Next]_vars => Inv'
<1> SUFFICES ASSUME Inv, [Next]_vars PROVE Inv'
  OBVIOUS
<1>1. CASE UNCHANGED vars
  <2>1. Grows /\ task' = task  BY <1>1 DEF vars, Grows, Funded, Exists
  <2>2. DocumentsTyped' /\ MoneyInv' /\ WorkInv'
    BY <1>1 DEF vars, Inv, DocumentsTyped, MoneyInv, WorkInv, Funded, Exists
  <2> QED  BY <2>1, <2>2, StillKeeps
<1>2. ASSUME NEW w \in Workers, JobStep(w) \/ ProposalStep(w), UNCHANGED contractVars
      PROVE  Inv'
  BY <1>2, JobRequestKeeps, JobCallKeeps, ProposalRequestKeeps, ProposalCallKeeps
     DEF JobStep, ProposalStep
<1>3. ASSUME NEW w \in Workers, ContractStep(w), UNCHANGED hiringVars
      PROVE  Inv'
  <2>1. ASSUME NEW p \in Proposals,
               \/ Hire(w, p) \/ Accept(w, p) \/ RequestStatus(w, p) \/ StartContract(w, p)
               \/ ApproveWork(w, p) \/ \E d \in Disputes : OpenDispute(w, p, d)
        PROVE  Inv'
    BY <1>3, <2>1, BeginKeeps
  <2>2. ASSUME NEW p \in Proposals, ConfirmPayment(w, p)  PROVE Inv'
    BY <1>3, <2>2, ConfirmPaymentKeeps
  <2>3. ASSUME NEW m \in Milestones,
               \/ AddMilestone(w, m) \/ FundMilestone(w, m) \/ Start(w, m) \/ Submit(w, m)
               \/ Approve(w, m) \/ RequestMilestoneRevision(w, m)
        PROVE  Inv'
    BY <1>3, <2>3, BeginMilestoneKeeps
  <2>4. ASSUME NEW d \in Disputes, CloseDispute(w, d) \/ UpdateDisputeStatus(w, d)
        PROVE  Inv'
    BY <1>3, <2>4, CloseDisputeKeeps, UpdateDisputeStatusKeeps
  <2>5. ASSUME \/ InsertContract(w) \/ SetPaid(w) \/ SaveAccepted(w) \/ FundNext(w)
               \/ Lock(w) \/ Claim(w) \/ PushMilestone(w) \/ SaveStatus(w)
        PROVE  Inv'
    BY <1>3, <2>5, InsertContractKeeps, SetPaidKeeps, SaveAcceptedKeeps, FundNextKeeps,
       LockKeeps, ClaimKeeps, PushMilestoneKeeps, SaveStatusKeeps
  <2>6. ASSUME \/ ReadEscrow(w) \/ Release(w) \/ Pay(w) \/ SaveReleased(w)
               \/ SaveMilestone(w)
        PROVE  Inv'
    BY <1>3, <2>6, ReadEscrowKeeps, ReleaseKeeps, PayKeeps, SaveReleasedKeeps,
       SaveMilestoneKeeps
  <2>7. ASSUME \/ InsertDispute(w) \/ ListEscrows(w) \/ FreezeNext(w) \/ SaveDispute(w)
               \/ CountOpen(w) \/ ReadDisputed(w)
        PROVE  Inv'
    BY <1>3, <2>7, InsertDisputeKeeps, ListEscrowsKeeps, FreezeNextKeeps, SaveDisputeKeeps,
       CountOpenKeeps, ReadDisputedKeeps
  <2>8. ASSUME Crash(w)  PROVE Inv'
    BY <1>3, <2>8, StopsKeeps DEF Crash
  <2> QED  BY <1>3, <2>1, <2>2, <2>3, <2>4, <2>5, <2>6, <2>7, <2>8 DEF ContractStep
<1>4. ASSUME NEW k \in Keys, SettleEscrow(k), UNCHANGED hiringVars  PROVE Inv'
  BY <1>4, SettleEscrowKeeps
<1> QED  BY <1>1, <1>2, <1>3, <1>4 DEF Next

\* Every reachable state of jobs, proposals, contracts and requests is of its
\* type, and every request holds what it is about to write.
THEOREM ContractTypeSafe == Spec => []TypeOK
<1>1. Inv => TypeOK
  <2> SUFFICES ASSUME Inv PROVE TypeOK
    OBVIOUS
  <2>1. ASSUME NEW w \in Workers  PROVE TaskOK(task[w])
    BY AtWork DEF TaskOK, RequestInv, PointInv, JobOps, Proposal
  <2> QED  BY <2>1 DEF Inv, DocumentsTyped, RequestsInv, TypeOK
<1> QED  BY <1>1, InitInv, NextInv, PTL DEF Spec

\* A completed milestone has been paid, whatever requests overlap, break off
\* or settle its escrow meanwhile (approveMilestoneWork).
THEOREM CompletedIsPaid == Spec => []CompletedWasPaid
<1>1. Inv => CompletedWasPaid  BY DEF Inv, MoneyInv, CompletedWasPaid
<1> QED  BY <1>1, InitInv, NextInv, PTL DEF Spec

\* A contract on which work has begun was paid for, or was in dispute
\* (respondToContract, startContract).
THEOREM StartedIsFunded == Spec => []StartedWasFunded
<1>1. Inv => StartedWasFunded  BY DEF Inv, WorkInv, StartedWasFunded, Funded
<1> QED  BY <1>1, InitInv, NextInv, PTL DEF Spec

-----------------------------------------------------------------------------
(* Requests that do not overlap, none cut short.  What the request in turn   *)
(* carries still agrees with the documents.                                  *)
Sequential(w) ==
  Workers = {w} /\ "crash" \notin Operations /\ "updateDispute" \notin Operations

Underway == {"pending", "active", "in_review"}
Engaged == {"accepted", "completed", "closed"}
OnItsWay == {"readEscrow", "lock", "release", "pay", "saveReleased", "saveMilestone"}
Disputed(p) == \E d \in Disputes : dispute[d].on = p
Settled(p) ==
  \/ contract[p].status = "disputed"
  \/ contract[p].status \in {"completed", "closed"} /\ Unfinished(p) = {}
InProgress(p) == {m \in Milestones : ProposalOf[m] = p /\ milestone[m] = "in_progress"}

CarriesProposal(t) ==
  /\ t.pc = "saveDecision" => proposal[t.proposal].status = "pending"
  /\ t.pc = "deleteEarlier" =>
       t.other \in Proposals /\ proposal[t.other].status = "withdrawn"
  /\ t.pc = "insertContract" => proposal[t.proposal].status = "accepted"

CarriesMilestone(t) ==
  /\ t.pc = "pushMilestone" =>
       /\ contract[t.proposal].status \in {"pending", "active"}
       /\ ProposalOf[t.milestone] = t.proposal
  /\ t.op \in OfMilestone /\ t.pc \in OnItsWay =>
       /\ milestone[t.milestone] \notin {"none", "completed"}
       /\ t.op = "approve" => t.left = Unfinished(t.proposal) \ {t.milestone}
       /\ t.op = "submit" => t.to = "in_review"
       /\ t.op = "revise" => t.to = "revision_requested"
       /\ t.op = "start" /\ t.to = "in_progress" =>
            InProgress(t.proposal) \subseteq {t.milestone}

CarriesStatus(t) ==
  /\ t.pc \in {"sweep", "findContract"} => t.op # "accept"
  /\ t.pc \in {"saveStatus", "insertDispute"} => Exists(t.proposal)
  /\ t.op = "accept" /\ t.pc \in {"markJob", "saveJob", "saveAccepted"} =>
       contract[t.proposal].status = "pending"
  /\ t.op = "approveWork" /\ t.pc \in OnItsWay => contract[t.proposal].status = "in_review"
  /\ t.pc = "saveStatus" =>
       CASE t.op = "approve" -> Unfinished(t.proposal) = {}
         [] t.op = "openDispute" -> t.to = "disputed"
         [] t.op = "closeDispute" -> t.to = "active" /\ OpenDisputes(t.proposal) = {}
         [] t.op = "close" ->
              t.to = "closed" /\ contract[t.proposal].status = "completed"
         [] OTHER -> t.to # "closed" /\ contract[t.proposal].status \in Underway
  /\ t.pc = "insertDispute" =>
       /\ t.to \in {"none", "disputed"}
       /\ t.to = "none" => contract[t.proposal].status = "disputed"
  /\ t.pc = "saveDispute" => t.to \in {"RESOLVED", "REJECTED"}
  /\ t.pc = "readDisputed" => OpenDisputes(t.proposal) = {}

Carries(t) == CarriesProposal(t) /\ CarriesMilestone(t) /\ CarriesStatus(t)

Saving(t, op, p) == t.pc = "saveStatus" /\ t.op = op /\ t.proposal = p

EngagedInv(t, p) ==
  /\ Exists(p) => proposal[p].status \in Engaged
  /\ contract[p].status = "closed" =>
       \/ proposal[p].status = "closed"
       \/ t.pc = "markProposalClosed" /\ t.proposal = p
  /\ \A m \in InProgress(p), n \in InProgress(p) : m = n
  /\ MilestonesOf(p) # {} => Exists(p)
  /\ OpenDisputes(p) # {} => Settled(p) \/ Saving(t, "openDispute", p)
  /\ contract[p].status \in Underway /\ MilestonesOf(p) # {} =>
       Unfinished(p) # {} \/ Disputed(p) \/ Saving(t, "approve", p)

TurnInv(w) == Carries(task[w]) /\ \A p \in Proposals : EngagedInv(task[w], p)

-----------------------------------------------------------------------------
(* The documents stay as they are, but for proposals that advance.           *)
DocsStay ==
  /\ UNCHANGED <<milestone, dispute>>
  /\ \A p \in Proposals : contract'[p].status = contract[p].status
  /\ \A p \in Proposals :
       /\ proposal[p].status \in Engaged => proposal'[p].status \in Engaged
       /\ proposal[p].status = "closed" => proposal'[p].status = "closed"

LEMMA TurnStays ==
  ASSUME NEW w \in Workers, TurnInv(w), DocsStay,
         task[w].pc \notin {"saveStatus", "markProposalClosed"}, Carries(task[w])'
  PROVE  TurnInv(w)'
<1> SUFFICES ASSUME NEW p \in Proposals  PROVE EngagedInv(task[w], p)'
  BY DEF TurnInv
<1>1. EngagedInv(task[w], p)  BY DEF TurnInv
<1>2. /\ MilestonesOf(p)' = MilestonesOf(p) /\ Unfinished(p)' = Unfinished(p)
      /\ OpenDisputes(p)' = OpenDisputes(p) /\ InProgress(p)' = InProgress(p)
      /\ Disputed(p)' <=> Disputed(p)
  BY DEF DocsStay, MilestonesOf, Unfinished, OpenDisputes, InProgress, Disputed
<1>3. contract'[p].status = contract[p].status /\ (Exists(p)' <=> Exists(p))
  BY DEF DocsStay, Exists
<1>4. Settled(p)' <=> Settled(p)  BY <1>2, <1>3 DEF Settled
<1>5. /\ proposal[p].status \in Engaged => proposal'[p].status \in Engaged
      /\ proposal[p].status = "closed" => proposal'[p].status = "closed"
  BY DEF DocsStay
<1> QED  BY <1>1, <1>2, <1>3, <1>4, <1>5 DEF EngagedInv, Saving

\* A request of which the invariant says nothing.
Free(t) ==
  /\ t.pc \notin {"saveDecision", "deleteEarlier", "insertContract", "pushMilestone",
                  "saveStatus", "insertDispute", "saveDispute", "readDisputed"}
  /\ t.pc \in OnItsWay => t.op \notin OfMilestone \cup {"approveWork"}
  /\ t.op = "accept" =>
       t.pc \notin {"markJob", "saveJob", "saveAccepted", "sweep", "findContract"}

LEMMA FreeCarries ==
  ASSUME NEW t, Free(t)
  PROVE  Carries(t) /\ Carries(t)'
<1>1. CarriesProposal(t) /\ CarriesProposal(t)'  BY DEF Free, CarriesProposal
<1>2. CarriesMilestone(t) /\ CarriesMilestone(t)'  BY DEF Free, CarriesMilestone
<1>3. CarriesStatus(t) /\ CarriesStatus(t)'  BY DEF Free, CarriesStatus, OnItsWay
<1> QED  BY <1>1, <1>2, <1>3 DEF Carries

LEMMA TurnFree ==
  ASSUME NEW w \in Workers, TurnInv(w), DocsStay,
         task[w].pc \notin {"saveStatus", "markProposalClosed"}, Free(task'[w])
  PROVE  TurnInv(w)'
<1>1. Carries(task[w])'  BY FreeCarries
<1> QED  BY <1>1, TurnStays

LEMMA FreeIdle == Free(Idle)
BY DEF Free, Idle, Request, OnItsWay

LEMMA TurnEnds ==
  ASSUME Inv, NEW w \in Workers, TurnInv(w), DocsStay,
         task[w].pc \notin {"saveStatus", "markProposalClosed"}, Done(w)
  PROVE  TurnInv(w)'
<1>1. task'[w] = Idle  BY Rests DEF Becomes, Inv, RequestsInv
<1> QED  BY <1>1, FreeIdle, TurnFree

LEMMA TurnGoes ==
  ASSUME Inv, NEW w \in Workers, TurnInv(w), DocsStay, NEW pc \in Points, Go(w, pc),
         task[w].pc \notin {"saveStatus", "markProposalClosed"}, Free(Moved(w, pc))
  PROVE  TurnInv(w)'
<1>1. task'[w] = Moved(w, pc)  BY Goes DEF Becomes, Inv, RequestsInv
<1> QED  BY <1>1, TurnFree

\* The documents are not written: what r carries it still carries afterwards.
LEMMA TurnTakes ==
  ASSUME NEW w \in Workers, TurnInv(w), NEW r, task'[w] = r,
         task[w].pc \notin {"saveStatus", "markProposalClosed"}, Carries(r),
         UNCHANGED <<proposal, contract, milestone, dispute>>
  PROVE  TurnInv(w)'
<1>1. DocsStay  BY DEF DocsStay
<1>2. Carries(r)'
  BY DEF Carries, CarriesProposal, CarriesMilestone, CarriesStatus, Unfinished,
         MilestonesOf, InProgress, OpenDisputes, Exists
<1>3. Carries(task[w])'  BY <1>2
<1> QED  BY <1>1, <1>3, TurnStays

-----------------------------------------------------------------------------
(* Hiring.                                                                   *)
LEMMA TurnJobRequest ==
  ASSUME Inv, NEW w \in Workers, TurnInv(w), NEW j \in Jobs, JobRequest(w, j),
         UNCHANGED contractVars
  PROVE  TurnInv(w)'
<1>1. /\ At(w, "idle") /\ proposal' = proposal /\ task \in [Workers -> TaskRecord]
  BY DEF JobRequest, CreateJob, ViewJob, UpdateJob, UpdateJobStatus, CloseJob, DeleteJob,
         May, hiringVars, Inv, RequestsInv
<1>2. DocsStay  BY <1>1 DEF DocsStay, contractVars
<1>3. CASE task' = task
  BY <1>1, <1>2, <1>3, TurnFree DEF At, Free, OnItsWay
<1>4. ASSUME NEW op \in JobOps, NEW to, NEW pc \in {"sweep", "findContract", "saveJob",
                                                     "removeJob", "saveDeleted"},
             \/ Begin(w, OnJob(op, pc, j)) \/ Begin(w, [OnJob(op, pc, j) EXCEPT !.to = to])
      PROVE  TurnInv(w)'
  <2> DEFINE r == OnJob(op, pc, j)
  <2>1. op \in Ops /\ pc \in Points  BY DEF Ops, JobOps, Points
  <2>2. r \in TaskRecord /\ r.op = op /\ r.pc = pc
    BY <2>1, OnJobIsPlain DEF OfJob
  <2>3. Begin(w, r) \/ Begin(w, [r EXCEPT !.to = to])  BY <1>4
  <2> HIDE DEF r
  <2>4. task'[w].op = op /\ task'[w].pc = pc
    BY <1>1, <2>2, <2>3 DEF Begin, TaskRecord
  <2> QED
    BY <1>1, <1>2, <2>4, TurnFree DEF At, Free, OnItsWay, JobOps
<1>5. \/ task' = task
      \/ \E op \in JobOps, to \in JobStatuses,
            pc \in {"sweep", "findContract", "saveJob", "removeJob", "saveDeleted"} :
           \/ Begin(w, OnJob(op, pc, j)) \/ Begin(w, [OnJob(op, pc, j) EXCEPT !.to = to])
  <2>1. CASE CreateJob(w, j)  BY <2>1 DEF CreateJob
  <2>2. CASE ViewJob(w, j)  BY <2>2 DEF ViewJob, JobOps, JobStatuses
  <2>3. CASE UpdateJob(w, j)  BY <2>3, ZenonT(40) DEF UpdateJob, JobOps, JobStatuses
  <2>4. CASE UpdateJobStatus(w, j)
    BY <2>4, ZenonT(40) DEF UpdateJobStatus, JobOps, JobStatuses
  <2>5. CASE CloseJob(w, j)  BY <2>5 DEF CloseJob, JobOps, JobStatuses
  <2>6. CASE DeleteJob(w, j)  BY <2>6 DEF DeleteJob, JobOps, JobStatuses
  <2> QED  BY <2>1, <2>2, <2>3, <2>4, <2>5, <2>6 DEF JobRequest
<1> QED  BY <1>3, <1>4, <1>5

\* After the job is marked: only an acceptance of a contract carries on.
LEMMA TurnAfterJob ==
  ASSUME Inv, NEW w \in Workers, TurnInv(w), task[w].pc \in {"saveJob", "markJob"},
         Continue(w, AfterJob(task[w].op)),
         UNCHANGED <<proposal, contract, milestone, dispute>>
  PROVE  TurnInv(w)'
<1>1. DocsStay  BY DEF DocsStay
<1>2. CASE task[w].op = "accept"
  <2>1. Go(w, "saveAccepted") /\ "saveAccepted" \in Points
    BY <1>2 DEF Continue, AfterJob, Points
  <2>2. task'[w] = Moved(w, "saveAccepted")
    BY <2>1, Goes DEF Becomes, Inv, RequestsInv
  <2>3. contract[task[w].proposal].status = "pending"
    BY <1>2 DEF TurnInv, Carries, CarriesStatus
  <2> DEFINE r == Moved(w, "saveAccepted")
  <2>4. r.pc = "saveAccepted" /\ r.op = "accept" /\ r.proposal = task[w].proposal
    BY <1>2, <2>1, MovedIs DEF Inv, RequestsInv
  <2> HIDE DEF r
  <2>5. Carries(r)
    BY <2>3, <2>4 DEF Carries, CarriesProposal, CarriesMilestone, CarriesStatus, OnItsWay
  <2> QED  BY <2>2, <2>5, TurnTakes DEF r
<1>3. CASE task[w].op \in {"approve", "approveWork", "complete"}
  <2>1. Go(w, "markProposal") /\ "markProposal" \in Points
    BY <1>3 DEF Continue, AfterJob, Points
  <2>2. Free(Moved(w, "markProposal"))
    BY <2>1, MovedIs DEF Inv, RequestsInv, Free, OnItsWay
  <2> QED  BY <1>1, <2>1, <2>2, TurnGoes
<1>4. CASE task[w].op \notin {"accept", "approve", "approveWork", "complete"}
  <2>1. Done(w)  BY <1>4 DEF Continue, AfterJob
  <2> QED  BY <1>1, <2>1, TurnEnds
<1> QED  BY <1>2, <1>3, <1>4

LEMMA TurnJobCall ==
  ASSUME Inv, NEW w \in Workers, TurnInv(w), JobCall(w), UNCHANGED contractVars
  PROVE  TurnInv(w)'
<1> USE DEF At
<1>1. Carries(task[w]) /\ DocumentsTyped /\ UNCHANGED <<contract, milestone, dispute>>
  BY DEF TurnInv, Inv, contractVars
<1>2. CASE FindContract(w)
  <2>1. DocsStay  BY <1>1, <1>2 DEF FindContract, hiringVars, DocsStay
  <2>2. CASE Go(w, "sweep")
    <3>1. "sweep" \in Points /\ task[w].op # "accept"
      BY <1>1, <1>2 DEF FindContract, Points, Carries, CarriesStatus
    <3>2. Free(Moved(w, "sweep"))
      BY <3>1, MovedIs DEF Inv, RequestsInv, Free, OnItsWay
    <3> QED  BY <1>2, <2>1, <2>2, <3>1, <3>2, TurnGoes DEF FindContract
  <2> QED  BY <1>2, <2>1, <2>2, TurnEnds DEF FindContract
<1>3. CASE Sweep(w) \/ SweepFails(w)
  <2>1. DocsStay
    BY <1>1, <1>3 DEF Sweep, SweepFails, SetProposals, Pending, hiringVars, DocsStay, Engaged,
                      DocumentsTyped, ProposalRecord
  <2>2. /\ "saveJob" \in Points /\ task[w].op # "accept" /\ task[w].pc = "sweep"
        /\ Go(w, "saveJob")
    BY <1>1, <1>3 DEF Sweep, SweepFails, Points, Carries, CarriesStatus
  <2>3. Free(Moved(w, "saveJob"))
    BY <2>2, MovedIs DEF Inv, RequestsInv, Free, OnItsWay
  <2> QED  BY <2>1, <2>2, <2>3, TurnGoes
<1>4. CASE SaveJob(w)  BY <1>1, <1>4, TurnAfterJob DEF SaveJob
<1>5. CASE MarkJob(w)
  <2>1. task[w].pc = "markJob" /\ UNCHANGED <<proposal, contract, milestone, dispute>>
    BY <1>1, <1>5 DEF MarkJob, hiringVars
  <2>2. CASE Go(w, "saveJob")
    <3> DEFINE r == Moved(w, "saveJob")
    <3>1. "saveJob" \in Points  BY DEF Points
    <3>2. task'[w] = r  BY <2>2, <3>1, Goes DEF Becomes, Inv, RequestsInv
    <3>3. r.pc = "saveJob" /\ r.op = task[w].op /\ r.proposal = task[w].proposal
      BY <3>1, MovedIs DEF Inv, RequestsInv
    <3> HIDE DEF r
    <3>4. Carries(r)
      BY <1>1, <2>1, <3>3 DEF Carries, CarriesProposal, CarriesMilestone, CarriesStatus,
                              OnItsWay
    <3> QED  BY <2>1, <3>2, <3>4, TurnTakes
  <2>3. CASE Continue(w, AfterJob(task[w].op))  BY <2>1, <2>3, TurnAfterJob
  <2> QED  BY <1>5, <2>2, <2>3 DEF MarkJob
<1>6. CASE RemoveJob(w) \/ SaveDeleted(w)
  <2>1. DocsStay  BY <1>1, <1>6 DEF RemoveJob, SaveDeleted, DocsStay
  <2> QED  BY <1>6, <2>1, TurnEnds DEF RemoveJob, SaveDeleted
<1> QED  BY <1>2, <1>3, <1>4, <1>5, <1>6 DEF JobCall

LEMMA TurnProposalRequest ==
  ASSUME Inv, NEW w \in Workers, TurnInv(w), NEW p \in Proposals, ProposalRequest(w, p),
         UNCHANGED contractVars
  PROVE  TurnInv(w)'
<1>1. At(w, "idle") /\ task \in [Workers -> TaskRecord] /\ DocumentsTyped
  BY DEF ProposalRequest, CountProposals, EditProposal, ViewProposal, Decide, May, Inv,
         RequestsInv
<1>2. CASE ViewProposal(w, p)
  <2>1. DocsStay
    BY <1>1, <1>2 DEF ViewProposal, DocsStay, contractVars, DocumentsTyped, ProposalRecord
  <2> QED  BY <1>1, <1>2, <2>1, TurnFree DEF ViewProposal, At, Free, OnItsWay
<1>3. ASSUME NEW op \in {"apply", "edit", "withdraw", "acceptProposal", "rejectProposal"},
             NEW pc \in {"readJob", "saveEdited", "saveDecision"},
             pc = "saveDecision" => proposal[p].status = "pending",
             Begin(w, OnProposal(op, pc, p)), UNCHANGED hiringVars
      PROVE  TurnInv(w)'
  <2> DEFINE r == OnProposal(op, pc, p)
  <2>1. op \in Ops /\ pc \in Points  BY DEF Ops, Points
  <2>2. OfProposal(r, op, pc, p)  BY <2>1, OnProposalIs
  <2>3. task'[w] = r  BY <1>1, <1>3 DEF Begin
  <2> HIDE DEF r
  <2>4. Carries(r)
    BY <1>3, <2>2 DEF OfProposal, Carries, CarriesProposal, CarriesMilestone, CarriesStatus,
                      OnItsWay
  <2> QED
    BY <1>1, <1>3, <2>3, <2>4, TurnTakes DEF At, hiringVars, contractVars
<1>4. CASE CountProposals(w, p)  BY <1>3, <1>4 DEF CountProposals
<1>5. CASE EditProposal(w, p)  BY <1>3, <1>5 DEF EditProposal
<1>6. CASE Decide(w, p)
  <2>1. PICK op \in {"withdraw", "acceptProposal", "rejectProposal"} :
          Begin(w, OnProposal(op, "saveDecision", p))
    BY <1>6 DEF Decide
  <2> QED  BY <1>3, <1>6, <2>1 DEF Decide
<1> QED  BY <1>2, <1>4, <1>5, <1>6 DEF ProposalRequest

\* The filtered update changes the proposals of a decision, or advances one.
LEMMA ProposalsAdvance ==
  ASSUME DocumentsTyped, NEW ps, NEW status \in ProposalStatuses \cup Gone,
         SetProposals(ps, status), UNCHANGED <<contract, milestone, dispute>>,
         \A p \in Proposals \cap ps :
           \/ proposal[p].status \notin Engaged
           \/ status \in Engaged /\ (proposal[p].status = "closed" => status = "closed")
  PROVE  DocsStay
BY DEF SetProposals, DocsStay, DocumentsTyped, ProposalRecord, Engaged

LEMMA TurnFindEarlier ==
  ASSUME Inv, NEW w \in Workers, TurnInv(w), FindEarlier(w), UNCHANGED contractVars
  PROVE  TurnInv(w)'
<1>1. /\ task[w].pc = "findEarlier" /\ task[w] \in TaskRecord
      /\ UNCHANGED <<proposal, contract, milestone, dispute>>
      /\ task \in [Workers -> TaskRecord]
  BY DEF FindEarlier, At, hiringVars, contractVars, Inv, RequestsInv
<1>2. DocsStay  BY <1>1 DEF DocsStay
<1>3. CASE Go(w, "insert")
  <2>1. "insert" \in Points  BY DEF Points
  <2>2. Free(Moved(w, "insert"))  BY <1>1, <2>1, MovedIs DEF Free, OnItsWay
  <2> QED  BY <1>1, <1>2, <1>3, <2>1, <2>2, TurnGoes
<1>4. CASE Done(w)  BY <1>1, <1>2, <1>4, TurnEnds
<1>5. ASSUME NEW q \in SameApplicant(Proposal(w)), proposal[q].status = "withdrawn",
             task' = [task EXCEPT ![w].other = q, ![w].pc = "deleteEarlier"]
      PROVE  TurnInv(w)'
  <2> DEFINE r == [task[w] EXCEPT !.other = q, !.pc = "deleteEarlier"]
  <2>1. task'[w] = r  BY <1>1, <1>5
  <2>2. r.pc = "deleteEarlier" /\ r.other = q  BY <1>1 DEF TaskRecord
  <2>3. q \in Proposals  BY DEF SameApplicant
  <2> HIDE DEF r
  <2>4. Carries(r)
    BY <1>5, <2>2, <2>3 DEF Carries, CarriesProposal, CarriesMilestone, CarriesStatus, OnItsWay
  <2> QED  BY <1>1, <2>1, <2>4, TurnTakes
<1> QED  BY <1>3, <1>4, <1>5 DEF FindEarlier

LEMMA TurnProposalCall ==
  ASSUME Inv, NEW w \in Workers, TurnInv(w), ProposalCall(w), ~MarkProposalClosed(w),
         UNCHANGED contractVars
  PROVE  TurnInv(w)'
<1> USE DEF At
<1>1. /\ Carries(task[w]) /\ DocumentsTyped /\ UNCHANGED <<contract, milestone, dispute>>
      /\ task[w] \in TaskRecord
  BY AtWork DEF TurnInv, Inv, contractVars
<1>2. ASSUME DocsStay, task[w].pc \notin {"saveStatus", "markProposalClosed"},
             NEW pc \in {"findEarlier", "insert", "countUp", "countDown", "rejectOthers"},
             Go(w, pc) \/ Done(w)
      PROVE  TurnInv(w)'
  <2>1. pc \in Points  BY DEF Points
  <2>2. Free(Moved(w, pc))  BY <2>1, MovedIs DEF Free, OnItsWay, Inv, RequestsInv
  <2> QED  BY <1>2, <2>1, <2>2, TurnGoes, TurnEnds
<1>3. CASE ReadJob(w)
  <2>1. DocsStay  BY <1>1, <1>3 DEF ReadJob, hiringVars, DocsStay
  <2> QED  BY <1>2, <1>3, <2>1 DEF ReadJob
<1>4. CASE FindEarlier(w)  BY <1>4, TurnFindEarlier
<1>5. CASE DeleteEarlier(w)
  <2>1. /\ task[w].other \in Proposals
        /\ proposal[task[w].other].status = "withdrawn"
    BY <1>1, <1>5 DEF DeleteEarlier, Carries, CarriesProposal
  <2>2. DocsStay
    BY <1>1, <1>5, <2>1 DEF DeleteEarlier, DocsStay, DocumentsTyped, ProposalRecord, Engaged
  <2> QED  BY <1>2, <1>5, <2>2 DEF DeleteEarlier
<1>6. CASE InsertProposal(w)
  <2>1. DocsStay
    BY <1>1, <1>6 DEF InsertProposal, DocsStay, DocumentsTyped, ProposalRecord, Engaged
  <2> QED  BY <1>2, <1>6, <2>1 DEF InsertProposal
<1>7. CASE CountUp(w) \/ CountDown(w)
  <2>1. DocsStay  BY <1>1, <1>7 DEF CountUp, CountDown, DocsStay
  <2> QED  BY <1>2, <1>7, <2>1 DEF CountUp, CountDown
<1>8. CASE SaveEdited(w)
  <2>1. DocsStay
    BY <1>1, <1>8 DEF SaveEdited, DocsStay, DocumentsTyped, ProposalRecord
  <2> QED  BY <1>2, <1>8, <2>1 DEF SaveEdited
<1>9. CASE SaveDecision(w)
  <2>1. proposal[Proposal(w)].status = "pending"
    BY <1>1, <1>9 DEF SaveDecision, Carries, CarriesProposal, Proposal
  <2>2. Decision(task[w].op) \in ProposalStatuses  BY DEF Decision, ProposalStatuses
  <2>3. DocsStay
    <3>1. CASE proposal' = proposal  BY <1>1, <3>1 DEF DocsStay
    <3>2. CASE SetProposals({Proposal(w)}, Decision(task[w].op))
      <4>1. proposal[Proposal(w)].status \notin Engaged  BY <2>1 DEF Engaged
      <4> QED  BY <1>1, <2>2, <3>2, <4>1, ProposalsAdvance
    <3> QED  BY <1>9, <3>1, <3>2 DEF SaveDecision
  <2>4. Done(w) \/ Go(w, "countDown") \/ Go(w, "rejectOthers")
    BY <1>9 DEF SaveDecision, Continue, AfterDecision
  <2> QED  BY <1>2, <1>9, <2>3, <2>4 DEF SaveDecision
<1>10. CASE RejectOthers(w)
  <2>1. \A p \in Pending(Job(w)) : proposal[p].status \notin Engaged
    BY DEF Pending, Engaged
  <2>2. DocsStay
    BY <1>1, <1>10, <2>1, ProposalsAdvance DEF RejectOthers, ProposalStatuses
  <2> QED  BY <1>2, <1>10, <2>2 DEF RejectOthers
<1>11. CASE MarkProposal(w)
  <2>1. DocsStay
    BY <1>1, <1>11, ProposalsAdvance DEF MarkProposal, ProposalStatuses, Engaged
  <2> QED  BY <1>2, <1>11, <2>1 DEF MarkProposal
<1> QED
  BY <1>3, <1>4, <1>5, <1>6, <1>7, <1>8, <1>9, <1>10, <1>11 DEF ProposalCall

\* The proposal is closed with its contract.
LEMMA TurnMarkProposalClosed ==
  ASSUME Inv, NEW w \in Workers, TurnInv(w), MarkProposalClosed(w), UNCHANGED contractVars
  PROVE  TurnInv(w)'
<1>1. /\ task[w].pc = "markProposalClosed" /\ Done(w)
      /\ UNCHANGED <<contract, milestone, dispute>>
      /\ DocumentsTyped
  BY DEF MarkProposalClosed, At, contractVars, Inv
<1>2. task'[w] = Idle  BY <1>1, Rests DEF Becomes, Inv, RequestsInv
<1>3. Carries(task[w])'  BY <1>2, FreeIdle, FreeCarries
<1> SUFFICES ASSUME NEW p \in Proposals  PROVE EngagedInv(task[w], p)'
  BY <1>3 DEF TurnInv
<1>4. EngagedInv(task[w], p)  BY DEF TurnInv
<1>5. /\ MilestonesOf(p)' = MilestonesOf(p) /\ Unfinished(p)' = Unfinished(p)
      /\ OpenDisputes(p)' = OpenDisputes(p) /\ InProgress(p)' = InProgress(p)
      /\ (Disputed(p)' <=> Disputed(p)) /\ (Exists(p)' <=> Exists(p))
      /\ (Settled(p)' <=> Settled(p))
  BY <1>1 DEF MilestonesOf, Unfinished, OpenDisputes, InProgress, Disputed, Exists, Settled
<1>6. /\ proposal[p].status \in Engaged => proposal'[p].status \in Engaged
      /\ proposal[p].status = "closed" => proposal'[p].status = "closed"
      /\ proposal[p].status \in Engaged /\ p = task[w].proposal
           => proposal'[p].status = "closed"
  BY <1>1 DEF MarkProposalClosed, SetProposals, Proposal, DocumentsTyped, ProposalRecord,
              Engaged
<1>7. contract[p].status = "closed" => Exists(p)  BY DEF Exists
<1> QED  BY <1>1, <1>4, <1>5, <1>6, <1>7 DEF EngagedInv, Saving

-----------------------------------------------------------------------------
(* The requests on contracts begin: they carry what they have just read.     *)
LEMMA TurnBegins ==
  ASSUME Inv, NEW w \in Workers, TurnInv(w), At(w, "idle"), NEW r, Carries(r), Begin(w, r),
         UNCHANGED <<proposal, contract, milestone, dispute>>
  PROVE  TurnInv(w)'
<1>1. task'[w] = r  BY DEF Begin, Inv, RequestsInv
<1> QED  BY <1>1, TurnTakes DEF At

LEMMA TurnBeginContract ==
  ASSUME Inv, NEW w \in Workers, TurnInv(w), NEW p \in Proposals, UNCHANGED hiringVars,
         \/ Hire(w, p) \/ Accept(w, p) \/ RequestStatus(w, p) \/ StartContract(w, p)
         \/ ApproveWork(w, p) \/ \E d \in Disputes : OpenDispute(w, p, d)
  PROVE  TurnInv(w)'
<1> USE DEF Carries, CarriesProposal, CarriesMilestone, CarriesStatus, OnItsWay, OfMilestone
<1>1. At(w, "idle") /\ UNCHANGED <<proposal, contract, milestone, dispute>>
  BY DEF Hire, Accept, RequestStatus, StartContract, ApproveWork, OpenDispute, May,
         hiringVars, contractVars
<1>2. CASE Hire(w, p)
  <2> DEFINE r == OnProposal("hire", "insertContract", p)
  <2>1. "hire" \in Ops /\ "insertContract" \in Points /\ "none" \in Statuses
    BY DEF Ops, Points, Statuses
  <2>2. Bears(r, "hire", "insertContract", p, "none", {})  BY <2>1, ProposalBears
  <2>3. Begin(w, r) /\ proposal[p].status = "accepted"  BY <1>2 DEF Hire
  <2> HIDE DEF r
  <2>4. Carries(r)  BY <2>2, <2>3 DEF Bears
  <2> QED  BY <1>1, <2>3, <2>4, TurnBegins
<1>3. CASE Accept(w, p)
  <2> DEFINE left == MilestonesOf(p)
             r == [OnProposal("accept", "markJob", p) EXCEPT !.to = "in-progress", !.left = left]
  <2>1. /\ "accept" \in Ops /\ "markJob" \in Points /\ "in-progress" \in Statuses
        /\ left \in SUBSET Milestones
    BY DEF Ops, Points, Statuses, JobStatuses, MilestonesOf
  <2>2. Bears(r, "accept", "markJob", p, "in-progress", left)  BY <2>1, ProposalBears
  <2>3. Begin(w, r) /\ contract[p].status = "pending"  BY <1>3 DEF Accept
  <2> HIDE DEF r, left
  <2>4. Carries(r)  BY <2>2, <2>3 DEF Bears
  <2> QED  BY <1>1, <2>3, <2>4, TurnBegins
<1>4. CASE RequestStatus(w, p)
  <2>1. PICK x \in StatusRequests :
          /\ contract[p].status = x[2]
          /\ Begin(w, [OnProposal(x[1], "saveStatus", p) EXCEPT !.to = x[3]])
    BY <1>4 DEF RequestStatus
  <2> DEFINE op == x[1]
             to == x[3]
             r == [OnProposal(op, "saveStatus", p) EXCEPT !.to = to]
  <2>2. /\ op \in {"decline", "cancel", "submitWork", "requestRevision", "complete", "close"}
        /\ to \in ContractStatuses
        /\ op = "close" => to = "closed" /\ x[2] = "completed"
        /\ op # "close" => to # "closed" /\ x[2] \in Underway
        /\ x[2] # "none"
    BY DEF StatusRequests, ContractStatuses, Underway
  <2>3. Begin(w, r) /\ contract[p].status = x[2]  BY <2>1
  <2> HIDE DEF op, to
  <2>4. op \in Ops /\ "saveStatus" \in Points /\ to \in Statuses
    BY <2>2 DEF Ops, Points, Statuses
  <2>5. Bears(r, op, "saveStatus", p, to, {})  BY <2>4, ProposalBears
  <2> HIDE DEF r
  <2>6. Carries(r)  BY <2>2, <2>3, <2>5 DEF Bears, Exists
  <2> QED  BY <1>1, <2>3, <2>6, TurnBegins
<1>5. CASE StartContract(w, p)
  <2> DEFINE r == [OnProposal("startContract", "saveStatus", p) EXCEPT !.to = "active"]
  <2>1. "startContract" \in Ops /\ "saveStatus" \in Points /\ "active" \in Statuses
    BY DEF Ops, Points, Statuses, ContractStatuses
  <2>2. Bears(r, "startContract", "saveStatus", p, "active", {})  BY <2>1, ProposalBears
  <2>3. Begin(w, r) /\ contract[p].status = "pending"  BY <1>5 DEF StartContract
  <2> HIDE DEF r
  <2>4. Carries(r)  BY <2>2, <2>3 DEF Bears, Exists, Underway
  <2> QED  BY <1>1, <2>3, <2>4, TurnBegins
<1>6. CASE ApproveWork(w, p)
  <2> DEFINE r == [OnProposal("approveWork", "readEscrow", p) EXCEPT !.to = "completed"]
  <2>1. "approveWork" \in Ops /\ "readEscrow" \in Points /\ "completed" \in Statuses
    BY DEF Ops, Points, Statuses, ContractStatuses
  <2>2. Bears(r, "approveWork", "readEscrow", p, "completed", {})  BY <2>1, ProposalBears
  <2>3. Begin(w, r) /\ contract[p].status = "in_review"  BY <1>6 DEF ApproveWork
  <2> HIDE DEF r
  <2>4. Carries(r)  BY <2>2, <2>3 DEF Bears
  <2> QED  BY <1>1, <2>3, <2>4, TurnBegins
<1>7. ASSUME NEW d \in Disputes, OpenDispute(w, p, d)  PROVE TurnInv(w)'
  <2> DEFINE to == IF contract[p].status = "disputed" THEN "none" ELSE "disputed"
             r == [OnProposal("openDispute", "insertDispute", p) EXCEPT !.dispute = d, !.to = to]
  <2>1. /\ "openDispute" \in Ops /\ "insertDispute" \in Points /\ to \in Statuses
        /\ to \in {"none", "disputed"} /\ (to = "none" => contract[p].status = "disputed")
    BY DEF Ops, Points, Statuses, ContractStatuses
  <2>2. Begin(w, r) /\ Exists(p)  BY <1>7 DEF OpenDispute
  <2> HIDE DEF to
  <2>3. BearsDispute(r, "openDispute", "insertDispute", p, to, d)  BY <2>1, DisputeBears
  <2> HIDE DEF r
  <2>4. Carries(r)  BY <2>1, <2>2, <2>3 DEF BearsDispute, Bears
  <2> QED  BY <1>1, <2>2, <2>4, TurnBegins
<1> QED  BY <1>2, <1>3, <1>4, <1>5, <1>6, <1>7

LEMMA TurnBeginMilestone ==
  ASSUME Inv, NEW w \in Workers, TurnInv(w), NEW m \in Milestones, UNCHANGED hiringVars,
         \/ AddMilestone(w, m) \/ FundMilestone(w, m) \/ Start(w, m) \/ Submit(w, m)
         \/ Approve(w, m) \/ RequestMilestoneRevision(w, m)
  PROVE  TurnInv(w)'
<1> USE DEF Carries, CarriesProposal, CarriesMilestone, CarriesStatus, OnItsWay, OfMilestone
<1> DEFINE p == ProposalOf[m]
<1>1. At(w, "idle") /\ UNCHANGED <<proposal, contract, milestone, dispute>>
  BY DEF AddMilestone, FundMilestone, Start, Submit, Approve, RequestMilestoneRevision, May,
         hiringVars, contractVars
<1>2. CASE AddMilestone(w, m)
  <2> DEFINE to == IF contract[p].status = "active" THEN "LOCKED" ELSE "none"
             r == [OnMilestone("addMilestone", "pushMilestone", m) EXCEPT
                     !.left = {m}, !.to = to]
  <2>1. /\ "addMilestone" \in Ops /\ "pushMilestone" \in Points /\ to \in Statuses
        /\ {m} \in SUBSET Milestones
    BY DEF Ops, Points, Statuses
  <2>2. Begin(w, r) /\ contract[p].status \in {"pending", "active"}
    BY <1>2 DEF AddMilestone
  <2> HIDE DEF to
  <2>3. BearsMilestone(r, "addMilestone", "pushMilestone", m, to, {m})  BY <2>1, MilestoneBears
  <2> HIDE DEF r
  <2>4. Carries(r)  BY <2>2, <2>3 DEF BearsMilestone, Bears
  <2> QED  BY <1>1, <2>2, <2>4, TurnBegins
<1>3. CASE FundMilestone(w, m)
  <2> DEFINE r == [OnMilestone("fund", "fundNext", m) EXCEPT !.left = {m}]
  <2>1. /\ "fund" \in Ops /\ "fundNext" \in Points /\ "none" \in Statuses
        /\ {m} \in SUBSET Milestones
    BY DEF Ops, Points, Statuses
  <2>2. Begin(w, r)  BY <1>3 DEF FundMilestone
  <2>3. BearsMilestone(r, "fund", "fundNext", m, "none", {m})  BY <2>1, MilestoneBears
  <2> HIDE DEF r
  <2>4. Carries(r)  BY <2>3 DEF BearsMilestone, Bears
  <2> QED  BY <1>1, <2>2, <2>4, TurnBegins
<1>4. CASE Start(w, m)
  <2> DEFINE to == IF Busy(m) THEN "none" ELSE "in_progress"
             r == [OnMilestone("start", "readEscrow", m) EXCEPT !.to = to]
  <2>1. /\ "start" \in Ops /\ "readEscrow" \in Points /\ to \in Statuses
        /\ to = "in_progress" => ~Busy(m)
    BY DEF Ops, Points, Statuses, MilestoneStatuses
  <2>2. Begin(w, r) /\ milestone[m] \in {"pending", "revision_requested"}
    BY <1>4 DEF Start
  <2> HIDE DEF to
  <2>3. BearsMilestone(r, "start", "readEscrow", m, to, {})  BY <2>1, MilestoneBears
  <2>4. to = "in_progress" => InProgress(p) \subseteq {m}
    BY <2>1 DEF Busy, InProgress, MilestonesOf
  <2> HIDE DEF r, p
  <2>5. Carries(r)  BY <2>2, <2>3, <2>4 DEF BearsMilestone, Bears, p
  <2> QED  BY <1>1, <2>2, <2>5, TurnBegins
<1>5. CASE Submit(w, m) \/ RequestMilestoneRevision(w, m)
  <2>1. PICK op \in {"submit", "revise"}, to \in {"in_review", "revision_requested"} :
          /\ Begin(w, [OnMilestone(op, "saveMilestone", m) EXCEPT !.to = to])
          /\ milestone[m] \notin {"none", "completed"}
          /\ (op = "submit") <=> (to = "in_review")
    BY <1>5 DEF Submit, RequestMilestoneRevision
  <2> DEFINE r == [OnMilestone(op, "saveMilestone", m) EXCEPT !.to = to]
  <2>2. op \in Ops /\ "saveMilestone" \in Points /\ to \in Statuses
    BY DEF Ops, Points, Statuses, MilestoneStatuses, ContractStatuses
  <2>3. BearsMilestone(r, op, "saveMilestone", m, to, {})  BY <2>2, MilestoneBears
  <2>4. Begin(w, r)  BY <2>1
  <2> HIDE DEF r
  <2>5. Carries(r)  BY <2>1, <2>3 DEF BearsMilestone, Bears
  <2> QED  BY <1>1, <2>4, <2>5, TurnBegins
<1>6. CASE Approve(w, m)
  <2> DEFINE left == Unfinished(p) \ {m}
             r == [OnMilestone("approve", "readEscrow", m) EXCEPT
                     !.to = "completed", !.left = left]
  <2>1. /\ "approve" \in Ops /\ "readEscrow" \in Points /\ "completed" \in Statuses
        /\ left \in SUBSET Milestones
    BY DEF Ops, Points, Statuses, ContractStatuses, Unfinished, MilestonesOf
  <2>2. Begin(w, r) /\ milestone[m] = "in_review"  BY <1>6 DEF Approve
  <2>3. left = Unfinished(p) \ {m}  OBVIOUS
  <2> HIDE DEF left
  <2>4. BearsMilestone(r, "approve", "readEscrow", m, "completed", left)
    BY <2>1, MilestoneBears
  <2> HIDE DEF r, p
  <2>5. Carries(r)  BY <2>2, <2>3, <2>4 DEF BearsMilestone, Bears, p
  <2> QED  BY <1>1, <2>2, <2>5, TurnBegins
<1> QED  BY <1>2, <1>3, <1>4, <1>5, <1>6

LEMMA TurnCloseDispute ==
  ASSUME Inv, NEW w \in Workers, TurnInv(w), NEW d \in Disputes, CloseDispute(w, d),
         UNCHANGED hiringVars
  PROVE  TurnInv(w)'
<1> DEFINE p == dispute[d].on
<1>1. p \in Proposals  BY DEF Inv, WorkInv, CloseDispute
<1>2. PICK to \in {"RESOLVED", "REJECTED"} :
        Begin(w, [OnProposal("closeDispute", "saveDispute", p) EXCEPT
                    !.dispute = d, !.to = to])
  BY DEF CloseDispute
<1>3. At(w, "idle") /\ UNCHANGED <<proposal, contract, milestone, dispute>>
  BY DEF CloseDispute, May, hiringVars, contractVars
<1> DEFINE r == [OnProposal("closeDispute", "saveDispute", p) EXCEPT !.dispute = d, !.to = to]
<1>4. "closeDispute" \in Ops /\ "saveDispute" \in Points /\ to \in Statuses
  BY DEF Ops, Points, Statuses, DisputeStatuses
<1>5. BearsDispute(r, "closeDispute", "saveDispute", p, to, d)  BY <1>1, <1>4, DisputeBears
<1>6. Begin(w, r)  BY <1>2
<1> HIDE DEF r, p
<1>7. Carries(r)
  BY <1>5 DEF BearsDispute, Bears, Carries, CarriesProposal, CarriesMilestone, CarriesStatus,
              OnItsWay, OfMilestone
<1> QED  BY <1>3, <1>6, <1>7, TurnBegins

-----------------------------------------------------------------------------
(* The requests on contracts go on, and the documents stay as they are.      *)
LEMMA TurnStill ==
  ASSUME NEW w \in Workers, TurnInv(w),
         UNCHANGED <<proposal, contract, milestone, dispute, task>>
  PROVE  TurnInv(w)'
BY DEF TurnInv, Carries, CarriesProposal, CarriesMilestone, CarriesStatus, EngagedInv,
       Unfinished, MilestonesOf, InProgress, OpenDisputes, Exists, Settled, Disputed

LEMMA TurnMoves ==
  ASSUME Inv, NEW w \in Workers, TurnInv(w), NEW pc \in Points, Go(w, pc),
         task[w].pc \notin {"saveStatus", "markProposalClosed"}, Carries(Moved(w, pc)),
         UNCHANGED <<proposal, contract, milestone, dispute>>
  PROVE  TurnInv(w)'
<1>1. task'[w] = Moved(w, pc)  BY Goes DEF Becomes, Inv, RequestsInv
<1> QED  BY <1>1, TurnTakes

LEMMA TurnFunding ==
  ASSUME Inv, NEW w \in Workers, TurnInv(w), UNCHANGED hiringVars,
         FundNext(w) \/ Lock(w) \/ Claim(w)
  PROVE  TurnInv(w)'
<1>1. /\ task[w].pc \in {"fundNext", "lock", "claim"} /\ task[w] \in TaskRecord
      /\ task[w].op \in Funding \cup {"start"} /\ task \in [Workers -> TaskRecord]
      /\ task[w].pc # "lock" => task[w].op \in Funding
      /\ UNCHANGED <<proposal, contract, milestone, dispute>>
  BY AtWork DEF FundNext, Lock, Claim, At, PointInv, hiringVars, Inv, RequestsInv
<1>2. DocsStay  BY <1>1 DEF DocsStay
<1>3. CASE Done(w)  BY <1>1, <1>2, <1>3, TurnEnds
<1>4. CASE FundNext(w)
  <2>1. ASSUME NEW r, task' = [task EXCEPT ![w] = r],
               r.op = task[w].op, r.pc \in {"claim", "fundNext", "lock"}
        PROVE  TurnInv(w)'
    <3>1. task'[w] = r  BY <1>1, <2>1
    <3>2. r.op \in Funding  BY <1>1, <1>4, <2>1 DEF FundNext, At
    <3>3. Free(r)  BY <2>1, <3>2 DEF Free, OnItsWay, OfMilestone, Funding
    <3> QED  BY <1>1, <1>2, <3>1, <3>3, TurnFree
  <2>2. ASSUME NEW m, NEW pc \in {"claim", "fundNext", "lock"},
               \/ Begin(w, [task[w] EXCEPT !.milestone = m, !.left = @ \ {m}, !.pc = pc])
               \/ Begin(w, [task[w] EXCEPT !.milestone = m, !.left = @ \ {m}])
        PROVE  TurnInv(w)'
    <3>3. task[w].pc = "fundNext"  BY <1>4 DEF FundNext, At
    <3>1. CASE Begin(w, [task[w] EXCEPT !.milestone = m, !.left = @ \ {m}, !.pc = pc])
      <4> DEFINE r == [task[w] EXCEPT !.milestone = m, !.left = @ \ {m}, !.pc = pc]
      <4>1. r.op = task[w].op /\ r.pc = pc  BY <1>1 DEF TaskRecord
      <4>2. task' = [task EXCEPT ![w] = r]  BY <3>1 DEF Begin
      <4> HIDE DEF r
      <4> QED  BY <2>1, <4>1, <4>2
    <3>2. CASE Begin(w, [task[w] EXCEPT !.milestone = m, !.left = @ \ {m}])
      <4> DEFINE r == [task[w] EXCEPT !.milestone = m, !.left = @ \ {m}]
      <4>1. r.op = task[w].op /\ r.pc = task[w].pc  BY <1>1 DEF TaskRecord
      <4>2. task' = [task EXCEPT ![w] = r]  BY <3>2 DEF Begin
      <4> HIDE DEF r
      <4> QED  BY <2>1, <3>3, <4>1, <4>2
    <3> QED  BY <2>2, <3>1, <3>2
  <2> QED  BY <1>3, <1>4, <2>2 DEF FundNext
<1>5. CASE Lock(w)
  <2>1. CASE task[w].op = "start"
    <3> DEFINE r == Moved(w, "saveMilestone")
    <3>1. Go(w, "saveMilestone") /\ "saveMilestone" \in Points /\ task[w].pc = "lock"
      BY <1>5, <2>1 DEF Lock, Points, At
    <3>2. /\ r.pc = "saveMilestone" /\ r.op = "start" /\ r.proposal = task[w].proposal
          /\ r.milestone = task[w].milestone /\ r.to = task[w].to
      BY <1>1, <2>1, <3>1, MovedIs
    <3>3. CarriesMilestone(task[w])  BY DEF TurnInv, Carries
    <3> HIDE DEF r
    <3>4. Carries(r)
      BY <2>1, <3>1, <3>2, <3>3 DEF Carries, CarriesProposal, CarriesMilestone, CarriesStatus,
                               OnItsWay, OfMilestone
    <3> QED  BY <1>1, <3>1, <3>4, TurnMoves DEF r
  <2>2. CASE task[w].op # "start"
    <3>1. Go(w, "fundNext") /\ "fundNext" \in Points  BY <1>5, <2>2 DEF Lock, Points
    <3>2. Free(Moved(w, "fundNext"))  BY <1>1, <2>2, <3>1, MovedIs DEF Free, OnItsWay
    <3> QED  BY <1>1, <1>2, <3>1, <3>2, TurnGoes
  <2> QED  BY <2>1, <2>2
<1> QED  BY <1>3, <1>4, <1>5 DEF Claim

\* On its way to the save: the request carries on what it carried.
LEMMA CarriesOn ==
  ASSUME Inv, NEW w \in Workers, TurnInv(w), task[w].pc \in OnItsWay,
         task[w].op \in OfMilestone \cup {"approveWork"},
         NEW pc \in OnItsWay \cup {"saveStatus"},
         pc = "saveStatus" => task[w].op = "approveWork"
  PROVE  pc \in Points /\ Carries(Moved(w, pc))
<1> DEFINE r == Moved(w, pc)
<1>1. pc \in Points  BY DEF OnItsWay, Points
<1>2. /\ r.pc = pc /\ r.op = task[w].op /\ r.proposal = task[w].proposal
      /\ r.milestone = task[w].milestone /\ r.to = task[w].to /\ r.left = task[w].left
  BY <1>1, MovedIs DEF Inv, RequestsInv
<1>3. CarriesMilestone(task[w]) /\ CarriesStatus(task[w])  BY DEF TurnInv, Carries
<1>4. task[w].op = "approveWork" => task[w].to = "completed"
  BY AtWork DEF RequestInv, Approving
<1> HIDE DEF r
<1>5. CarriesProposal(r)  BY <1>2 DEF CarriesProposal, OnItsWay
<1>6. CarriesMilestone(r)  BY <1>2, <1>3 DEF CarriesMilestone, OnItsWay, OfMilestone
<1>7. CarriesStatus(r)
  BY <1>2, <1>3, <1>4 DEF CarriesStatus, OnItsWay, OfMilestone, Exists, Underway
<1> QED  BY <1>1, <1>5, <1>6, <1>7 DEF Carries, r

LEMMA TurnReleasing ==
  ASSUME Inv, NEW w \in Workers, TurnInv(w), UNCHANGED hiringVars,
         ReadEscrow(w) \/ Release(w) \/ Pay(w) \/ SaveReleased(w)
  PROVE  TurnInv(w)'
<1>1. /\ task[w].pc \in OnItsWay /\ task[w].pc \notin {"saveStatus", "markProposalClosed"}
      /\ task[w].op \in OfMilestone \cup {"approveWork"}
      /\ task[w].op \in Approving \cup {"start"}
      /\ UNCHANGED <<proposal, contract, milestone, dispute>>
  BY AtWork DEF ReadEscrow, Release, Pay, SaveReleased, At, PointInv, hiringVars, contractVars,
                OnItsWay, OfMilestone, Approving
<1>2. DocsStay  BY <1>1 DEF DocsStay
<1>3. CASE Done(w)  BY <1>1, <1>2, <1>3, TurnEnds
<1>4. ASSUME NEW pc \in OnItsWay \cup {"saveStatus"}, Go(w, pc),
             pc = "saveStatus" => task[w].op = "approveWork"
      PROVE  TurnInv(w)'
  BY <1>1, <1>4, CarriesOn, TurnMoves
<1>5. CASE ReadEscrow(w)
  <2>1. \/ Done(w) \/ Go(w, "lock") \/ Go(w, "release") \/ Go(w, "saveMilestone")
        \/ task[w].op = "approveWork" /\ Go(w, "saveStatus")
    BY <1>5, ZenonT(40) DEF ReadEscrow
  <2> QED  BY <1>3, <1>4, <2>1 DEF OnItsWay
<1>6. CASE Release(w)  BY <1>3, <1>4, <1>6 DEF Release, OnItsWay
<1>7. CASE Pay(w)  BY <1>3, <1>4, <1>7 DEF Pay, OnItsWay
<1>8. CASE SaveReleased(w)
  <2>1. /\ task[w].op \in Approving
        /\ Go(w, IF task[w].op = "approve" THEN "saveMilestone" ELSE "saveStatus")
    BY <1>8, AtWork DEF SaveReleased, At, PointInv
  <2> QED  BY <1>4, <2>1 DEF OnItsWay, Approving
<1> QED  BY <1>5, <1>6, <1>7, <1>8

LEMMA TurnLooking ==
  ASSUME Inv, NEW w \in Workers, TurnInv(w), UNCHANGED hiringVars,
         \/ ListEscrows(w) \/ FreezeNext(w) \/ CountOpen(w) \/ ReadDisputed(w)
  PROVE  TurnInv(w)'
<1>1. /\ task[w].pc \in {"listEscrows", "freezeNext", "countOpen", "readDisputed"}
      /\ UNCHANGED <<proposal, contract, milestone, dispute>>
      /\ task[w] \in TaskRecord /\ task \in [Workers -> TaskRecord]
  BY AtWork DEF ListEscrows, FreezeNext, CountOpen, ReadDisputed, At, hiringVars, contractVars,
                Inv, RequestsInv
<1>2. DocsStay  BY <1>1 DEF DocsStay
<1>3. CASE Done(w)  BY <1>1, <1>2, <1>3, TurnEnds
<1>4. ASSUME task'[w].pc = "freezeNext"  PROVE TurnInv(w)'
  BY <1>1, <1>2, <1>4, TurnFree DEF Free, OnItsWay
<1>5. CASE ListEscrows(w)
  <2>1. task'[w].pc = "freezeNext"  BY <1>1, <1>5 DEF ListEscrows, TaskRecord
  <2> QED  BY <1>4, <2>1
<1>6. CASE FreezeNext(w)
  <2>1. task[w].pc = "freezeNext"  BY <1>6 DEF FreezeNext, At
  <2>2. ASSUME NEW k, task' = [task EXCEPT ![w].left = @ \ {k}]  PROVE TurnInv(w)'
    <3>1. task'[w].pc = "freezeNext"  BY <1>1, <2>1, <2>2 DEF TaskRecord
    <3> QED  BY <1>4, <3>1
  <2> QED  BY <1>3, <1>6, <2>2 DEF FreezeNext
<1>7. CASE CountOpen(w)
  <2>1. CASE OpenDisputes(Proposal(w)) = {} /\ Go(w, "readDisputed")
    <3> DEFINE r == Moved(w, "readDisputed")
    <3>1. "readDisputed" \in Points  BY DEF Points
    <3>2. r.pc = "readDisputed" /\ r.proposal = Proposal(w)
      BY <1>1, <3>1, MovedIs DEF Proposal
    <3> HIDE DEF r
    <3>3. Carries(r)
      BY <2>1, <3>2 DEF Carries, CarriesProposal, CarriesMilestone, CarriesStatus, OnItsWay
    <3> QED  BY <1>1, <2>1, <3>1, <3>3, TurnMoves DEF r
  <2> QED  BY <1>3, <1>7, <2>1 DEF CountOpen
<1>8. CASE ReadDisputed(w)
  <2>1. /\ task[w].op = "closeDispute" /\ OpenDisputes(Proposal(w)) = {}
    BY <1>8, AtWork DEF ReadDisputed, At, PointInv, TurnInv, Carries, CarriesStatus, Proposal
  <2>2. CASE /\ contract[Proposal(w)].status = "disputed"
             /\ Begin(w, [task[w] EXCEPT !.pc = "saveStatus", !.to = "active",
                                         !.current = TRUE])
    <3> DEFINE r == [task[w] EXCEPT !.pc = "saveStatus", !.to = "active", !.current = TRUE]
    <3>1. r.pc = "saveStatus" /\ r.to = "active" /\ r.op = "closeDispute"
          /\ r.proposal = Proposal(w)
      BY <1>1, <2>1 DEF TaskRecord, Proposal
    <3>2. task'[w] = r  BY <1>1, <2>2 DEF Begin
    <3> HIDE DEF r
    <3>3. Carries(r)
      BY <2>1, <2>2, <3>1 DEF Carries, CarriesProposal, CarriesMilestone, CarriesStatus,
                              OnItsWay, Exists
    <3> QED  BY <1>1, <3>2, <3>3, TurnTakes
  <2> QED  BY <1>3, <1>8, <2>2 DEF ReadDisputed
<1> QED  BY <1>5, <1>6, <1>7, <1>8

LEMMA TurnPayment ==
  ASSUME Inv, NEW w \in Workers, TurnInv(w), UNCHANGED hiringVars,
         SetPaid(w) \/ \E p \in Proposals : ConfirmPayment(w, p)
  PROVE  TurnInv(w)'
<1>1. CASE SetPaid(w)
  <2>1. task[w].pc = "setPaid" /\ Done(w)  BY <1>1 DEF SetPaid, At
  <2>2. DocsStay
    BY <1>1 DEF SetPaid, DocsStay, hiringVars, Inv, DocumentsTyped, ContractRecord
  <2> QED  BY <2>1, <2>2, TurnEnds
<1>2. ASSUME NEW p \in Proposals, ConfirmPayment(w, p)  PROVE TurnInv(w)'
  <2> DEFINE r == OnProposal("confirm", "setPaid", p)
  <2>1. "confirm" \in Ops /\ "setPaid" \in Points  BY DEF Ops, Points
  <2>2. OfProposal(r, "confirm", "setPaid", p)  BY <2>1, OnProposalIs
  <2>3. /\ Begin(w, r) /\ At(w, "idle")
        /\ UNCHANGED <<proposal, contract, milestone, dispute>>
    BY <1>2 DEF ConfirmPayment, May, hiringVars
  <2> HIDE DEF r
  <2>4. Carries(r)
    BY <2>2, FreeCarries DEF OfProposal, Free, OnItsWay
  <2> QED  BY <2>3, <2>4, TurnBegins
<1> QED  BY <1>1, <1>2

-----------------------------------------------------------------------------
(* The documents are written, all of one contract.                           *)
Untouched(q) ==
  /\ proposal'[q].status = proposal[q].status /\ contract'[q].status = contract[q].status
  /\ \A m \in Milestones : ProposalOf[m] = q => milestone'[m] = milestone[m]
  /\ \A d \in Disputes :
       /\ dispute'[d].on = q <=> dispute[d].on = q
       /\ dispute[d].on = q => dispute'[d].status = dispute[d].status

LEMMA OthersStay ==
  ASSUME NEW w \in Workers, TurnInv(w), NEW q \in Proposals, q # task[w].proposal,
         Untouched(q)
  PROVE  EngagedInv(task[w], q)'
<1>1. EngagedInv(task[w], q)  BY DEF TurnInv
<1>2. /\ MilestonesOf(q)' = MilestonesOf(q) /\ Unfinished(q)' = Unfinished(q)
      /\ OpenDisputes(q)' = OpenDisputes(q) /\ InProgress(q)' = InProgress(q)
      /\ (Disputed(q)' <=> Disputed(q)) /\ (Exists(q)' <=> Exists(q))
  BY DEF Untouched, MilestonesOf, Unfinished, OpenDisputes, InProgress, Disputed, Exists
<1>3. Settled(q)' <=> Settled(q)  BY <1>2 DEF Settled, Untouched
<1> QED  BY <1>1, <1>2, <1>3 DEF EngagedInv, Saving, Untouched

\* What a write to the contract of the request leaves to be shown.
LEMMA TurnWrites ==
  ASSUME NEW w \in Workers, TurnInv(w), NEW p \in Proposals, p = task[w].proposal,
         \A q \in Proposals \ {p} : Untouched(q),
         EngagedInv(task[w], p)', Carries(task[w])'
  PROVE  TurnInv(w)'
BY OthersStay DEF TurnInv

LEMMA TurnInsertContract ==
  ASSUME Inv, NEW w \in Workers, TurnInv(w), InsertContract(w), UNCHANGED hiringVars,
         NEW p \in Proposals, p = Proposal(w)
  PROVE  TurnInv(w)'
<1>1. /\ task[w].pc = "insertContract" /\ task[w].op \in Funding /\ p \in Proposals
      /\ task[w] \in TaskRecord /\ task \in [Workers -> TaskRecord] /\ DocumentsTyped
      /\ UNCHANGED <<proposal, dispute>>
  BY AtWork DEF InsertContract, At, PointInv, Funding, JobOps, hiringVars, Inv, RequestsInv
<1>2. /\ proposal[p].status = "accepted" /\ EngagedInv(task[w], p)
  BY <1>1 DEF TurnInv, Carries, CarriesProposal, Proposal
<1>3. CASE Exists(p)
  <2>1. Done(w) /\ DocsStay  BY <1>1, <1>3 DEF InsertContract, DocsStay
  <2> QED  BY <1>1, <2>1, TurnEnds
<1>4. CASE ~Exists(p)
  <2>1. PICK ms \in SUBSET {m \in Milestones : ProposalOf[m] = p},
             payment \in {"FUNDED", "PENDING"} :
          /\ contract' = [contract EXCEPT ![p] = [status |-> "pending", payment |-> payment]]
          /\ milestone' = [m \in Milestones |-> IF m \in ms THEN "pending" ELSE milestone[m]]
          /\ IF payment = "FUNDED"
             THEN task' = [task EXCEPT ![w].pc = "fundNext", ![w].left = ms]
             ELSE Done(w)
    BY <1>4 DEF InsertContract
  <2>2. MilestonesOf(p) = {} /\ OpenDisputes(p) = {}
    BY <1>1, <1>2, <1>4 DEF EngagedInv, Settled, Saving, Exists
  <2>3. contract'[p].status = "pending"  BY <1>1, <2>1 DEF DocumentsTyped
  <2>4. \A m \in Milestones : ProposalOf[m] = p => milestone'[m] \in {"none", "pending"}
    BY <2>1, <2>2 DEF MilestonesOf
  <2>5. \A q \in Proposals \ {p} : Untouched(q)
    BY <1>1, <2>1 DEF Untouched, DocumentsTyped
  <2>6. task'[w].pc \in {"fundNext", "idle"} /\ task'[w].op \in Funding \cup {"none"}
    <3>1. CASE Done(w)  BY <1>1, <3>1 DEF Done, Begin, Idle, Request
    <3>2. CASE task' = [task EXCEPT ![w].pc = "fundNext", ![w].left = ms]
      BY <1>1, <3>2 DEF TaskRecord
    <3> QED  BY <2>1, <3>1, <3>2
  <2>7. Free(task'[w])  BY <2>6 DEF Free, OnItsWay
  <2>8. Carries(task[w])'  BY <2>7, FreeCarries
  <2>9. EngagedInv(task[w], p)'
    <3>1. Exists(p)' /\ proposal'[p].status \in Engaged
      BY <1>1, <1>2, <2>3 DEF Exists, Engaged
    <3>2. InProgress(p)' = {}  BY <2>4 DEF InProgress
    <3>3. OpenDisputes(p)' = {}  BY <1>1, <2>2 DEF OpenDisputes
    <3>4. Unfinished(p)' = MilestonesOf(p)'  BY <2>4 DEF Unfinished, MilestonesOf
    <3> QED  BY <2>3, <3>1, <3>2, <3>3, <3>4 DEF EngagedInv
  <2> QED  BY <1>1, <2>5, <2>8, <2>9, TurnWrites DEF Proposal
<1> QED  BY <1>3, <1>4

LEMMA TurnSaveAccepted ==
  ASSUME Inv, NEW w \in Workers, TurnInv(w), SaveAccepted(w), UNCHANGED hiringVars,
         NEW p \in Proposals, p = Proposal(w)
  PROVE  TurnInv(w)'
<1>1. /\ task[w].pc = "saveAccepted" /\ task[w].op = "accept" /\ p \in Proposals
      /\ task[w] \in TaskRecord /\ task \in [Workers -> TaskRecord] /\ DocumentsTyped
      /\ UNCHANGED <<proposal, dispute, milestone>>
  BY AtWork DEF SaveAccepted, At, PointInv, JobOps, hiringVars, Inv, RequestsInv
<1>2. contract[p].status = "pending" /\ EngagedInv(task[w], p)
  BY <1>1 DEF TurnInv, Carries, CarriesStatus, Proposal
<1>3. contract'[p].status = "active" /\ \A q \in Proposals \ {p} : contract'[q] = contract[q]
  BY <1>1 DEF SaveAccepted, SetStatus, DocumentsTyped, ContractRecord
<1>4. \A q \in Proposals \ {p} : Untouched(q)  BY <1>1, <1>3 DEF Untouched
<1>5. "fundNext" \in Points /\ Go(w, "fundNext")  BY DEF SaveAccepted, Points
<1>6. task'[w].pc = "fundNext" /\ task'[w].op = "accept"
  BY <1>1, <1>5, Goes, MovedIs DEF Becomes
<1>7. Free(task'[w])  BY <1>6 DEF Free, OnItsWay
<1>8. Carries(task[w])'  BY <1>7, FreeCarries
<1>9. EngagedInv(task[w], p)'
  <2>1. Exists(p) /\ Exists(p)'  BY <1>2, <1>3 DEF Exists
  <2>2. /\ MilestonesOf(p)' = MilestonesOf(p) /\ Unfinished(p)' = Unfinished(p)
        /\ OpenDisputes(p)' = OpenDisputes(p) /\ InProgress(p)' = InProgress(p)
        /\ Disputed(p)' <=> Disputed(p)
    BY <1>1 DEF MilestonesOf, Unfinished, OpenDisputes, InProgress, Disputed
  <2>3. ~Settled(p)  BY <1>2 DEF Settled
  <2> QED
    BY <1>1, <1>2, <1>3, <2>1, <2>2, <2>3 DEF EngagedInv, Saving, Underway
<1> QED  BY <1>1, <1>4, <1>8, <1>9, TurnWrites DEF Proposal

LEMMA TurnPushMilestone ==
  ASSUME Inv, NEW w \in Workers, TurnInv(w), PushMilestone(w), UNCHANGED hiringVars,
         NEW p \in Proposals, p = Proposal(w), NEW m, m = Milestone(w)
  PROVE  TurnInv(w)'
<1>1. /\ task[w].pc = "pushMilestone" /\ task[w].op \in Funding /\ p \in Proposals
      /\ m \in Milestones
      /\ task[w] \in TaskRecord /\ task \in [Workers -> TaskRecord] /\ DocumentsTyped
      /\ UNCHANGED <<proposal, dispute, contract>>
  BY AtWork DEF PushMilestone, At, PointInv, JobOps, Funding, hiringVars, Inv, RequestsInv,
                Milestone
<1>2. /\ contract[p].status \in {"pending", "active"} /\ EngagedInv(task[w], p)
      /\ ProposalOf[m] = p
  BY <1>1 DEF TurnInv, Carries, CarriesMilestone, Proposal, Milestone
<1>3. CASE Done(w) /\ UNCHANGED milestone
  <2>1. DocsStay  BY <1>1, <1>3 DEF DocsStay
  <2> QED  BY <1>1, <1>3, <2>1, TurnEnds
<1>4. CASE /\ milestone[m] = "none" /\ SetMilestone(m, "pending")
           /\ Outdate(w, [task[w] EXCEPT !.pc = "fundNext"])
  <2>1. /\ milestone'[m] = "pending"
        /\ \A n \in Milestones \ {m} : milestone'[n] = milestone[n]
    BY <1>1, <1>4 DEF SetMilestone, DocumentsTyped
  <2>2. \A q \in Proposals \ {p} : Untouched(q)
    BY <1>1, <1>2, <2>1 DEF Untouched
  <2>3. "fundNext" \in Points  BY DEF Points
  <2>4. task'[w].pc = "fundNext" /\ task'[w].op \in Funding
    <3>1. Outdate(w, Moved(w, "fundNext"))  BY <1>4 DEF Moved
    <3>2. Becomes(w, Moved(w, "fundNext"))  BY <1>1, <2>3, <3>1, Outdates, MovedIs
    <3> QED  BY <1>1, <2>3, <3>2, MovedIs DEF Becomes
  <2>5. Free(task'[w])  BY <2>4 DEF Free, OnItsWay
  <2>6. Carries(task[w])'  BY <2>5, FreeCarries
  <2>7. EngagedInv(task[w], p)'
    <3>1. Exists(p) /\ Exists(p)'  BY <1>1, <1>2 DEF Exists
    <3>2. OpenDisputes(p)' = OpenDisputes(p) /\ InProgress(p)' = InProgress(p)
      BY <1>1, <1>4, <2>1 DEF OpenDisputes, InProgress
    <3>3. m \in Unfinished(p)'  BY <1>1, <1>2, <2>1 DEF Unfinished, MilestonesOf
    <3>4. ~Settled(p)  BY <1>2 DEF Settled
    <3> QED
      BY <1>1, <1>2, <3>1, <3>2, <3>3, <3>4 DEF EngagedInv, Saving
  <2> QED  BY <1>1, <2>2, <2>6, <2>7, TurnWrites DEF Proposal
<1> QED  BY <1>3, <1>4 DEF PushMilestone

LEMMA TurnSaveStatus ==
  ASSUME Inv, NEW w \in Workers, TurnInv(w), SaveStatus(w), UNCHANGED hiringVars,
         NEW p \in Proposals, p = Proposal(w)
  PROVE  TurnInv(w)'
<1> DEFINE op == task[w].op
           to == task[w].to
<1>1. /\ task[w].pc = "saveStatus" /\ p \in Proposals /\ to \in ContractStatuses
      /\ task[w] \in TaskRecord /\ task \in [Workers -> TaskRecord] /\ DocumentsTyped
      /\ UNCHANGED <<proposal, dispute, milestone>>
  BY AtWork DEF SaveStatus, At, PointInv, hiringVars, Inv, RequestsInv, Proposal
<1>2. /\ EngagedInv(task[w], p) /\ Exists(p)
      /\ CASE op = "approve" -> Unfinished(p) = {}
           [] op = "openDispute" -> to = "disputed"
           [] op = "closeDispute" -> to = "active" /\ OpenDisputes(p) = {}
           [] op = "close" -> to = "closed" /\ contract[p].status = "completed"
           [] OTHER -> to # "closed" /\ contract[p].status \in Underway
  BY <1>1 DEF TurnInv, Carries, CarriesStatus, Proposal
<1>3. /\ op = "approve" => to = "completed"
      /\ op = "closeDispute" => Disputed(p)
  BY AtWork DEF RequestInv, Approving, Justified, Disputed, Proposal
<1>4. contract'[p].status = to /\ \A q \in Proposals \ {p} : contract'[q] = contract[q]
  BY <1>1 DEF SaveStatus, SetStatus, DocumentsTyped, ContractRecord
<1>5. \A q \in Proposals \ {p} : Untouched(q)  BY <1>1, <1>4 DEF Untouched
<1>6. /\ task'[w].pc \in {"markJob", "markProposalClosed", "listEscrows", "idle"}
      /\ task'[w].pc = "markJob" => task'[w].op # "accept"
      /\ op = "close" => task'[w].pc = "markProposalClosed" /\ task'[w].proposal = p
  <2>1. ASSUME NEW pc \in {"markProposalClosed", "listEscrows"}, Go(w, pc)
        PROVE  task'[w].pc = pc /\ task'[w].proposal = p
    <3>1. pc \in Points  BY DEF Points
    <3> QED  BY <1>1, <2>1, <3>1, Goes, MovedIs DEF Becomes, Proposal
  <2>2. ASSUME Outdate(w, Idle) \/ Done(w)  PROVE task'[w].pc = "idle"
    BY <1>1, <2>2 DEF Outdate, Done, Begin, Idle, Request
  <2>3. \/ /\ op \in {"approve", "approveWork", "complete"}
           /\ Begin(w, [task[w] EXCEPT !.pc = "markJob", !.to = "completed"])
        \/ /\ op = "startContract"
           /\ Begin(w, [task[w] EXCEPT !.pc = "markJob", !.to = "in-progress"])
        \/ op = "close" /\ Go(w, "markProposalClosed")
        \/ op = "openDispute" /\ Go(w, "listEscrows")
        \/ op # "close" /\ (Outdate(w, Idle) \/ Done(w))
    BY DEF SaveStatus
  <2>4. CASE \/ /\ op \in {"approve", "approveWork", "complete"}
                /\ Begin(w, [task[w] EXCEPT !.pc = "markJob", !.to = "completed"])
             \/ /\ op = "startContract"
                /\ Begin(w, [task[w] EXCEPT !.pc = "markJob", !.to = "in-progress"])
    <3>1. CASE Begin(w, [task[w] EXCEPT !.pc = "markJob", !.to = "completed"])
      <4>1. task'[w].pc = "markJob" /\ task'[w].op = op
        BY <1>1, <3>1 DEF Begin, TaskRecord
      <4> QED  BY <2>4, <4>1
    <3>2. CASE Begin(w, [task[w] EXCEPT !.pc = "markJob", !.to = "in-progress"])
      <4>1. task'[w].pc = "markJob" /\ task'[w].op = op
        BY <1>1, <3>2 DEF Begin, TaskRecord
      <4> QED  BY <2>4, <4>1
    <3> QED  BY <2>4, <3>1, <3>2
  <2>5. CASE op = "close" /\ Go(w, "markProposalClosed")  BY <2>1, <2>5
  <2>6. CASE op = "openDispute" /\ Go(w, "listEscrows")  BY <2>1, <2>6
  <2>7. CASE op # "close" /\ (Outdate(w, Idle) \/ Done(w))  BY <2>2, <2>7
  <2> QED  BY <2>3, <2>4, <2>5, <2>6, <2>7
<1>7. Free(task'[w])  BY <1>6 DEF Free, OnItsWay
<1>8. Carries(task[w])'  BY <1>7, FreeCarries
<1>9. EngagedInv(task[w], p)'
  <2>1. Exists(p)'  BY <1>1, <1>4 DEF Exists, ContractStatuses
  <2>2. /\ MilestonesOf(p)' = MilestonesOf(p) /\ Unfinished(p)' = Unfinished(p)
        /\ OpenDisputes(p)' = OpenDisputes(p) /\ InProgress(p)' = InProgress(p)
        /\ Disputed(p)' <=> Disputed(p)
    BY <1>1 DEF MilestonesOf, Unfinished, OpenDisputes, InProgress, Disputed
  <2>3. to = "closed" => op = "close"  BY <1>2, <1>3
  <2>4. OpenDisputes(p) # {} => Settled(p)'
    <3>1. CASE op = "approve"  BY <1>2, <1>3, <1>4, <2>2, <3>1 DEF Settled
    <3>2. CASE op = "openDispute"  BY <1>2, <1>4, <3>2 DEF Settled
    <3>3. CASE op = "closeDispute"  BY <1>2, <3>3
    <3>4. CASE op = "close"
      BY <1>2, <1>4, <2>2, <3>4 DEF Settled, EngagedInv, Saving
    <3>5. CASE op \notin {"approve", "openDispute", "closeDispute", "close"}
      BY <1>2, <3>5 DEF Settled, EngagedInv, Saving, Underway
    <3> QED  BY <3>1, <3>2, <3>3, <3>4, <3>5
  <2>5. to \in Underway /\ MilestonesOf(p) # {} => Unfinished(p) # {} \/ Disputed(p)
    <3>1. CASE op = "closeDispute"  BY <1>3, <3>1
    <3>2. CASE op \in {"approve", "openDispute", "close"}
      BY <1>2, <1>3, <3>2 DEF Underway
    <3>3. CASE op \notin {"approve", "openDispute", "closeDispute", "close"}
      BY <1>2, <3>3 DEF EngagedInv, Saving
    <3> QED  BY <3>1, <3>2, <3>3
  <2> HIDE DEF op, to
  <2> QED
    BY <1>1, <1>2, <1>4, <1>6, <2>1, <2>2, <2>3, <2>4, <2>5 DEF EngagedInv
<1> QED  BY <1>1, <1>5, <1>8, <1>9, TurnWrites DEF Proposal

LEMMA TurnSaveMilestone ==
  ASSUME Inv, NEW w \in Workers, TurnInv(w), SaveMilestone(w), UNCHANGED hiringVars,
         NEW m \in Milestones, m = Milestone(w), NEW p \in Proposals, p = Proposal(w)
  PROVE  TurnInv(w)'
<1> DEFINE op == task[w].op
           to == task[w].to
<1>1. /\ task[w].pc = "saveMilestone" /\ op \in OfMilestone /\ ProposalOf[m] = p
      /\ task[w] \in TaskRecord /\ task \in [Workers -> TaskRecord] /\ DocumentsTyped
      /\ op = "approve" => to = "completed"
      /\ op = "start" => to \in {"none", "in_progress"}
      /\ UNCHANGED <<proposal, contract, dispute>>
  BY AtWork DEF SaveMilestone, At, PointInv, RequestInv, Approving, OfMilestone, hiringVars,
                Inv, RequestsInv, Milestone, Proposal
<1>2. /\ EngagedInv(task[w], p) /\ milestone[m] \notin {"none", "completed"}
      /\ op = "approve" => task[w].left = Unfinished(p) \ {m}
      /\ op = "submit" => to = "in_review"
      /\ op = "revise" => to = "revision_requested"
      /\ op = "start" /\ to = "in_progress" => InProgress(p) \subseteq {m}
  <2>1. CarriesMilestone(task[w]) /\ EngagedInv(task[w], p)  BY DEF TurnInv, Carries
  <2> QED  BY <1>1, <2>1 DEF CarriesMilestone, OnItsWay, Milestone, Proposal
<1>3. CASE Done(w) /\ UNCHANGED milestone
  <2>1. DocsStay  BY <1>1, <1>3 DEF DocsStay
  <2> QED  BY <1>1, <1>3, <2>1, TurnEnds
<1>4. CASE SetMilestone(m, to) /\ to # "none"
  <2>1. /\ milestone'[m] = to
        /\ \A n \in Milestones \ {m} : milestone'[n] = milestone[n]
    BY <1>1, <1>4 DEF SetMilestone, DocumentsTyped
  <2>2. \A q \in Proposals \ {p} : Untouched(q)  BY <1>1, <2>1 DEF Untouched
  <2>3. /\ MilestonesOf(p)' = MilestonesOf(p) /\ OpenDisputes(p)' = OpenDisputes(p)
        /\ (Disputed(p)' <=> Disputed(p)) /\ (Exists(p)' <=> Exists(p))
    BY <1>1, <1>2, <1>4, <2>1 DEF MilestonesOf, OpenDisputes, Disputed, Exists
  <2>4. /\ to # "completed" => m \in Unfinished(p)'
        /\ to = "completed" => Unfinished(p)' = Unfinished(p) \ {m}
        /\ m \in Unfinished(p)
    BY <1>1, <1>2, <1>4, <2>1, <2>3 DEF Unfinished, MilestonesOf
  <2>5. Exists(p)  BY <1>2, <2>4 DEF EngagedInv, Unfinished
  <2>6. Settled(p) => Settled(p)'  BY <1>1, <2>4 DEF Settled
  <2>7. \A k \in InProgress(p)', n \in InProgress(p)' : k = n
    <3>1. CASE to = "in_progress"
      BY <1>1, <1>2, <2>1, <3>1 DEF InProgress, OfMilestone
    <3>2. CASE to # "in_progress"
      <4>1. InProgress(p)' \subseteq InProgress(p)  BY <1>1, <2>1, <3>2 DEF InProgress
      <4> QED  BY <1>2, <4>1 DEF EngagedInv
    <3> QED  BY <3>1, <3>2
  <2>8. ASSUME EngagedInv(task[w], p)', Carries(task[w])'  PROVE TurnInv(w)'
    BY <1>1, <2>2, <2>8, TurnWrites DEF Proposal
  <2>9. CASE op = "approve" /\ task[w].left = {} /\ Go(w, "saveStatus")
    <3>1. "saveStatus" \in Points  BY DEF Points
    <3>2. task'[w].pc = "saveStatus" /\ task'[w].op = "approve" /\ task'[w].proposal = p
      BY <1>1, <2>9, <3>1, Goes, MovedIs DEF Becomes, Proposal
    <3>3. Unfinished(p)' = {}  BY <1>1, <1>2, <2>4, <2>9
    <3>4. Carries(task[w])'
      BY <2>3, <2>5, <3>2, <3>3
         DEF Carries, CarriesProposal, CarriesMilestone, CarriesStatus, OnItsWay
    <3>5. EngagedInv(task[w], p)'
      BY <1>1, <1>2, <2>3, <2>6, <2>7, <3>2 DEF EngagedInv, Saving
    <3> QED  BY <2>8, <3>4, <3>5
  <2>10. CASE /\ op = "approve" => task[w].left # {}
              /\ Outdate(w, Idle) \/ Done(w)
    <3>1. task'[w] = Idle
      BY <1>1, <2>10 DEF Outdate, Done, Begin
    <3>2. Carries(task[w])'  BY <3>1, FreeIdle, FreeCarries
    <3>3. Unfinished(p)' # {}  BY <1>1, <1>2, <2>4, <2>10 DEF OfMilestone
    <3>4. EngagedInv(task[w], p)'
      BY <1>1, <1>2, <2>3, <2>6, <2>7, <3>3 DEF EngagedInv, Saving
    <3> QED  BY <2>8, <3>2, <3>4
  <2> QED  BY <1>3, <1>4, <2>9, <2>10 DEF SaveMilestone, SetMilestone
<1> QED  BY <1>3, <1>4 DEF SaveMilestone

LEMMA TurnInsertDispute ==
  ASSUME Inv, NEW w \in Workers, TurnInv(w), InsertDispute(w), UNCHANGED hiringVars,
         NEW p \in Proposals, p = Proposal(w)
  PROVE  TurnInv(w)'
<1> DEFINE to == task[w].to
<1>1. PICK d \in Disputes : d = task[w].dispute
  BY AtWork DEF InsertDispute, At, PointInv
<1>2. /\ task[w].pc = "insertDispute" /\ task[w].op = "openDispute"
      /\ task[w] \in TaskRecord /\ task \in [Workers -> TaskRecord] /\ DocumentsTyped
      /\ UNCHANGED <<proposal, contract, milestone>>
  BY AtWork DEF InsertDispute, At, PointInv, hiringVars, Inv, RequestsInv
<1>3. /\ EngagedInv(task[w], p) /\ Exists(p) /\ to \in {"none", "disputed"}
      /\ to = "none" => contract[p].status = "disputed"
  BY <1>2 DEF TurnInv, Carries, CarriesStatus, Proposal
<1>4. CASE Done(w) /\ UNCHANGED dispute
  <2>1. DocsStay  BY <1>2, <1>4 DEF DocsStay
  <2> QED  BY <1>2, <1>4, <2>1, TurnEnds
<1>5. CASE /\ dispute[d].status = "none"
           /\ dispute' = [dispute EXCEPT ![d] = [status |-> "OPEN", on |-> p]]
           /\ Go(w, IF to = "disputed" THEN "saveStatus" ELSE "listEscrows")
  <2>1. /\ dispute'[d] = [status |-> "OPEN", on |-> p] /\ dispute[d].on \notin Proposals
        /\ \A e \in Disputes \ {d} : dispute'[e] = dispute[e]
    BY <1>2, <1>5 DEF DocumentsTyped, Inv, WorkInv
  <2>2. \A q \in Proposals \ {p} : Untouched(q)  BY <1>2, <2>1 DEF Untouched
  <2> DEFINE pc == IF to = "disputed" THEN "saveStatus" ELSE "listEscrows"
  <2>3. pc \in Points /\ Go(w, pc)  BY <1>5 DEF Points
  <2>4. /\ task'[w].pc = pc /\ task'[w].op = "openDispute" /\ task'[w].proposal = p
        /\ task'[w].to = to
    <3> HIDE DEF pc
    <3> QED  BY <1>2, <2>3, Goes, MovedIs DEF Becomes, Proposal
  <2>5. Exists(p)'  BY <1>2, <1>3 DEF Exists
  <2>6. Carries(task[w])'
    BY <1>3, <2>4, <2>5
       DEF Carries, CarriesProposal, CarriesMilestone, CarriesStatus, OnItsWay, OfMilestone
  <2>7. EngagedInv(task[w], p)'
    <3>1. /\ MilestonesOf(p)' = MilestonesOf(p) /\ Unfinished(p)' = Unfinished(p)
          /\ InProgress(p)' = InProgress(p)
      BY <1>2 DEF MilestonesOf, Unfinished, InProgress
    <3>2. Disputed(p)'  BY <2>1 DEF Disputed
    <3>3. to # "disputed" => Settled(p)'  BY <1>2, <1>3 DEF Settled
    <3> QED
      BY <1>2, <1>3, <2>4, <2>5, <3>1, <3>2, <3>3 DEF EngagedInv, Saving
  <2> QED  BY <1>2, <2>2, <2>6, <2>7, TurnWrites DEF Proposal
<1> QED  BY <1>1, <1>4, <1>5 DEF InsertDispute

LEMMA TurnSaveDispute ==
  ASSUME Inv, NEW w \in Workers, TurnInv(w), SaveDispute(w), UNCHANGED hiringVars,
         NEW p \in Proposals, p = Proposal(w)
  PROVE  TurnInv(w)'
<1>1. PICK d \in Disputes : d = task[w].dispute
  BY AtWork DEF SaveDispute, At, PointInv, RequestInv
<1>2. /\ task[w].pc = "saveDispute" /\ dispute[d].on = p
      /\ task \in [Workers -> TaskRecord] /\ DocumentsTyped
      /\ UNCHANGED <<proposal, contract, milestone>>
      /\ task[w].op = "closeDispute"
  BY <1>1, AtWork DEF SaveDispute, At, PointInv, Justified, hiringVars, Inv, RequestsInv,
                      Proposal
<1>3. task[w].to # "OPEN" /\ EngagedInv(task[w], p)
  BY <1>2 DEF TurnInv, Carries, CarriesStatus
<1>4. /\ dispute'[d].status # "OPEN" /\ dispute'[d].on = p
      /\ \A e \in Disputes \ {d} : dispute'[e] = dispute[e]
  BY <1>1, <1>2, <1>3 DEF SaveDispute, DocumentsTyped, DisputeRecord
<1>5. \A q \in Proposals \ {p} : Untouched(q)  BY <1>2, <1>4 DEF Untouched
<1>6. "countOpen" \in Points /\ Go(w, "countOpen")  BY DEF SaveDispute, Points
<1>7. task'[w].pc = "countOpen"  BY <1>2, <1>6, Goes, MovedIs DEF Becomes
<1>8. Free(task'[w])  BY <1>7 DEF Free, OnItsWay
<1>9. Carries(task[w])'  BY <1>8, FreeCarries
<1>10. EngagedInv(task[w], p)'
  <2>1. /\ MilestonesOf(p)' = MilestonesOf(p) /\ Unfinished(p)' = Unfinished(p)
        /\ InProgress(p)' = InProgress(p)
        /\ (Exists(p)' <=> Exists(p)) /\ (Settled(p)' <=> Settled(p))
    BY <1>2 DEF MilestonesOf, Unfinished, InProgress, Exists, Settled
  <2>2. OpenDisputes(p)' \subseteq OpenDisputes(p)  BY <1>4 DEF OpenDisputes
  <2>3. Disputed(p)'  BY <1>4 DEF Disputed
  <2> QED
    BY <1>2, <1>3, <2>1, <2>2, <2>3 DEF EngagedInv, Saving
<1> QED  BY <1>2, <1>5, <1>9, <1>10, TurnWrites DEF Proposal

-----------------------------------------------------------------------------
LEMMA TurnInit ==
  ASSUME NEW w \in Workers, Init
  PROVE  TurnInv(w)
<1>1. task[w] = Idle  BY DEF Init
<1>2. Carries(task[w])  BY <1>1, FreeIdle, FreeCarries
<1>3. ASSUME NEW p \in Proposals  PROVE EngagedInv(task[w], p)
  <2>1. /\ ~Exists(p) /\ MilestonesOf(p) = {} /\ InProgress(p) = {} /\ ~Disputed(p)
        /\ contract[p].status = "none" /\ OpenDisputes(p) = {}
    BY DEF Init, Exists, MilestonesOf, InProgress, Disputed, OpenDisputes
  <2> QED  BY <2>1 DEF EngagedInv, Underway
<1> QED  BY <1>2, <1>3 DEF TurnInv

LEMMA TurnContractStep ==
  ASSUME Inv, NEW w \in Workers, Sequential(w), TurnInv(w), ContractStep(w),
         UNCHANGED hiringVars
  PROVE  TurnInv(w)'
<1> SUFFICES ASSUME NEW p, p = Proposal(w), NEW m, m = Milestone(w)  PROVE TurnInv(w)'
  OBVIOUS
<1>1. ASSUME NEW q \in Proposals,
             \/ Hire(w, q) \/ Accept(w, q) \/ RequestStatus(w, q) \/ StartContract(w, q)
             \/ ApproveWork(w, q) \/ \E d \in Disputes : OpenDispute(w, q, d)
      PROVE  TurnInv(w)'
  BY <1>1, TurnBeginContract
<1>2. ASSUME NEW n \in Milestones,
             \/ AddMilestone(w, n) \/ FundMilestone(w, n) \/ Start(w, n) \/ Submit(w, n)
             \/ Approve(w, n) \/ RequestMilestoneRevision(w, n)
      PROVE  TurnInv(w)'
  BY <1>2, TurnBeginMilestone
<1>3. ASSUME NEW d \in Disputes, CloseDispute(w, d)  PROVE TurnInv(w)'
  BY <1>3, TurnCloseDispute
<1>4. ~Crash(w) /\ \A d \in Disputes : ~UpdateDisputeStatus(w, d)
  BY DEF Sequential, Crash, UpdateDisputeStatus, May
<1>5. ASSUME SetPaid(w) \/ \E q \in Proposals : ConfirmPayment(w, q)  PROVE TurnInv(w)'
  BY <1>5, TurnPayment
<1>6. ASSUME \/ FundNext(w) \/ Lock(w) \/ Claim(w) \/ ReadEscrow(w) \/ Release(w)
             \/ Pay(w) \/ SaveReleased(w)
      PROVE  TurnInv(w)'
  BY <1>6, TurnFunding, TurnReleasing
<1>7. ASSUME ListEscrows(w) \/ FreezeNext(w) \/ CountOpen(w) \/ ReadDisputed(w)
      PROVE  TurnInv(w)'
  BY <1>7, TurnLooking
<1>8. ASSUME InsertContract(w) \/ SaveAccepted(w) \/ PushMilestone(w) \/ SaveStatus(w)
      PROVE  TurnInv(w)'
  <2>1. p \in Proposals
    BY <1>8, AtWork DEF InsertContract, SaveAccepted, PushMilestone, SaveStatus, At, PointInv,
                        JobOps, Funding, Proposal
  <2>2. ASSUME PushMilestone(w)  PROVE TurnInv(w)'
    BY <2>1, <2>2, TurnPushMilestone
  <2> QED
    BY <1>8, <2>1, <2>2, TurnInsertContract, TurnSaveAccepted, TurnSaveStatus
<1>9. ASSUME SaveMilestone(w)  PROVE TurnInv(w)'
  <2>1. p \in Proposals /\ m \in Milestones
    BY <1>9, AtWork DEF SaveMilestone, At, PointInv, RequestInv, JobOps, OfMilestone,
                        Milestone
  <2> QED  BY <1>9, <2>1, TurnSaveMilestone
<1>10. ASSUME InsertDispute(w) \/ SaveDispute(w)  PROVE TurnInv(w)'
  <2>1. p \in Proposals
    BY <1>10, AtWork DEF InsertDispute, SaveDispute, At, PointInv, JobOps
  <2> QED  BY <1>10, <2>1, TurnInsertDispute, TurnSaveDispute
<1> QED
  BY <1>1, <1>2, <1>3, <1>4, <1>5, <1>6, <1>7, <1>8, <1>9, <1>10 DEF ContractStep

LEMMA TurnNext ==
  ASSUME NEW w, Sequential(w)
  PROVE  Inv /\ TurnInv(w) /\ [Next]_vars => TurnInv(w)'
<1> SUFFICES ASSUME Inv, TurnInv(w), [Next]_vars  PROVE TurnInv(w)'
  OBVIOUS
<1>1. w \in Workers /\ \A v \in Workers : v = w  BY DEF Sequential
<1>2. CASE UNCHANGED vars  BY <1>1, <1>2, TurnStill DEF vars
<1>3. ASSUME JobStep(w), UNCHANGED contractVars  PROVE TurnInv(w)'
  BY <1>1, <1>3, TurnJobRequest, TurnJobCall DEF JobStep
<1>4. ASSUME ProposalStep(w), UNCHANGED contractVars  PROVE TurnInv(w)'
  BY <1>1, <1>4, TurnProposalRequest, TurnProposalCall, TurnMarkProposalClosed
     DEF ProposalStep
<1>5. ASSUME ContractStep(w), UNCHANGED hiringVars  PROVE TurnInv(w)'
  BY <1>1, <1>5, TurnContractStep
<1>6. ASSUME NEW k \in Keys, SettleEscrow(k), UNCHANGED hiringVars  PROVE TurnInv(w)'
  BY <1>1, <1>6, TurnStill DEF SettleEscrow, hiringVars
<1> QED  BY <1>1, <1>2, <1>3, <1>4, <1>5, <1>6 DEF Next

LEMMA TurnAlways ==
  ASSUME NEW w, Sequential(w)
  PROVE  Spec => []TurnInv(w)
<1>1. Init => TurnInv(w)
  <2>1. w \in Workers  BY DEF Sequential
  <2> QED  BY <2>1, TurnInit
<1>2. Inv /\ TurnInv(w) /\ [Next]_vars => TurnInv(w)'  BY TurnNext
<1> QED  BY <1>1, <1>2, InitInv, NextInv, PTL DEF Spec

\* Of requests that do not overlap, at most one milestone of a contract is in
\* progress (startMilestone).
THEOREM OneInProgressInTurn ==
  ASSUME NEW w, Sequential(w)
  PROVE  Spec => []OneInProgress
<1>1. TurnInv(w) => OneInProgress
  <2> SUFFICES ASSUME TurnInv(w), NEW m \in Milestones, NEW n \in Milestones,
                      ProposalOf[m] = ProposalOf[n],
                      milestone[m] = "in_progress", milestone[n] = "in_progress"
               PROVE  m = n
    BY DEF OneInProgress
  <2>1. ProposalOf[m] \in Proposals  OBVIOUS
  <2> QED  BY <2>1 DEF TurnInv, EngagedInv, InProgress
<1> QED  BY <1>1, TurnAlways, PTL

\* Of requests that do not overlap, an open dispute keeps its contract
\* disputed, unless its last milestone is approved meanwhile (createDispute,
\* resolveDispute, rejectDispute).
THEOREM DisputedInTurn ==
  ASSUME NEW w, Sequential(w)
  PROVE  Spec => []DisputedWhileOpen
<1>1. TurnInv(w) => DisputedWhileOpen
  <2>1. w \in Workers  BY DEF Sequential
  <2> QED
    BY <2>1 DEF TurnInv, EngagedInv, DisputedWhileOpen, Quiet, At, Saving, Settled
<1> QED  BY <1>1, TurnAlways, PTL

\* Of requests that do not overlap, the proposal and the milestones of an
\* engagement follow its contract.
THEOREM DocumentsFollowInTurn ==
  ASSUME NEW w, Sequential(w)
  PROVE  Spec => []DocumentsFollow
<1>1. TurnInv(w) => DocumentsFollow
  <2>1. w \in Workers  BY DEF Sequential
  <2> QED
    BY <2>1 DEF TurnInv, EngagedInv, DocumentsFollow, Quiet, At, Saving, Disputed, Engaged,
                Underway
<1> QED  BY <1>1, TurnAlways, PTL
-----------------------------------------------------------------------------
(* Moderation: requests in turn, of clients, freelancers and admins, none  *)
(* of which loses the sweep of a closing job.  BooksOK compares a job's    *)
(* proposalsCount with the proposals that bear on it, those a suspension   *)
(* withdrew among them; the request at work may owe it one (Owed).  Finds  *)
(* says what the request still finds as it read it.                        *)
AskedOps == {"none", "viewJob", "updateJob", "updateJobStatus", "closeJob",
             "deleteJob", "apply", "edit", "withdraw", "acceptProposal",
             "rejectProposal", "approveJob", "rejectJob", "flagJob",
             "adminDelete", "suspend", "activate"}
JobPoints == {"findContract", "sweep", "saveJob", "removeJob", "saveDeleted"}
Applying == {"readJob", "findEarlier", "deleteEarlier", "insert", "countUp"}
Deciding == {"saveEdited", "saveDecision", "countDown", "rejectOthers"}
UserPoints == {"withdrawAll", "bringBack"}
AskedRecord ==
  [op : AskedOps,
   pc : {"idle"} \cup JobPoints \cup Applying \cup Deciding \cup UserPoints,
   job : Jobs \cup {None}, proposal : Proposals \cup {None},
   other : Proposals \cup {None}, to : JobStatuses \cup {"none"},
   milestone : {None}, left : {{}}, user : Freelancers \cup {None},
   dispute : {None}, current : {TRUE}]

Asks(t) ==
  /\ t.pc \in JobPoints => t.job \in Jobs
  /\ t.pc \in {"findContract", "sweep"} => t.to = "closed"
  /\ t.pc = "saveJob" => t.to \in JobStatuses
  /\ t.pc \in Applying \cup Deciding =>
       t.proposal \in Proposals /\ t.job = JobOf[t.proposal]
  /\ t.pc = "saveDecision" => t.op \in {"withdraw", "acceptProposal", "rejectProposal"}
  /\ t.pc \in UserPoints => t.user \in Freelancers

\* What keeps a job from being deleted, and is counted.
Halted(p) == p \in suspended /\ proposal[p].status = "withdrawn"
Stands(p) == Live(p) \/ Halted(p)
BearingOn(j) == {p \in Proposals : JobOf[p] = j /\ Stands(p)}

Finds(t) ==
  /\ t.pc = "saveJob" /\ t.to = "closed" => Pending(t.job) = {}
  /\ t.pc = "saveDeleted" => BearingOn(t.job) = {}
  /\ t.pc \in Applying => FreelancerOf[t.proposal] \notin inactive
  /\ t.pc \in Applying \ {"readJob"} => job[t.job].status = "open" /\ ~job[t.job].deleted
  /\ t.pc = "deleteEarlier" =>
       /\ t.other \in Proposals /\ proposal[t.other].status = "withdrawn"
       /\ FreelancerOf[t.other] = FreelancerOf[t.proposal]
  /\ t.pc = "saveDecision" => proposal[t.proposal].status = "pending"
  /\ t.pc = "withdrawAll" => t.user \in inactive

Owed(t, j) == IF t.job # j THEN 0
              ELSE IF t.pc = "countUp" THEN -1
              ELSE IF t.pc = "countDown" THEN 1 ELSE 0
BooksOK(t, j) ==
  /\ job[j].status = "none" => job[j].proposals = 0 /\ BearingOn(j) = {}
  /\ JobExists(j) => job[j].proposals = Cardinality(BearingOn(j)) + Owed(t, j)
  /\ job[j].deleted => BearingOn(j) = {}

\* What a suspension withdrew stays so until its freelancer is activated.
HaltedOK(t, p) == p \in suspended =>
  /\ proposal[p].status \in {"withdrawn", "DELETED"}
  /\ proposal[p].status = "withdrawn" =>
       \/ FreelancerOf[p] \in inactive
       \/ t.pc = "bringBack" /\ t.user = FreelancerOf[p]
PendingOK(p) == proposal[p].status = "pending" =>
  job[JobOf[p]].status # "closed" \/ p \in revived

MarketTyped ==
  /\ job \in [Jobs -> JobRecord]
  /\ proposal \in [Proposals -> ProposalRecord]
  /\ task \in [Workers -> AskedRecord]
  /\ suspended \subseteq Proposals
ModerationInv(w) ==
  /\ MarketTyped
  /\ Asks(task[w]) /\ Finds(task[w])
  /\ \A j \in Jobs : BooksOK(task[w], j)
  /\ \A p \in Proposals : HaltedOK(task[w], p) /\ PendingOK(p)

-----------------------------------------------------------------------------
\* What becomes of the request.
LEMMA AskedGoes ==
  ASSUME MarketTyped, NEW w \in Workers, NEW pc, Go(w, pc),
         pc \in JobPoints \cup Applying \cup Deciding \cup UserPoints
  PROVE  /\ task' \in [Workers -> AskedRecord]
         /\ task'[w].pc = pc /\ task'[w].op = task[w].op
         /\ task'[w].job = task[w].job /\ task'[w].proposal = task[w].proposal
         /\ task'[w].other = task[w].other /\ task'[w].to = task[w].to
         /\ task'[w].user = task[w].user
<1>1. PICK t \in AskedRecord : t = task[w]  BY DEF MarketTyped
<1>2. PICK r : r = [t EXCEPT !.pc = pc]  OBVIOUS
<1>3. /\ r \in AskedRecord /\ r.pc = pc /\ r.op = t.op /\ r.job = t.job
      /\ r.proposal = t.proposal /\ r.other = t.other /\ r.to = t.to
      /\ r.user = t.user
  BY <1>2 DEF AskedRecord
<1>4. task' = [task EXCEPT ![w] = r]  BY <1>1, <1>2 DEF Go
<1>5. task' \in [Workers -> AskedRecord] /\ task'[w] = r
  BY <1>3, <1>4 DEF MarketTyped
<1> QED  BY <1>1, <1>3, <1>5

LEMMA AskedIs ==
  ASSUME NEW op \in AskedOps,
         NEW pc \in {"idle"} \cup JobPoints \cup Applying \cup Deciding \cup UserPoints
  PROVE  /\ Request(op, pc) \in AskedRecord
         /\ Request(op, pc).op = op /\ Request(op, pc).pc = pc
         /\ Request(op, pc).job = None
BY DEF Request, AskedRecord

LEMMA AskedBegins ==
  ASSUME MarketTyped, NEW w \in Workers, NEW r \in AskedRecord, Begin(w, r)
  PROVE  task' \in [Workers -> AskedRecord] /\ task'[w] = r
BY DEF MarketTyped, Begin

LEMMA AskedRests ==
  ASSUME MarketTyped, NEW w \in Workers, Done(w)
  PROVE  /\ task' \in [Workers -> AskedRecord]
         /\ task'[w].pc = "idle" /\ task'[w].job = None
<1>1. /\ Idle \in AskedRecord /\ Idle.pc = "idle" /\ Idle.job = None
  BY AskedIs DEF Idle, AskedOps
<1> QED  BY <1>1, AskedBegins DEF Done

LEMMA AskedOfJob ==
  ASSUME NEW op \in AskedOps, NEW pc \in JobPoints, NEW j \in Jobs,
         NEW to \in JobStatuses \cup {"none"},
         NEW r, \/ r = [OnJob(op, pc, j) EXCEPT !.to = to]
                \/ r = OnJob(op, pc, j) /\ to = "none"
  PROVE  r \in AskedRecord /\ r.op = op /\ r.pc = pc /\ r.job = j /\ r.to = to
BY DEF OnJob, Request, AskedRecord

LEMMA AskedOfProposal ==
  ASSUME NEW op \in AskedOps, NEW pc \in Applying \cup Deciding, NEW p \in Proposals
  PROVE  LET r == OnProposal(op, pc, p) IN
         /\ r \in AskedRecord /\ r.op = op /\ r.pc = pc
         /\ r.job = JobOf[p] /\ r.proposal = p
BY HiringAssumption DEF OnProposal, Request, AskedRecord

LEMMA AskedOfUser ==
  ASSUME NEW op \in AskedOps, NEW pc \in UserPoints, NEW u \in Freelancers
  PROVE  LET r == ForUser(op, pc, u) IN
         /\ r \in AskedRecord /\ r.op = op /\ r.pc = pc /\ r.user = u
BY DEF ForUser, Request, AskedRecord

LEMMA Settles ==
  ASSUME NEW t, t.pc = "idle"
  PROVE  Asks(t) /\ Finds(t) /\ \A j \in Jobs : Owed(t, j) = 0
BY DEF Asks, Finds, Owed, JobPoints, Applying, Deciding, UserPoints

\* A step that leaves the documents alone.
LEMMA AskedStep ==
  ASSUME NEW w \in Workers, ModerationInv(w), UNCHANGED <<hiringVars, moderationVars>>,
         task' \in [Workers -> AskedRecord], Asks(task'[w]),
         NEW t, t = task'[w], Finds(t),
         task[w].pc \notin {"countUp", "countDown", "bringBack"},
         t.pc \notin {"countUp", "countDown"}
  PROVE  ModerationInv(w)'
<1>1. UNCHANGED <<job, proposal, inactive, suspended, revived>>
  BY DEF hiringVars, moderationVars
<1>2. \A j : BearingOn(j)' = BearingOn(j)
  BY <1>1 DEF BearingOn, Stands, Live, Halted, ProposalExists
<1>3. \A j : Pending(j)' = Pending(j)  BY <1>1 DEF Pending
<1>4. Finds(task[w])'  BY <1>1, <1>2, <1>3 DEF Finds
<1>5. ASSUME NEW j \in Jobs PROVE BooksOK(task[w], j)'
  <2>1. Owed(task[w], j) = 0 /\ Owed(t, j) = 0  BY DEF Owed
  <2>2. BooksOK(task[w], j)  BY DEF ModerationInv
  <2> QED  BY <1>1, <1>2, <2>1, <2>2 DEF BooksOK, JobExists
<1>6. ASSUME NEW p \in Proposals PROVE HaltedOK(task[w], p)' /\ PendingOK(p)'
  <2>1. HaltedOK(task[w], p) /\ PendingOK(p)  BY DEF ModerationInv
  <2> QED  BY <1>1, <2>1 DEF HaltedOK, PendingOK
<1>7. MarketTyped'  BY <1>1 DEF ModerationInv, MarketTyped
<1> QED  BY <1>4, <1>5, <1>6, <1>7 DEF ModerationInv

LEMMA AskedEnds ==
  ASSUME NEW w \in Workers, ModerationInv(w), UNCHANGED <<hiringVars, moderationVars>>,
         Done(w), task[w].pc \notin {"countUp", "countDown", "bringBack"}
  PROVE  ModerationInv(w)'
<1>1. task' \in [Workers -> AskedRecord] /\ task'[w].pc = "idle"
  BY AskedRests DEF ModerationInv
<1> QED  BY <1>1, Settles, AskedStep

-----------------------------------------------------------------------------
LEMMA NoneBears ==
  ASSUME NEW j, Cardinality(BearingOn(j)) = 0
  PROVE  BearingOn(j) = {}
BY HiringAssumption, FS_Subset, FS_EmptySet DEF BearingOn

\* A request about a job begins.
LEMMA AskedJobBegins ==
  ASSUME NEW w \in Workers, ModerationInv(w), task[w].pc = "idle", NEW j \in Jobs,
         NEW op \in AskedOps, NEW pc \in JobPoints, NEW to \in JobStatuses \cup {"none"},
         \/ Begin(w, [OnJob(op, pc, j) EXCEPT !.to = to])
         \/ Begin(w, OnJob(op, pc, j)) /\ to = "none",
         UNCHANGED <<hiringVars, moderationVars>>,
         pc \in {"findContract", "sweep"} => to = "closed",
         pc = "saveJob" => to \in JobStatuses \ {"closed"},
         pc = "saveDeleted" => JobExists(j) /\ job[j].proposals = 0
  PROVE  ModerationInv(w)'
<1>1. MarketTyped /\ BooksOK(task[w], j)  BY DEF ModerationInv
<1>2. PICK r : /\ Begin(w, r)
               /\ \/ r = [OnJob(op, pc, j) EXCEPT !.to = to]
                  \/ r = OnJob(op, pc, j) /\ to = "none"
  OBVIOUS
<1>3. r \in AskedRecord /\ r.op = op /\ r.pc = pc /\ r.job = j /\ r.to = to
  BY <1>2, AskedOfJob
<1>4. task' \in [Workers -> AskedRecord] /\ task'[w] = r
  BY <1>1, <1>2, <1>3, AskedBegins
<1>5. Asks(r)
  BY <1>3 DEF Asks, JobPoints, Applying, Deciding, UserPoints
<1>6. pc = "saveDeleted" => BearingOn(j) = {}
  <2> SUFFICES ASSUME pc = "saveDeleted" PROVE Cardinality(BearingOn(j)) = 0
    BY NoneBears
  <2>1. IsFiniteSet(BearingOn(j))  BY HiringAssumption, FS_Subset DEF BearingOn
  <2>2. Cardinality(BearingOn(j)) \in Nat  BY <2>1, FS_CardinalityType
  <2> QED  BY <1>1, <2>2 DEF BooksOK, Owed
<1>7. Finds(r)
  BY <1>3, <1>6 DEF Finds, JobPoints, Applying
<1> QED
  BY <1>3, <1>4, <1>5, <1>7, AskedStep DEF JobPoints

LEMMA AskedJobRequest ==
  ASSUME NEW w \in Workers, ModerationInv(w), NEW j \in Jobs,
         ViewJob(w, j) \/ UpdateJob(w, j) \/ UpdateJobStatus(w, j) \/ CloseJob(w, j)
           \/ DeleteJob(w, j),
         UNCHANGED moderationVars
  PROVE  ModerationInv(w)'
<1>1. task[w].pc = "idle" /\ UNCHANGED <<hiringVars, moderationVars>>
  BY DEF ViewJob, UpdateJob, UpdateJobStatus, CloseJob, DeleteJob, May, At
<1>2. /\ {"viewJob", "updateJob", "updateJobStatus", "closeJob", "deleteJob"}
           \subseteq AskedOps
      /\ "closed" \in JobStatuses /\ JobPoints = JobPoints \cup {"sweep", "saveJob",
                                       "findContract", "removeJob", "saveDeleted"}
  BY DEF AskedOps, JobStatuses, JobPoints
<1>3. CASE ViewJob(w, j)
  <2>1. Begin(w, [OnJob("viewJob", "sweep", j) EXCEPT !.to = "closed"])
    BY <1>3 DEF ViewJob
  <2> QED  BY <1>1, <1>2, <2>1, AskedJobBegins
<1>4. CASE UpdateJob(w, j) \/ UpdateJobStatus(w, j)
  <2>1. PICK op \in {"updateJob", "updateJobStatus"}, to \in JobStatuses :
          Begin(w, [OnJob(op, IF to = "closed" THEN "sweep" ELSE "saveJob", j)
                      EXCEPT !.to = to])
    BY <1>4 DEF UpdateJob, UpdateJobStatus, JobStatuses
  <2>2. PICK pc : pc = IF to = "closed" THEN "sweep" ELSE "saveJob"  OBVIOUS
  <2>3. Begin(w, [OnJob(op, pc, j) EXCEPT !.to = to]) /\ op \in AskedOps /\ pc \in JobPoints
    BY <1>2, <2>1, <2>2
  <2>4. /\ pc \in {"findContract", "sweep"} => to = "closed"
        /\ pc = "saveJob" => to \in JobStatuses \ {"closed"}
        /\ pc # "saveDeleted"
    BY <2>2
  <2> QED  BY <1>1, <2>3, <2>4, AskedJobBegins
<1>5. CASE CloseJob(w, j)
  <2>1. Begin(w, [OnJob("closeJob", "findContract", j) EXCEPT !.to = "closed"])
    BY <1>5 DEF CloseJob
  <2> QED  BY <1>1, <1>2, <2>1, AskedJobBegins
<1>6. CASE DeleteJob(w, j)
  <2>1. PICK pc \in {"removeJob", "saveDeleted"} :
          /\ Begin(w, OnJob("deleteJob", pc, j))
          /\ pc = "saveDeleted" => JobExists(j) /\ job[j].proposals = 0
    BY <1>6 DEF DeleteJob, Active
  <2>2. "deleteJob" \in AskedOps /\ pc \in JobPoints  BY <1>2
  <2> QED  BY <1>1, <2>1, <2>2, AskedJobBegins
<1> QED  BY <1>3, <1>4, <1>5, <1>6

LEMMA AskedProposalRequest ==
  ASSUME NEW w \in Workers, ModerationInv(w), NEW p \in Proposals,
         CountProposals(w, p) \/ EditProposal(w, p) \/ Decide(w, p),
         Party(task'[w].op, p) \notin inactive, UNCHANGED moderationVars
  PROVE  ModerationInv(w)'
<1>1. MarketTyped  BY DEF ModerationInv
<1>2. task[w].pc = "idle" /\ UNCHANGED <<hiringVars, moderationVars>>
  BY DEF CountProposals, EditProposal, Decide, May, At
<1>3. PICK op \in AskedOps, pc \in Applying \cup Deciding :
        /\ Begin(w, OnProposal(op, pc, p))
        /\ \/ op = "apply" /\ pc = "readJob"
           \/ pc = "saveEdited"
           \/ /\ op \in {"withdraw", "acceptProposal", "rejectProposal"}
              /\ pc = "saveDecision" /\ proposal[p].status = "pending"
  <2>0. /\ {"apply", "edit", "withdraw", "acceptProposal", "rejectProposal"}
             \subseteq AskedOps
        /\ {"readJob", "saveEdited", "saveDecision"} \subseteq Applying \cup Deciding
    BY DEF AskedOps, Applying, Deciding
  <2>1. CASE CountProposals(w, p)  BY <2>0, <2>1 DEF CountProposals
  <2>2. CASE EditProposal(w, p)  BY <2>0, <2>2 DEF EditProposal
  <2>3. CASE Decide(w, p)  BY <2>0, <2>3 DEF Decide
  <2> QED  BY <2>1, <2>2, <2>3
<1>4. PICK r \in AskedRecord : /\ r = OnProposal(op, pc, p) /\ r.op = op /\ r.pc = pc
                               /\ r.job = JobOf[p] /\ r.proposal = p
  BY AskedOfProposal
<1>5. task' \in [Workers -> AskedRecord] /\ task'[w] = r
  BY <1>1, <1>3, <1>4, AskedBegins
<1>6. Asks(r)
  BY <1>3, <1>4 DEF Asks, JobPoints, Applying, Deciding, UserPoints
<1>7. op = "apply" => FreelancerOf[p] \notin inactive
  BY <1>4, <1>5 DEF Party
<1>8. Finds(r)
  BY <1>3, <1>4, <1>7 DEF Finds, Applying
<1> QED
  BY <1>2, <1>3, <1>4, <1>5, <1>6, <1>8, AskedStep

LEMMA AskedModeration ==
  ASSUME NEW w \in Workers, ModerationInv(w), NEW j \in Jobs,
         \/ \E op \in {"approveJob", "rejectJob", "flagJob"} : ModerateJob(w, j, op)
         \/ AdminDeleteJob(w, j)
  PROVE  ModerationInv(w)'
<1>1. task[w].pc = "idle" /\ UNCHANGED <<hiringVars, moderationVars>>
  BY DEF ModerateJob, AdminDeleteJob, May, At
<1>2. /\ {"approveJob", "rejectJob", "flagJob", "adminDelete"} \subseteq AskedOps
      /\ {"sweep", "saveJob", "removeJob"} \subseteq JobPoints
  BY DEF AskedOps, JobPoints
<1>3. ASSUME NEW op \in {"approveJob", "rejectJob", "flagJob"}, ModerateJob(w, j, op)
      PROVE  ModerationInv(w)'
  <2>1. job[j].status \in JobStatuses
    BY <1>3 DEF ModerateJob, JobExists, ModerationInv, MarketTyped, JobRecord
  <2>2. Moderated(op, job[j].status) \in JobStatuses
    BY <2>1 DEF Moderated, JobStatuses
  <2>3. PICK to \in JobStatuses : to = Hooked(j, Moderated(op, job[j].status))
    BY <2>2 DEF Hooked, JobStatuses
  <2>4. PICK pc : pc = IF to = "closed" THEN "sweep" ELSE "saveJob"  OBVIOUS
  <2>5. Begin(w, [OnJob(op, pc, j) EXCEPT !.to = to]) /\ op \in AskedOps /\ pc \in JobPoints
    BY <1>2, <1>3, <2>3, <2>4 DEF ModerateJob
  <2>6. /\ pc \in {"findContract", "sweep"} => to = "closed"
        /\ pc = "saveJob" => to \in JobStatuses \ {"closed"}
        /\ pc # "saveDeleted"
    BY <2>4
  <2> QED  BY <1>1, <2>5, <2>6, AskedJobBegins
<1>4. CASE AdminDeleteJob(w, j)
  <2>1. Begin(w, OnJob("adminDelete", "removeJob", j))
    BY <1>4 DEF AdminDeleteJob
  <2> QED  BY <1>1, <1>2, <2>1, AskedJobBegins
<1> QED  BY <1>3, <1>4

-----------------------------------------------------------------------------
LEMMA ProposalsBecome ==
  ASSUME MarketTyped, NEW ps, NEW s \in ProposalStatuses \cup Gone, SetProposals(ps, s)
  PROVE  /\ proposal' \in [Proposals -> ProposalRecord]
         /\ \A p \in Proposals :
              proposal'[p].status = IF p \in ps THEN s ELSE proposal[p].status
<1>1. ASSUME NEW p \in Proposals
      PROVE  /\ [proposal[p] EXCEPT !.status = s] \in ProposalRecord
             /\ [proposal[p] EXCEPT !.status = s].status = s
             /\ proposal[p] \in ProposalRecord
  <2>1. proposal[p] \in ProposalRecord  BY DEF MarketTyped
  <2> QED  BY <2>1 DEF ProposalRecord
<1> QED  BY <1>1 DEF SetProposals

\* A step that takes nothing from a job and adds nothing to it.
LEMMA AskedAdvances ==
  ASSUME NEW w \in Workers, ModerationInv(w), job' = job,
         proposal' \in [Proposals -> ProposalRecord],
         suspended' \subseteq suspended \cup Proposals,
         task' \in [Workers -> AskedRecord], Asks(task'[w]), Finds(task[w])',
         \A p \in Proposals : Stands(p)' <=> Stands(p),
         task[w].pc \notin {"countUp", "countDown"},
         task'[w].pc \notin {"countUp", "countDown"},
         \A p \in Proposals : HaltedOK(task[w], p)' /\ PendingOK(p)'
  PROVE  ModerationInv(w)'
<1>1. \A j : BearingOn(j)' = BearingOn(j)  BY DEF BearingOn
<1>2. ASSUME NEW j \in Jobs PROVE BooksOK(task[w], j)'
  <2>1. Owed(task[w], j) = 0 /\ Owed(task[w], j)' = 0  BY DEF Owed
  <2>2. BooksOK(task[w], j)  BY DEF ModerationInv
  <2> QED  BY <1>1, <2>1, <2>2 DEF BooksOK, JobExists
<1>3. MarketTyped'  BY DEF ModerationInv, MarketTyped
<1> QED  BY <1>2, <1>3 DEF ModerationInv

LEMMA AskedSweeps ==
  ASSUME NEW w \in Workers, ModerationInv(w), Sweep(w), UNCHANGED moderationVars
  PROVE  ModerationInv(w)'
<1>1. /\ task[w].pc = "sweep" /\ Go(w, "saveJob") /\ job' = job
      /\ SetProposals(Pending(task[w].job), "rejected")
      /\ UNCHANGED <<inactive, suspended, revived>>
  BY DEF Sweep, At, Job, moderationVars
<1>2. PICK t \in AskedRecord : t = task'[w] /\ task' \in [Workers -> AskedRecord]
        /\ t.pc = "saveJob" /\ t.job = task[w].job /\ t.to = task[w].to
  BY <1>1, AskedGoes DEF ModerationInv, JobPoints
<1>3. task[w].job \in Jobs /\ task[w].to = "closed"
  BY <1>1 DEF ModerationInv, Asks, JobPoints
<1>4. /\ proposal' \in [Proposals -> ProposalRecord]
      /\ \A p \in Proposals : proposal'[p].status =
           IF p \in Pending(task[w].job) THEN "rejected" ELSE proposal[p].status
  BY <1>1, ProposalsBecome DEF ModerationInv, ProposalStatuses
<1>5. \A p \in Proposals : Stands(p)' <=> Stands(p)
  BY <1>1, <1>4 DEF Stands, Live, Halted, ProposalExists, Pending, Gone
<1>6. Pending(t.job)' = {}  BY <1>2, <1>4 DEF Pending
<1>7. Asks(t)
  BY <1>2, <1>3 DEF Asks, JobPoints, Applying, Deciding, UserPoints, JobStatuses
<1>8. Finds(task[w])'
  BY <1>2, <1>6 DEF Finds, Applying
<1>9. ASSUME NEW p \in Proposals PROVE HaltedOK(task[w], p)' /\ PendingOK(p)'
  <2>1. HaltedOK(task[w], p) /\ PendingOK(p)  BY DEF ModerationInv
  <2> QED  BY <1>1, <1>2, <1>4, <2>1 DEF HaltedOK, PendingOK, Pending
<1> QED  BY <1>1, <1>2, <1>4, <1>5, <1>7, <1>8, <1>9, AskedAdvances

\* A step that changes the documents of one job, at the end of a request.
LEMMA AskedSaves ==
  ASSUME NEW w \in Workers, ModerationInv(w), UNCHANGED <<proposal, moderationVars>>,
         job' \in [Jobs -> JobRecord], task' \in [Workers -> AskedRecord],
         task'[w].pc = "idle", task[w].pc \notin {"bringBack"},
         \A j \in Jobs : BooksOK(task[w], j)',
         \A p \in Proposals : PendingOK(p)'
  PROVE  ModerationInv(w)'
<1>1. UNCHANGED <<inactive, suspended, revived>>  BY DEF moderationVars
<1>2. Asks(task'[w]) /\ Finds(task[w])'
  BY DEF Asks, Finds, JobPoints, Applying, Deciding, UserPoints
<1>3. ASSUME NEW p \in Proposals PROVE HaltedOK(task[w], p)'
  <2>1. HaltedOK(task[w], p)  BY DEF ModerationInv
  <2> QED  BY <1>1, <2>1 DEF HaltedOK
<1>4. MarketTyped'  BY <1>1 DEF ModerationInv, MarketTyped
<1> QED  BY <1>2, <1>3, <1>4 DEF ModerationInv

LEMMA SameBearing ==
  ASSUME UNCHANGED <<proposal, moderationVars>>
  PROVE  \A j : BearingOn(j)' = BearingOn(j)
BY DEF moderationVars, BearingOn, Stands, Live, Halted, ProposalExists

LEMMA AskedJobCall ==
  ASSUME NEW w \in Workers, ModerationInv(w),
         FindContract(w) \/ SaveJob(w) \/ RemoveJob(w) \/ SaveDeleted(w),
         UNCHANGED moderationVars
  PROVE  ModerationInv(w)'
<1>1. MarketTyped /\ Asks(task[w]) /\ Finds(task[w])  BY DEF ModerationInv
<1>2. /\ task[w].pc \in {"findContract", "saveJob", "removeJob", "saveDeleted"}
      /\ UNCHANGED <<proposal, moderationVars>>
  BY DEF FindContract, SaveJob, RemoveJob, SaveDeleted, At, hiringVars
<1>3. PICK j \in Jobs : j = task[w].job /\ j = Job(w)
  BY <1>1, <1>2 DEF Asks, JobPoints, Job
<1>4. job[j] \in JobRecord  BY <1>1 DEF MarketTyped
<1>5. \A k : BearingOn(k)' = BearingOn(k)  BY <1>2, SameBearing
<1>6. \A k \in Jobs : BooksOK(task[w], k) /\ Owed(task[w], k) = 0
  BY <1>2 DEF ModerationInv, Owed
<1>7. CASE FindContract(w)
  <2>1. UNCHANGED <<hiringVars, moderationVars>> /\ task[w].pc = "findContract"
    BY <1>7 DEF FindContract, At
  <2>2. CASE Done(w)  BY <2>1, <2>2, AskedEnds
  <2>3. CASE Go(w, "sweep")
    <3>1. /\ task' \in [Workers -> AskedRecord] /\ task'[w].pc = "sweep"
          /\ task'[w].job = j /\ task'[w].to = task[w].to
      BY <1>1, <1>3, <2>3, AskedGoes DEF JobPoints
    <3>2. Asks(task'[w])
      BY <1>1, <2>1, <3>1 DEF Asks, JobPoints, Applying, Deciding, UserPoints
    <3>3. PICK t : t = task'[w]  OBVIOUS
    <3>4. Finds(t)  BY <3>1, <3>3 DEF Finds, Applying
    <3> QED  BY <2>1, <3>1, <3>2, <3>3, <3>4, AskedStep
  <2> QED  BY <1>7, <2>2, <2>3 DEF FindContract
<1>8. CASE SaveJob(w)
  <2>1. task[w].pc = "saveJob" /\ task[w].op \in AskedOps
    BY <1>1, <1>8 DEF SaveJob, At, MarketTyped, AskedRecord
  <2>2. task' \in [Workers -> AskedRecord] /\ task'[w].pc = "idle"
    <3>1. Done(w)
      BY <1>8, <2>1 DEF SaveJob, Continue, AfterJob, AskedOps
    <3> QED  BY <1>1, <3>1, AskedRests
  <2>3. PICK s \in JobStatuses : s = task[w].to  BY <1>1, <2>1 DEF Asks
  <2>4. /\ job' \in [Jobs -> JobRecord]
        /\ \A k \in Jobs :
             /\ job'[k].proposals = job[k].proposals /\ job'[k].deleted = job[k].deleted
             /\ job'[k].status = IF k = j /\ JobExists(j) THEN s ELSE job[k].status
    <3>1. [job[j] EXCEPT !.status = s] \in JobRecord  BY <1>4 DEF JobRecord
    <3>2. job' = IF JobExists(j) THEN [job EXCEPT ![j].status = s] ELSE job
      BY <1>3, <1>8, <2>3 DEF SaveJob
    <3>3. CASE JobExists(j)
      BY <1>1, <1>4, <3>1, <3>2, <3>3 DEF MarketTyped, JobRecord
    <3>4. CASE ~JobExists(j)
      BY <1>1, <3>2, <3>4 DEF MarketTyped
    <3> QED  BY <3>3, <3>4
  <2>5. \A k \in Jobs : BooksOK(task[w], k)'
    <3> SUFFICES ASSUME NEW k \in Jobs PROVE BooksOK(task[w], k)'
      OBVIOUS
    <3>1. Owed(task[w], k)' = 0  BY <2>2 DEF Owed
    <3>2. JobExists(k)' <=> JobExists(k)
      BY <2>4 DEF JobExists, Gone, JobStatuses
    <3>3. job'[k].status = "none" <=> job[k].status = "none"
      BY <2>4 DEF JobExists, Gone, JobStatuses
    <3> QED  BY <1>5, <1>6, <2>4, <3>1, <3>2, <3>3 DEF BooksOK
  <2>6. ASSUME NEW p \in Proposals PROVE PendingOK(p)'
    <3>1. PendingOK(p)  BY DEF ModerationInv
    <3>2. s = "closed" => Pending(j) = {}  BY <1>1, <1>3, <2>1, <2>3 DEF Finds
    <3>3. JobOf[p] \in Jobs /\ UNCHANGED <<proposal, revived>>
      BY <1>2, HiringAssumption DEF moderationVars
    <3> QED  BY <2>4, <3>1, <3>2, <3>3 DEF PendingOK, Pending
  <2> QED  BY <1>2, <2>1, <2>2, <2>4, <2>5, <2>6, AskedSaves
<1>9. CASE RemoveJob(w)
  <2>1. task' \in [Workers -> AskedRecord] /\ task'[w].pc = "idle"
    BY <1>1, <1>9, AskedRests DEF RemoveJob
  <2>2. /\ job' \in [Jobs -> JobRecord]
        /\ \A k \in Jobs :
             /\ job'[k].proposals = job[k].proposals /\ job'[k].deleted = job[k].deleted
             /\ job'[k].status = IF k = j THEN "DELETED" ELSE job[k].status
    BY <1>1, <1>3, <1>4, <1>9 DEF RemoveJob, MarketTyped, JobRecord, Gone
  <2>3. \A k \in Jobs : BooksOK(task[w], k)'
    <3> SUFFICES ASSUME NEW k \in Jobs PROVE BooksOK(task[w], k)'
      OBVIOUS
    <3>1. Owed(task[w], k)' = 0  BY <2>1 DEF Owed
    <3> QED  BY <1>5, <1>6, <2>2, <3>1 DEF BooksOK, JobExists, Gone
  <2>4. \A p \in Proposals : PendingOK(p)'
    BY <1>2, <2>2, HiringAssumption DEF ModerationInv, PendingOK, moderationVars
  <2> QED  BY <1>2, <2>1, <2>2, <2>3, <2>4, AskedSaves
<1>10. CASE SaveDeleted(w)
  <2>1. task' \in [Workers -> AskedRecord] /\ task'[w].pc = "idle"
    BY <1>1, <1>10, AskedRests DEF SaveDeleted
  <2>2. /\ job' \in [Jobs -> JobRecord]
        /\ \A k \in Jobs :
             /\ job'[k].proposals = job[k].proposals /\ job'[k].status = job[k].status
             /\ job'[k].deleted => k = j \/ job[k].deleted
    <3>1. CASE JobExists(j)
      BY <1>1, <1>3, <1>4, <1>10, <3>1 DEF SaveDeleted, MarketTyped, JobRecord
    <3>2. CASE ~JobExists(j)
      BY <1>1, <1>3, <1>10, <3>2 DEF SaveDeleted, MarketTyped
    <3> QED  BY <3>1, <3>2
  <2>3. BearingOn(j) = {}  BY <1>1, <1>3, <1>10 DEF SaveDeleted, At, Finds
  <2>4. \A k \in Jobs : BooksOK(task[w], k)'
    <3> SUFFICES ASSUME NEW k \in Jobs PROVE BooksOK(task[w], k)'
      OBVIOUS
    <3>1. Owed(task[w], k)' = 0  BY <2>1 DEF Owed
    <3> QED  BY <1>5, <1>6, <2>2, <2>3, <3>1 DEF BooksOK, JobExists
  <2>5. \A p \in Proposals : PendingOK(p)'
    BY <1>2, <2>2, HiringAssumption DEF ModerationInv, PendingOK, moderationVars
  <2> QED  BY <1>2, <2>1, <2>2, <2>4, <2>5, AskedSaves
<1> QED  BY <1>7, <1>8, <1>9, <1>10

-----------------------------------------------------------------------------
LEMMA AskedApplies ==
  ASSUME NEW w \in Workers, ModerationInv(w), ReadJob(w) \/ FindEarlier(w),
         UNCHANGED moderationVars
  PROVE  ModerationInv(w)'
<1>1. MarketTyped /\ Asks(task[w]) /\ Finds(task[w])  BY DEF ModerationInv
<1>2. /\ task[w].pc \in {"readJob", "findEarlier"} /\ task[w].pc \in Applying
      /\ UNCHANGED <<hiringVars, moderationVars>>
  BY DEF ReadJob, FindEarlier, At, Applying
<1>3. PICK p \in Proposals : /\ p = task[w].proposal /\ task[w].job = JobOf[p]
                             /\ FreelancerOf[p] \notin inactive
  BY <1>1, <1>2 DEF Asks, Finds
<1>4. ASSUME NEW pc \in Applying \ {"readJob", "countUp"}, NEW o, NEW t,
             t = task'[w], task' \in [Workers -> AskedRecord],
             t.pc = pc, t.job = task[w].job, t.proposal = p, t.other = o,
             job[JobOf[p]].status = "open", ~job[JobOf[p]].deleted,
             pc = "deleteEarlier" => /\ o \in Proposals /\ proposal[o].status = "withdrawn"
                                     /\ FreelancerOf[o] = FreelancerOf[p]
      PROVE  ModerationInv(w)'
  <2>1. Asks(t)
    BY <1>3, <1>4 DEF Asks, JobPoints, Applying, Deciding, UserPoints
  <2>2. Finds(t)
    BY <1>3, <1>4 DEF Finds, Applying
  <2>3. t.pc \notin {"countUp", "countDown"}  BY <1>4 DEF Applying
  <2>4. task[w].pc \notin {"countUp", "countDown", "bringBack"}  BY <1>2
  <2> QED  BY <1>2, <1>4, <2>1, <2>2, <2>3, <2>4, AskedStep
<1>5. CASE Done(w)  BY <1>2, <1>5, AskedEnds
<1>6. CASE ReadJob(w) /\ Go(w, "findEarlier") /\ ~Done(w)
  <2>1. job[JobOf[p]].status = "open" /\ ~job[JobOf[p]].deleted
    BY <1>3, <1>6 DEF ReadJob, Active, Job
  <2>2. /\ task' \in [Workers -> AskedRecord] /\ task'[w].pc = "findEarlier"
        /\ task'[w].job = task[w].job /\ task'[w].proposal = p
    BY <1>1, <1>3, <1>6, AskedGoes DEF Applying
  <2> QED  BY <1>4, <2>1, <2>2 DEF Applying
<1>7. CASE FindEarlier(w) /\ ~Done(w)
  <2>1. job[JobOf[p]].status = "open" /\ ~job[JobOf[p]].deleted
    BY <1>1, <1>2, <1>3, <1>7 DEF FindEarlier, At, Finds
  <2>2. CASE Go(w, "insert")
    <3>1. /\ task' \in [Workers -> AskedRecord] /\ task'[w].pc = "insert"
          /\ task'[w].job = task[w].job /\ task'[w].proposal = p
      BY <1>1, <1>3, <2>2, AskedGoes DEF Applying
    <3> QED  BY <1>4, <2>1, <3>1 DEF Applying
  <2>3. ASSUME NEW q \in SameApplicant(p), proposal[q].status = "withdrawn",
               task' = [task EXCEPT ![w].other = q, ![w].pc = "deleteEarlier"]
        PROVE  ModerationInv(w)'
    <3>1. q \in Proposals /\ FreelancerOf[q] = FreelancerOf[p]
      BY <2>3 DEF SameApplicant
    <3>2. PICK t0 \in AskedRecord : t0 = task[w]  BY <1>1 DEF MarketTyped
    <3>3. PICK t : t = [t0 EXCEPT !.other = q, !.pc = "deleteEarlier"]  OBVIOUS
    <3>4. /\ t \in AskedRecord /\ t.pc = "deleteEarlier" /\ t.other = q
          /\ t.job = t0.job /\ t.proposal = t0.proposal
      BY <3>1, <3>3 DEF AskedRecord, Applying
    <3>5. task' = [task EXCEPT ![w] = t]  BY <2>3, <3>2, <3>3
    <3>6. task' \in [Workers -> AskedRecord] /\ task'[w] = t
      BY <1>1, <3>4, <3>5 DEF MarketTyped
    <3>7. "deleteEarlier" \in Applying \ {"readJob", "countUp"}  BY DEF Applying
    <3>8. t.job = task[w].job /\ t.proposal = p  BY <1>3, <3>2, <3>4
    <3> QED  BY <1>4, <2>1, <2>3, <3>1, <3>4, <3>6, <3>7, <3>8
  <2> QED  BY <1>3, <1>7, <2>2, <2>3 DEF FindEarlier, Proposal
<1> QED  BY <1>5, <1>6, <1>7 DEF ReadJob

LEMMA AskedDeletesEarlier ==
  ASSUME NEW w \in Workers, ModerationInv(w), DeleteEarlier(w), UNCHANGED moderationVars
  PROVE  ModerationInv(w)'
<1>1. MarketTyped /\ Asks(task[w]) /\ Finds(task[w])  BY DEF ModerationInv
<1>2. /\ task[w].pc = "deleteEarlier" /\ job' = job
      /\ UNCHANGED <<inactive, suspended, revived>>
  BY DEF DeleteEarlier, At, moderationVars
<1>3. PICK p \in Proposals, o \in Proposals :
        /\ p = task[w].proposal /\ o = task[w].other /\ task[w].job = JobOf[p]
        /\ FreelancerOf[p] \notin inactive /\ FreelancerOf[o] = FreelancerOf[p]
        /\ proposal[o].status = "withdrawn"
        /\ job[JobOf[p]].status = "open" /\ ~job[JobOf[p]].deleted
  BY <1>1, <1>2 DEF Asks, Finds, Applying
<1>4. o \notin suspended
  BY <1>2, <1>3 DEF ModerationInv, HaltedOK
<1>5. proposal[o] \in ProposalRecord /\ proposal \in [Proposals -> ProposalRecord]
  BY <1>1 DEF MarketTyped
<1>6. proposal' = [proposal EXCEPT ![o].status = "DELETED"]
  BY <1>3 DEF DeleteEarlier, ProposalExists, Gone
<1>7. /\ proposal' \in [Proposals -> ProposalRecord]
      /\ \A q \in Proposals :
           proposal'[q].status = IF q = o THEN "DELETED" ELSE proposal[q].status
  BY <1>5, <1>6 DEF ProposalRecord, Gone
<1>8. \A q \in Proposals : Stands(q)' <=> Stands(q)
  BY <1>2, <1>3, <1>4, <1>7 DEF Stands, Live, Halted, ProposalExists, Gone
<1>9. /\ task' \in [Workers -> AskedRecord] /\ Asks(task'[w]) /\ Finds(task[w])'
      /\ task'[w].pc \in {"insert", "idle"}
  <2>1. CASE Go(w, "insert")
    <3>1. /\ task' \in [Workers -> AskedRecord] /\ task'[w].pc = "insert"
          /\ task'[w].job = JobOf[p] /\ task'[w].proposal = p
      BY <1>1, <1>3, <2>1, AskedGoes DEF Applying
    <3>2. Asks(task'[w])
      BY <3>1 DEF Asks, JobPoints, Applying, Deciding, UserPoints
    <3>3. Finds(task[w])'
      BY <1>2, <1>3, <3>1 DEF Finds, Applying
    <3> QED  BY <3>1, <3>2, <3>3
  <2>2. CASE Done(w)
    <3>1. task' \in [Workers -> AskedRecord] /\ task'[w].pc = "idle"
      BY <1>1, <2>2, AskedRests
    <3> QED  BY <3>1 DEF Asks, Finds, JobPoints, Applying, Deciding, UserPoints
  <2> QED  BY <2>1, <2>2 DEF DeleteEarlier
<1>10. ASSUME NEW q \in Proposals PROVE HaltedOK(task[w], q)' /\ PendingOK(q)'
  <2>1. HaltedOK(task[w], q) /\ PendingOK(q)  BY DEF ModerationInv
  <2> QED  BY <1>2, <1>7, <1>9, <2>1 DEF HaltedOK, PendingOK
<1> QED  BY <1>2, <1>7, <1>8, <1>9, <1>10, AskedAdvances

LEMMA AskedCounts ==
  ASSUME NEW w \in Workers, ModerationInv(w), CountUp(w) \/ CountDown(w),
         UNCHANGED moderationVars
  PROVE  ModerationInv(w)'
<1>1. MarketTyped /\ Asks(task[w])  BY DEF ModerationInv
<1>2. PICK p \in Proposals, j \in Jobs :
        p = task[w].proposal /\ j = JobOf[p] /\ j = task[w].job /\ j = Job(w)
  BY <1>1, HiringAssumption
     DEF CountUp, CountDown, At, Asks, Applying, Deciding, Job
<1>3. PICK n \in {-1, 1} : /\ AddToCount(j, n) /\ Done(w) /\ proposal' = proposal
                           /\ task[w].pc = IF n = 1 THEN "countUp" ELSE "countDown"
  BY <1>2 DEF CountUp, CountDown, At
<1>4. job[j] \in JobRecord  BY <1>1 DEF MarketTyped
<1>5. /\ job' \in [Jobs -> JobRecord]
      /\ \A k \in Jobs :
           /\ job'[k].status = job[k].status /\ job'[k].deleted = job[k].deleted
           /\ job'[k].proposals = IF k = j /\ JobExists(j) THEN job[k].proposals + n
                                  ELSE job[k].proposals
  <2>1. CASE JobExists(j)
    <3>1. job' = [job EXCEPT ![j].proposals = @ + n]  BY <1>3, <2>1 DEF AddToCount
    <3>2. PICK d : d = [job[j] EXCEPT !.proposals = @ + n]  OBVIOUS
    <3>3. /\ d \in JobRecord /\ d.status = job[j].status
          /\ d.deleted = job[j].deleted /\ d.proposals = job[j].proposals + n
      BY <1>3, <1>4, <3>2 DEF JobRecord
    <3>4. job' = [job EXCEPT ![j] = d]  BY <3>1, <3>2
    <3> QED  BY <1>1, <2>1, <3>3, <3>4 DEF MarketTyped
  <2>2. CASE ~JobExists(j)
    BY <1>1, <1>3, <2>2 DEF MarketTyped, AddToCount
  <2> QED  BY <2>1, <2>2
<1>6. task' \in [Workers -> AskedRecord] /\ task'[w].pc = "idle"
  BY <1>1, <1>3, AskedRests
<1>7. \A k : BearingOn(k)' = BearingOn(k)  BY <1>3, SameBearing
<1>8. ASSUME NEW k \in Jobs PROVE BooksOK(task[w], k)'
  <2>1. /\ Owed(task[w], k)' = 0
        /\ Owed(task[w], k) = IF k = j THEN -n ELSE 0
    BY <1>2, <1>3, <1>6 DEF Owed
  <2>2. BooksOK(task[w], k)  BY DEF ModerationInv
  <2>3. IsFiniteSet(BearingOn(k))  BY HiringAssumption, FS_Subset DEF BearingOn
  <2>4. Cardinality(BearingOn(k)) \in Nat  BY <2>3, FS_CardinalityType
  <2>5. k = j /\ JobExists(j) => job[k].status # "none"  BY DEF JobExists, Gone
  <2>6. /\ job[k].proposals \in Int /\ job'[k].status = job[k].status
        /\ job'[k].deleted = job[k].deleted /\ BearingOn(k)' = BearingOn(k)
        /\ JobExists(k)' <=> JobExists(k)
    BY <1>1, <1>5, <1>7 DEF MarketTyped, JobRecord, JobExists
  <2>7. CASE k = j /\ JobExists(j)
    <3>1. job'[k].proposals = job[k].proposals + n  BY <1>5, <2>7
    <3> QED  BY <1>3, <2>1, <2>2, <2>4, <2>5, <2>6, <2>7, <3>1 DEF BooksOK
  <2>8. CASE ~(k = j /\ JobExists(j))
    <3>1. job'[k].proposals = job[k].proposals  BY <1>5, <2>8
    <3> QED  BY <2>1, <2>2, <2>6, <2>8, <3>1 DEF BooksOK
  <2> QED  BY <2>7, <2>8
<1>9. \A q \in Proposals : PendingOK(q)'
  BY <1>3, <1>5, HiringAssumption DEF ModerationInv, PendingOK, moderationVars
<1> QED  BY <1>3, <1>5, <1>6, <1>8, <1>9, AskedSaves

-----------------------------------------------------------------------------
\* A step that changes which proposals bear on the jobs.
LEMMA AskedShifts ==
  ASSUME NEW w \in Workers, ModerationInv(w), UNCHANGED <<job, inactive, suspended, revived>>,
         proposal' \in [Proposals -> ProposalRecord],
         task' \in [Workers -> AskedRecord], Asks(task'[w]), Finds(task[w])',
         \A j \in Jobs : BooksOK(task[w], j)',
         task[w].pc # "bringBack",
         NEW p \in Proposals, p \notin suspended, PendingOK(p)',
         \A q \in Proposals \ {p} : proposal'[q].status = proposal[q].status
  PROVE  ModerationInv(w)'
<1>1. ASSUME NEW q \in Proposals PROVE HaltedOK(task[w], q)' /\ PendingOK(q)'
  <2>1. HaltedOK(task[w], q) /\ PendingOK(q)  BY DEF ModerationInv
  <2>2. CASE q = p  BY <2>2 DEF HaltedOK
  <2>3. CASE q # p  BY <2>1, <2>3 DEF HaltedOK, PendingOK
  <2> QED  BY <2>2, <2>3
<1>2. MarketTyped'  BY DEF ModerationInv, MarketTyped
<1> QED  BY <1>1, <1>2 DEF ModerationInv

LEMMA AskedInserts ==
  ASSUME NEW w \in Workers, ModerationInv(w), InsertProposal(w), UNCHANGED moderationVars
  PROVE  ModerationInv(w)'
<1>1. MarketTyped /\ Asks(task[w]) /\ Finds(task[w])  BY DEF ModerationInv
<1>2. /\ task[w].pc = "insert" /\ job' = job
      /\ UNCHANGED <<inactive, suspended, revived>>
  BY DEF InsertProposal, At, moderationVars
<1>3. PICK p \in Proposals :
        /\ p = task[w].proposal /\ task[w].job = JobOf[p] /\ p = Proposal(w)
        /\ FreelancerOf[p] \notin inactive
        /\ job[JobOf[p]].status = "open" /\ ~job[JobOf[p]].deleted
  BY <1>1, <1>2 DEF Asks, Finds, Applying, Proposal
<1>4. CASE Done(w) /\ UNCHANGED proposal
  BY <1>2, <1>4, AskedEnds DEF hiringVars, moderationVars
<1>5. CASE /\ proposal[p].status = "none" /\ Go(w, "countUp")
           /\ proposal' = [proposal EXCEPT ![p].status = "pending"]
  <2>1. /\ proposal' \in [Proposals -> ProposalRecord]
        /\ proposal'[p].status = "pending"
        /\ \A q \in Proposals \ {p} : proposal'[q].status = proposal[q].status
    BY <1>1, <1>5 DEF MarketTyped, ProposalRecord, ProposalStatuses
  <2>2. /\ task' \in [Workers -> AskedRecord] /\ task'[w].pc = "countUp"
        /\ task'[w].job = JobOf[p] /\ task'[w].proposal = p
    BY <1>1, <1>3, <1>5, AskedGoes DEF Applying
  <2>3. Asks(task'[w])
    BY <2>2 DEF Asks, JobPoints, Applying, Deciding, UserPoints
  <2>4. Finds(task[w])'
    BY <1>2, <1>3, <2>2 DEF Finds, Applying
  <2>5. p \notin suspended
    BY <1>5 DEF ModerationInv, HaltedOK
  <2>6. ~Stands(p) /\ Stands(p)' /\ \A q \in Proposals \ {p} : Stands(q)' <=> Stands(q)
    BY <1>2, <1>5, <2>1, <2>5 DEF Stands, Live, Halted, ProposalExists, Gone
  <2>7. ASSUME NEW j \in Jobs PROVE BooksOK(task[w], j)'
    <3>1. BooksOK(task[w], j) /\ Owed(task[w], j) = 0
      BY <1>2 DEF ModerationInv, Owed
    <3>2. CASE j = JobOf[p]
      <4>1. BearingOn(j)' = BearingOn(j) \cup {p} /\ p \notin BearingOn(j)
        BY <2>6, <3>2 DEF BearingOn
      <4>2. IsFiniteSet(BearingOn(j))  BY HiringAssumption, FS_Subset DEF BearingOn
      <4>3. /\ Cardinality(BearingOn(j) \cup {p}) = Cardinality(BearingOn(j)) + 1
            /\ Cardinality(BearingOn(j)) \in Nat
        BY <4>1, <4>2, FS_AddElement, FS_CardinalityType
      <4>4. Owed(task[w], j)' = -1  BY <2>2, <3>2 DEF Owed
      <4> QED  BY <1>2, <1>3, <3>1, <3>2, <4>1, <4>3, <4>4 DEF BooksOK, JobExists
    <3>3. CASE j # JobOf[p]
      <4>1. BearingOn(j)' = BearingOn(j)  BY <2>6, <3>3 DEF BearingOn
      <4>2. Owed(task[w], j)' = 0  BY <2>2, <3>3 DEF Owed
      <4> QED  BY <1>2, <3>1, <4>1, <4>2 DEF BooksOK, JobExists
    <3> QED  BY <3>2, <3>3
  <2>8. PendingOK(p)'  BY <1>2, <1>3 DEF PendingOK
  <2> QED  BY <1>2, <2>1, <2>2, <2>3, <2>4, <2>5, <2>7, <2>8, AskedShifts
<1> QED  BY <1>3, <1>4, <1>5 DEF InsertProposal

LEMMA AskedDecides ==
  ASSUME NEW w \in Workers, ModerationInv(w), SaveDecision(w), UNCHANGED moderationVars
  PROVE  ModerationInv(w)'
<1>1. MarketTyped /\ Asks(task[w]) /\ Finds(task[w])  BY DEF ModerationInv
<1>2. /\ task[w].pc = "saveDecision" /\ job' = job
      /\ UNCHANGED <<inactive, suspended, revived>>
  BY DEF SaveDecision, At, moderationVars
<1>3. PICK p \in Proposals :
        /\ p = task[w].proposal /\ task[w].job = JobOf[p] /\ p = Proposal(w)
        /\ proposal[p].status = "pending"
        /\ task[w].op \in {"withdraw", "acceptProposal", "rejectProposal"}
  BY <1>1, <1>2 DEF Asks, Finds, Deciding, Proposal
<1>4. /\ SetProposals({p}, Decision(task[w].op))
      /\ Continue(w, AfterDecision(task[w].op))
  BY <1>3 DEF SaveDecision, ProposalExists, Gone
<1>5. PICK s \in {"withdrawn", "accepted", "rejected"} :
        s = Decision(task[w].op) /\ (s = "withdrawn" <=> task[w].op = "withdraw")
  BY <1>3 DEF Decision
<1>6. /\ proposal' \in [Proposals -> ProposalRecord]
      /\ \A q \in Proposals :
           proposal'[q].status = IF q = p THEN s ELSE proposal[q].status
  <2>1. s \in ProposalStatuses  BY DEF ProposalStatuses
  <2> QED  BY <1>1, <1>4, <1>5, <2>1, ProposalsBecome
<1>7. p \notin suspended
  BY <1>3 DEF ModerationInv, HaltedOK
<1>8. /\ task' \in [Workers -> AskedRecord] /\ Asks(task'[w]) /\ Finds(task[w])'
      /\ task'[w].pc = IF s = "withdrawn" THEN "countDown"
                       ELSE IF s = "accepted" THEN "rejectOthers" ELSE "idle"
      /\ s = "withdrawn" => task'[w].job = JobOf[p]
  <2>1. ASSUME NEW pc \in {"countDown", "rejectOthers"}, Go(w, pc)
        PROVE  /\ task' \in [Workers -> AskedRecord] /\ task'[w].pc = pc
               /\ task'[w].job = JobOf[p] /\ Asks(task'[w]) /\ Finds(task[w])'
    <3>1. /\ task' \in [Workers -> AskedRecord] /\ task'[w].pc = pc
          /\ task'[w].job = JobOf[p] /\ task'[w].proposal = p
      BY <1>1, <1>3, <2>1, AskedGoes DEF Deciding
    <3> QED  BY <3>1 DEF Asks, Finds, JobPoints, Applying, Deciding, UserPoints
  <2>2. CASE task[w].op = "withdraw"
    <3>1. Go(w, "countDown")  BY <1>4, <2>2 DEF AfterDecision, Continue
    <3> QED  BY <1>5, <2>1, <2>2, <3>1
  <2>3. CASE task[w].op = "acceptProposal"
    <3>1. Go(w, "rejectOthers") /\ s = "accepted"
      BY <1>4, <1>5, <2>3 DEF AfterDecision, Continue, Decision
    <3> QED  BY <2>1, <3>1
  <2>4. CASE task[w].op = "rejectProposal"
    <3>1. Done(w) /\ s = "rejected"
      BY <1>4, <1>5, <2>4 DEF AfterDecision, Continue, Decision
    <3>2. task' \in [Workers -> AskedRecord] /\ task'[w].pc = "idle"
      BY <1>1, <3>1, AskedRests
    <3> QED
      BY <3>1, <3>2 DEF Asks, Finds, JobPoints, Applying, Deciding, UserPoints
  <2> QED  BY <1>3, <2>2, <2>3, <2>4
<1>9. CASE s # "withdrawn"
  <2>1. \A q \in Proposals : Stands(q)' <=> Stands(q)
    BY <1>2, <1>3, <1>6, <1>9 DEF Stands, Live, Halted, ProposalExists, Gone
  <2>2. ASSUME NEW q \in Proposals PROVE HaltedOK(task[w], q)' /\ PendingOK(q)'
    <3>1. HaltedOK(task[w], q) /\ PendingOK(q)  BY DEF ModerationInv
    <3> QED  BY <1>2, <1>6, <1>7, <3>1 DEF HaltedOK, PendingOK
  <2> QED  BY <1>2, <1>6, <1>8, <1>9, <2>1, <2>2, AskedAdvances
<1>10. CASE s = "withdrawn"
  <2>1. Stands(p) /\ ~Stands(p)' /\ \A q \in Proposals \ {p} : Stands(q)' <=> Stands(q)
    BY <1>2, <1>3, <1>6, <1>7, <1>10 DEF Stands, Live, Halted, ProposalExists, Gone
  <2>2. ASSUME NEW j \in Jobs PROVE BooksOK(task[w], j)'
    <3>1. BooksOK(task[w], j) /\ Owed(task[w], j) = 0
      BY <1>2 DEF ModerationInv, Owed
    <3>2. CASE j = JobOf[p]
      <4>1. BearingOn(j)' = BearingOn(j) \ {p} /\ p \in BearingOn(j)
        BY <2>1, <3>2 DEF BearingOn
      <4>2. IsFiniteSet(BearingOn(j))  BY HiringAssumption, FS_Subset DEF BearingOn
      <4>3. /\ Cardinality(BearingOn(j) \ {p}) = Cardinality(BearingOn(j)) - 1
            /\ Cardinality(BearingOn(j)) \in Nat
        BY <4>1, <4>2, FS_RemoveElement, FS_CardinalityType
      <4>4. Owed(task[w], j)' = 1  BY <1>8, <1>10, <3>2 DEF Owed
      <4> QED  BY <1>2, <3>1, <4>1, <4>3, <4>4 DEF BooksOK, JobExists
    <3>3. CASE j # JobOf[p]
      <4>1. BearingOn(j)' = BearingOn(j)  BY <2>1, <3>3 DEF BearingOn
      <4>2. Owed(task[w], j)' = 0  BY <1>8, <1>10, <3>3 DEF Owed
      <4> QED  BY <1>2, <3>1, <4>1, <4>2 DEF BooksOK, JobExists
    <3> QED  BY <3>2, <3>3
  <2>3. PendingOK(p)'  BY <1>6, <1>10 DEF PendingOK
  <2> QED  BY <1>2, <1>6, <1>7, <1>8, <2>2, <2>3, AskedShifts
<1> QED  BY <1>9, <1>10

LEMMA AskedRejectsOthers ==
  ASSUME NEW w \in Workers, ModerationInv(w), RejectOthers(w), UNCHANGED moderationVars
  PROVE  ModerationInv(w)'
<1>1. MarketTyped  BY DEF ModerationInv
<1>2. /\ task[w].pc = "rejectOthers" /\ job' = job /\ Done(w)
      /\ UNCHANGED <<inactive, suspended, revived>>
  BY DEF RejectOthers, At, moderationVars
<1>3. PICK ps : ps = Pending(Job(w)) \ {Proposal(w)}  OBVIOUS
<1>4. \A q \in ps : proposal[q].status = "pending"  BY <1>3 DEF Pending
<1>5. /\ proposal' \in [Proposals -> ProposalRecord]
      /\ \A q \in Proposals :
           proposal'[q].status = IF q \in ps THEN "rejected" ELSE proposal[q].status
  BY <1>1, <1>3, ProposalsBecome DEF RejectOthers, ProposalStatuses
<1>6. task' \in [Workers -> AskedRecord] /\ task'[w].pc = "idle"
  BY <1>1, <1>2, AskedRests
<1>7. Asks(task'[w]) /\ Finds(task[w])'
  BY <1>6 DEF Asks, Finds, JobPoints, Applying, Deciding, UserPoints
<1>8. \A q \in Proposals : Stands(q)' <=> Stands(q)
  BY <1>2, <1>4, <1>5 DEF Stands, Live, Halted, ProposalExists, Gone
<1>9. ASSUME NEW q \in Proposals PROVE HaltedOK(task[w], q)' /\ PendingOK(q)'
  <2>1. HaltedOK(task[w], q) /\ PendingOK(q)  BY DEF ModerationInv
  <2> QED  BY <1>2, <1>4, <1>5, <2>1 DEF HaltedOK, PendingOK
<1> QED  BY <1>2, <1>5, <1>6, <1>7, <1>8, <1>9, AskedAdvances

-----------------------------------------------------------------------------
LEMMA AskedMarks ==
  ASSUME NEW w \in Workers, ModerationInv(w), UNCHANGED moderationVars,
         SaveEdited(w) \/ \E p \in Proposals : ViewProposal(w, p)
  PROVE  ModerationInv(w)'
<1>1. MarketTyped  BY DEF ModerationInv
<1>2. /\ task[w].pc \in {"saveEdited", "idle"} /\ job' = job
      /\ UNCHANGED <<inactive, suspended, revived>>
  BY DEF SaveEdited, ViewProposal, At, May, moderationVars
<1>3. /\ proposal' \in [Proposals -> ProposalRecord]
      /\ \A q \in Proposals : proposal'[q].status = proposal[q].status
  <2>1. CASE SaveEdited(w)
    <3>1. PICK p, b : p = Proposal(w) /\ b = ProposalExists(p)  OBVIOUS
    <3>2. proposal' = [proposal EXCEPT ![p].edited = b] /\ b \in BOOLEAN
      BY <2>1, <3>1 DEF SaveEdited, ProposalExists
    <3>3. ASSUME NEW q \in Proposals
          PROVE  /\ [proposal[q] EXCEPT !.edited = b] \in ProposalRecord
                 /\ [proposal[q] EXCEPT !.edited = b].status = proposal[q].status
      <4>1. PICK d \in ProposalRecord : d = proposal[q]  BY <1>1 DEF MarketTyped
      <4> QED  BY <3>2, <4>1 DEF ProposalRecord
    <3> QED  BY <1>1, <3>2, <3>3 DEF MarketTyped
  <2>2. CASE \E p \in Proposals : ViewProposal(w, p)
    <3>1. PICK p \in Proposals : proposal' = [proposal EXCEPT ![p].viewed = TRUE]
      BY <2>2 DEF ViewProposal
    <3>2. ASSUME NEW q \in Proposals
          PROVE  /\ [proposal[q] EXCEPT !.viewed = TRUE] \in ProposalRecord
                 /\ [proposal[q] EXCEPT !.viewed = TRUE].status = proposal[q].status
      <4>1. PICK d \in ProposalRecord : d = proposal[q]  BY <1>1 DEF MarketTyped
      <4> QED  BY <4>1 DEF ProposalRecord
    <3> QED  BY <1>1, <3>1, <3>2 DEF MarketTyped
  <2> QED  BY <2>1, <2>2
<1>4. task' \in [Workers -> AskedRecord] /\ task'[w].pc = "idle"
  <2>1. CASE SaveEdited(w)
    <3>1. Done(w)  BY <2>1 DEF SaveEdited
    <3> QED  BY <1>1, <3>1, AskedRests
  <2>2. CASE \E p \in Proposals : ViewProposal(w, p)
    <3>1. task' = task /\ task[w].pc = "idle"  BY <2>2 DEF ViewProposal, May, At
    <3> QED  BY <1>1, <3>1 DEF MarketTyped
  <2> QED  BY <2>1, <2>2
<1>5. Asks(task'[w]) /\ Finds(task[w])'
  BY <1>4 DEF Asks, Finds, JobPoints, Applying, Deciding, UserPoints
<1>6. \A q \in Proposals : Stands(q)' <=> Stands(q)
  BY <1>2, <1>3 DEF Stands, Live, Halted, ProposalExists
<1>7. ASSUME NEW q \in Proposals PROVE HaltedOK(task[w], q)' /\ PendingOK(q)'
  <2>1. HaltedOK(task[w], q) /\ PendingOK(q)  BY DEF ModerationInv
  <2> QED  BY <1>2, <1>3, <2>1 DEF HaltedOK, PendingOK
<1> QED  BY <1>2, <1>3, <1>4, <1>5, <1>6, <1>7, AskedAdvances

LEMMA AskedSuspends ==
  ASSUME NEW w \in Workers, ModerationInv(w), NEW u \in AllUsers,
         Suspend(w, u) \/ Activate(w, u)
  PROVE  ModerationInv(w)'
<1>1. MarketTyped  BY DEF ModerationInv
<1>2. /\ task[w].pc = "idle" /\ job' = job /\ proposal' = proposal
      /\ suspended' = suspended /\ revived' = revived
      /\ proposal' \in [Proposals -> ProposalRecord]
  BY <1>1 DEF Suspend, Activate, May, At, hiringVars, MarketTyped
<1>3. \A q \in Proposals : Stands(q)' <=> Stands(q)
  BY <1>2 DEF Stands, Live, Halted, ProposalExists
<1>4. \A q \in Proposals : FreelancerOf[q] \in Freelancers  BY HiringAssumption
<1>5. ASSUME NEW q \in Proposals PROVE HaltedOK(task[w], q) /\ PendingOK(q)
  BY DEF ModerationInv
<1>6. ASSUME NEW op, NEW pc \in UserPoints, op \in {"suspend", "activate"},
             u \in Freelancers, Begin(w, ForUser(op, pc, u)),
             pc = "withdrawAll" => u \in inactive'
      PROVE  /\ task' \in [Workers -> AskedRecord] /\ Asks(task'[w]) /\ Finds(task[w])'
             /\ task'[w].pc = pc /\ task'[w].user = u
  <2>1. op \in AskedOps  BY <1>6 DEF AskedOps
  <2>2. /\ task' \in [Workers -> AskedRecord] /\ task'[w].pc = pc /\ task'[w].user = u
    BY <1>1, <1>6, <2>1, AskedOfUser, AskedBegins
  <2> QED
    BY <1>6, <2>2 DEF Asks, Finds, JobPoints, Applying, Deciding, UserPoints
<1>7. ASSUME UNCHANGED task
      PROVE  /\ task' \in [Workers -> AskedRecord] /\ Asks(task'[w]) /\ Finds(task[w])'
             /\ task'[w].pc = "idle"
  BY <1>1, <1>2, <1>7 DEF MarketTyped, Asks, Finds, JobPoints, Applying, Deciding, UserPoints
<1>8. CASE Suspend(w, u)
  <2>1. inactive' = inactive \cup {u}  BY <1>8 DEF Suspend
  <2>2. /\ task' \in [Workers -> AskedRecord] /\ Asks(task'[w]) /\ Finds(task[w])'
        /\ task'[w].pc \in {"idle", "withdrawAll"}
    BY <1>6, <1>7, <1>8, <2>1 DEF Suspend, UserPoints
  <2>3. \A q \in Proposals : HaltedOK(task[w], q)' /\ PendingOK(q)'
    BY <1>2, <1>5, <2>1 DEF HaltedOK, PendingOK
  <2> QED  BY <1>2, <1>3, <2>2, <2>3, AskedAdvances
<1>9. CASE Activate(w, u)
  <2>1. inactive' = inactive \ {u}  BY <1>9 DEF Activate
  <2>2. /\ task' \in [Workers -> AskedRecord] /\ Asks(task'[w]) /\ Finds(task[w])'
        /\ task'[w].pc \in {"idle", "bringBack"}
        /\ u \in Freelancers => task'[w].pc = "bringBack" /\ task'[w].user = u
    BY <1>6, <1>7, <1>9 DEF Activate, UserPoints
  <2>3. \A q \in Proposals : HaltedOK(task[w], q)' /\ PendingOK(q)'
    BY <1>2, <1>4, <1>5, <2>1, <2>2 DEF HaltedOK, PendingOK
  <2> QED  BY <1>2, <1>3, <2>2, <2>3, AskedAdvances
<1> QED  BY <1>8, <1>9

LEMMA AskedHalts ==
  ASSUME NEW w \in Workers, ModerationInv(w), WithdrawAll(w) \/ BringBack(w)
  PROVE  ModerationInv(w)'
<1>1. MarketTyped /\ Asks(task[w]) /\ Finds(task[w])  BY DEF ModerationInv
<1>2. /\ task[w].pc \in {"withdrawAll", "bringBack"} /\ job' = job /\ Done(w)
      /\ inactive' = inactive
  BY DEF WithdrawAll, BringBack, At
<1>3. task' \in [Workers -> AskedRecord] /\ task'[w].pc = "idle"
  BY <1>1, <1>2, AskedRests
<1>4. Asks(task'[w]) /\ Finds(task[w])'
  BY <1>3 DEF Asks, Finds, JobPoints, Applying, Deciding, UserPoints
<1>5. ASSUME NEW q \in Proposals PROVE HaltedOK(task[w], q) /\ PendingOK(q)
  BY DEF ModerationInv
<1>6. CASE WithdrawAll(w)
  <2>1. PICK ps : ps = {p \in Of(w) : proposal[p].status = "pending"}  OBVIOUS
  <2>2. /\ suspended' = suspended \cup ps /\ revived' = revived
        /\ task[w].user \in inactive
    BY <1>1, <1>6, <2>1 DEF WithdrawAll, Finds, At
  <2>3. /\ proposal' \in [Proposals -> ProposalRecord]
        /\ \A q \in Proposals :
             proposal'[q].status = IF q \in ps THEN "withdrawn" ELSE proposal[q].status
    BY <1>1, <1>6, <2>1, ProposalsBecome DEF WithdrawAll, ProposalStatuses
  <2>4. \A q \in ps : proposal[q].status = "pending" /\ FreelancerOf[q] = task[w].user
    BY <2>1 DEF Of
  <2>5. \A q \in Proposals : Stands(q)' <=> Stands(q)
    BY <2>2, <2>3, <2>4 DEF Stands, Live, Halted, ProposalExists, Gone
  <2>6. task[w].pc # "bringBack"  BY <1>6 DEF WithdrawAll, At
  <2>7. \A q \in Proposals : HaltedOK(task[w], q)' /\ PendingOK(q)'
    BY <1>2, <1>5, <2>2, <2>3, <2>4, <2>6 DEF HaltedOK, PendingOK
  <2>8. suspended' \subseteq suspended \cup Proposals  BY <2>1, <2>2 DEF Of
  <2> QED  BY <1>2, <1>3, <1>4, <2>3, <2>5, <2>7, <2>8, AskedAdvances
<1>7. CASE BringBack(w)
  <2>1. PICK ps : ps = {p \in Of(w) \cap suspended : proposal[p].status = "withdrawn"}
    OBVIOUS
  <2>2. suspended' = suspended \ ps /\ revived' = revived \cup ps
    BY <1>7, <2>1 DEF BringBack
  <2>3. /\ proposal' \in [Proposals -> ProposalRecord]
        /\ \A q \in Proposals :
             proposal'[q].status = IF q \in ps THEN "pending" ELSE proposal[q].status
    BY <1>1, <1>7, <2>1, ProposalsBecome DEF BringBack, ProposalStatuses
  <2>4. /\ \A q \in ps : proposal[q].status = "withdrawn" /\ q \in suspended
        /\ \A q \in Proposals : /\ FreelancerOf[q] = task[w].user /\ q \in suspended
                                /\ proposal[q].status = "withdrawn"
                                => q \in ps
    BY <2>1 DEF Of
  <2>5. \A q \in Proposals : Stands(q)' <=> Stands(q)
    BY <2>2, <2>3, <2>4 DEF Stands, Live, Halted, ProposalExists, Gone
  <2>6. ASSUME NEW q \in Proposals PROVE HaltedOK(task[w], q)' /\ PendingOK(q)'
    <3>1. CASE q \in ps
      BY <2>2, <2>3, <3>1 DEF HaltedOK, PendingOK
    <3>2. CASE q \notin ps
      BY <1>2, <1>5, <2>2, <2>3, <2>4, <3>2 DEF HaltedOK, PendingOK
    <3> QED  BY <3>1, <3>2
  <2>7. suspended' \subseteq suspended \cup Proposals  BY <2>2
  <2> QED  BY <1>2, <1>3, <1>4, <2>3, <2>5, <2>6, <2>7, AskedAdvances
<1> QED  BY <1>6, <1>7

LEMMA AskedCreates ==
  ASSUME NEW w \in Workers, ModerationInv(w), NEW j \in Jobs, CreateJob(w, j),
         UNCHANGED moderationVars
  PROVE  ModerationInv(w)'
<1>1. MarketTyped  BY DEF ModerationInv
<1>2. PICK s \in {"draft", "open"} : job' = [job EXCEPT ![j].status = s]
  BY DEF CreateJob
<1>3. /\ task[w].pc = "idle" /\ UNCHANGED <<proposal, moderationVars>> /\ task' = task
      /\ job[j].status = "none" /\ job[j] \in JobRecord
  BY <1>1 DEF CreateJob, May, At, MarketTyped
<1>4. /\ job' \in [Jobs -> JobRecord]
      /\ \A k \in Jobs :
           /\ job'[k].proposals = job[k].proposals /\ job'[k].deleted = job[k].deleted
           /\ job'[k].status = IF k = j THEN s ELSE job[k].status
  BY <1>1, <1>2, <1>3 DEF MarketTyped, JobRecord, JobStatuses
<1>5. \A k : BearingOn(k)' = BearingOn(k)  BY <1>3, SameBearing
<1>6. ASSUME NEW k \in Jobs PROVE BooksOK(task[w], k)'
  <2>1. BooksOK(task[w], k) /\ Owed(task[w], k) = 0 /\ Owed(task[w], k)' = 0
    BY <1>3 DEF ModerationInv, Owed
  <2>2. CASE k = j
    <3>1. BearingOn(k) = {} /\ job[k].proposals = 0
      BY <1>3, <2>1, <2>2 DEF BooksOK
    <3>2. Cardinality({}) = 0  BY FS_EmptySet
    <3>3. BearingOn(k)' = {} /\ job'[k].proposals = 0 /\ job'[k].status # "none"
      BY <1>4, <1>5, <2>2, <3>1
    <3> QED  BY <2>1, <3>2, <3>3 DEF BooksOK
  <2>3. CASE k # j
    BY <1>4, <1>5, <2>1, <2>3 DEF BooksOK, JobExists
  <2> QED  BY <2>2, <2>3
<1>7. \A p \in Proposals : PendingOK(p)'
  BY <1>3, <1>4, HiringAssumption DEF ModerationInv, PendingOK, moderationVars
<1>8. task' \in [Workers -> AskedRecord] /\ task'[w].pc = "idle"
  BY <1>1, <1>3 DEF MarketTyped
<1> QED  BY <1>3, <1>4, <1>6, <1>7, <1>8, AskedSaves

\* The calls that only requests of contracts make.
LEMMA NotAsked ==
  ASSUME NEW w \in Workers, ModerationInv(w)
  PROVE  ~MarkJob(w) /\ ~MarkProposal(w) /\ ~MarkProposalClosed(w)
<1>1. task[w].pc \in {"idle"} \cup JobPoints \cup Applying \cup Deciding \cup UserPoints
  BY DEF ModerationInv, MarketTyped, AskedRecord
<1> QED
  BY <1>1 DEF MarkJob, MarkProposal, MarkProposalClosed, At, JobPoints, Applying,
              Deciding, UserPoints

LEMMA ModerationInvStep ==
  ASSUME NEW w, Workers = {w}, "sweepFails" \notin Operations
  PROVE  ModerationInv(w) /\ [ModerationNext]_moderatedVars
           => ModerationInv(w)'
<1> SUFFICES ASSUME ModerationInv(w), [ModerationNext]_moderatedVars
             PROVE  ModerationInv(w)'
  OBVIOUS
<1>1. w \in Workers  OBVIOUS
<1>2. CASE UNCHANGED moderatedVars
  <2>1. UNCHANGED <<job, proposal, task, inactive, suspended, revived>>
    BY <1>2 DEF moderatedVars, hiringVars, moderationVars
  <2>2. \A j : BearingOn(j)' = BearingOn(j) /\ Pending(j)' = Pending(j)
    BY <2>1 DEF BearingOn, Stands, Live, Halted, ProposalExists, Pending
  <2> QED
    BY <2>1, <2>2 DEF ModerationInv, MarketTyped, Finds, BooksOK, JobExists, HaltedOK,
                      PendingOK
<1>3. CASE HiringRequest(w) /\ UNCHANGED moderationVars
  <2>1. ASSUME NEW j \in Jobs, JobRequest(w, j) PROVE ModerationInv(w)'
    BY <1>1, <1>3, <2>1, AskedCreates, AskedJobRequest DEF JobRequest
  <2>2. ASSUME NEW p \in Proposals, ProposalRequest(w, p),
               Party(task'[w].op, p) \notin inactive
        PROVE  ModerationInv(w)'
    BY <1>1, <1>3, <2>2, AskedProposalRequest, AskedMarks DEF ProposalRequest
  <2>3. CASE JobCall(w)
    <3>1. ~SweepFails(w) /\ ~MarkJob(w)  BY <1>1, NotAsked DEF SweepFails
    <3> QED  BY <1>1, <1>3, <2>3, <3>1, AskedSweeps, AskedJobCall DEF JobCall
  <2>4. CASE ProposalCall(w)
    <3>1. ~MarkProposal(w) /\ ~MarkProposalClosed(w)  BY <1>1, NotAsked
    <3> QED
      BY <1>1, <1>3, <2>4, <3>1, AskedApplies, AskedDeletesEarlier, AskedInserts,
         AskedCounts, AskedMarks, AskedDecides, AskedRejectsOthers DEF ProposalCall
  <2> QED  BY <1>3, <2>1, <2>2, <2>3, <2>4 DEF HiringRequest
<1>4. CASE ModerationStep(w)
  BY <1>1, <1>4, AskedModeration, AskedSuspends, AskedHalts DEF ModerationStep
<1> QED  BY <1>2, <1>3, <1>4 DEF ModerationNext

LEMMA ModerationInvInit ==
  ASSUME NEW w \in Workers, ModeratedInit
  PROVE  ModerationInv(w)
<1>1. /\ Idle \in AskedRecord /\ Idle.pc = "idle" /\ task[w] = Idle
      /\ task \in [Workers -> AskedRecord]
  BY AskedIs DEF ModeratedInit, Idle, AskedOps
<1>2. /\ \A j \in Jobs : job[j] = NoJob
      /\ \A p \in Proposals : proposal[p] = NoProposal
      /\ suspended = {} /\ revived = {}
  BY DEF ModeratedInit, HiringInit, ModerationInit
<1>3. MarketTyped
  BY <1>1, <1>2 DEF ModeratedInit, HiringInit, MarketTyped, NoJob, JobRecord,
                    NoProposal, ProposalRecord, Gone
<1>4. \A j : BearingOn(j) = {}
  BY <1>2 DEF BearingOn, Stands, Live, Halted, ProposalExists, NoProposal, Gone
<1>5. \A j \in Jobs : BooksOK(task[w], j)
  BY <1>2, <1>4 DEF BooksOK, JobExists, NoJob, Gone
<1>6. \A p \in Proposals : HaltedOK(task[w], p) /\ PendingOK(p)
  BY <1>2 DEF HaltedOK, PendingOK, NoProposal
<1> QED  BY <1>1, <1>3, <1>5, <1>6, Settles DEF ModerationInv

LEMMA ModerationInvSays ==
  ASSUME NEW w, Workers = {w}, ModerationInv(w)
  PROVE  NoOrphanProposal /\ CountIsLive
<1>1. \A p \in Proposals : JobOf[p] \in Jobs  BY HiringAssumption
<1>2. NoOrphanProposal
  <2> SUFFICES ASSUME NEW p \in Proposals
      PROVE  /\ Live(p) => ~job[JobOf[p]].deleted
             /\ proposal[p].status = "pending" =>
                  job[JobOf[p]].status # "closed" \/ p \in revived
    BY DEF NoOrphanProposal
  <2>1. BooksOK(task[w], JobOf[p]) /\ PendingOK(p)  BY <1>1 DEF ModerationInv
  <2>2. Live(p) => p \in BearingOn(JobOf[p])  BY DEF BearingOn, Stands
  <2> QED  BY <2>1, <2>2 DEF BooksOK, PendingOK
<1>3. CountIsLive
  <2> SUFFICES ASSUME Quiet, NEW j \in Jobs, JobExists(j)
      PROVE  job[j].proposals =
               Cardinality(LiveOn(j) \cup
                 {p \in suspended : JobOf[p] = j /\ proposal[p].status = "withdrawn"})
    BY DEF CountIsLive
  <2>1. task[w].pc = "idle"  BY DEF Quiet, At
  <2>2. BooksOK(task[w], j) /\ Owed(task[w], j) = 0
    BY <2>1 DEF ModerationInv, Owed
  <2>3. BearingOn(j) = LiveOn(j) \cup
          {p \in suspended : JobOf[p] = j /\ proposal[p].status = "withdrawn"}
    BY DEF BearingOn, Stands, LiveOn, Halted, ModerationInv, MarketTyped
  <2>4. IsFiniteSet(BearingOn(j))  BY HiringAssumption, FS_Subset DEF BearingOn
  <2>5. Cardinality(BearingOn(j)) \in Nat  BY <2>4, FS_CardinalityType
  <2> QED  BY <2>2, <2>3, <2>5 DEF BooksOK
<1> QED  BY <1>2, <1>3

LEMMA ModerationInvHolds ==
  ASSUME NEW w, Workers = {w}, "sweepFails" \notin Operations
  PROVE  ModerationSpec => []ModerationInv(w)
<1>1. ModeratedInit => ModerationInv(w)
  BY ModerationInvInit
<1>2. ModerationInv(w) /\ [ModerationNext]_moderatedVars
        => ModerationInv(w)'
  BY ModerationInvStep
<1> QED  BY <1>1, <1>2, PTL DEF ModerationSpec

(* Whatever the clients, freelancers and admins ask for one after the      *)
(* other, no live proposal is left on a deleted job, nor a pending one on  *)
(* a closed job unless an activation brought it back.                      *)
THEOREM NoProposalIsOrphaned ==
  ASSUME NEW w, Workers = {w}, "sweepFails" \notin Operations
  PROVE  ModerationSpec => []NoOrphanProposal
<1>1. ModerationInv(w) => NoOrphanProposal  BY ModerationInvSays
<1> QED  BY <1>1, ModerationInvHolds, PTL

(* Between such requests proposalsCount counts the live proposals and      *)
(* those that a suspension has withdrawn.                                  *)
THEOREM ProposalsAreCounted ==
  ASSUME NEW w, Workers = {w}, "sweepFails" \notin Operations
  PROVE  ModerationSpec => []CountIsLive
<1>1. ModerationInv(w) => CountIsLive  BY ModerationInvSays
<1> QED  BY <1>1, ModerationInvHolds, PTL
=============================================================================
