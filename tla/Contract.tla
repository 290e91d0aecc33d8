------------------------------ MODULE Contract ------------------------------
(***************************************************************************)
(* Contracts, their milestones and disputes, with the hiring that precedes *)
(* them: src/modules/contracts/contract.service.js, contract.constants.js, *)
(* src/models/Contract.js and src/modules/disputes/dispute.service.js.     *)
(*                                                                         *)
(* The index on Contract.proposal is unique, so a contract is named by its *)
(* proposal.  escrow keeps the status of the escrow of each milestone and, *)
(* under the proposal's name, of the contract's initial escrow; FUNDED and *)
(* LOCKED are one status here, as every test of these requests takes both. *)
(* What releasing an escrow does to the wallets is module Escrow's.        *)
(*                                                                         *)
(* Mongoose versions documents with arrays.  A save that sets a field of a *)
(* milestone is refused (VersionError) when the array has been pushed to,  *)
(* or replaced as a whole, since the document was read; a save of the      *)
(* status alone is never refused.  task[w].current says that nobody has    *)
(* done so.                                                                *)
(***************************************************************************)
EXTENDS Hiring

CONSTANTS
  Milestones,   \* identities of milestones
  ProposalOf,   \* milestone -> the proposal of its contract
  Disputes      \* identities of disputes

ASSUME ContractAssumption ==
  /\ ProposalOf \in [Milestones -> Proposals]
  /\ None \notin Milestones \cup Disputes
  /\ Milestones \cap Proposals = {}

VARIABLES
  milestone,  \* the status of each milestone
  escrow,     \* the status of each escrow
  paid,       \* the escrows that have been paid out
  dispute     \* the stored Dispute documents

contractVars == <<contract, milestone, escrow, paid, dispute>>
vars == <<job, proposal, contract, milestone, escrow, paid, dispute, task>>

ContractStatuses == {"pending", "active", "in_review", "completed", "closed",
                     "cancelled", "disputed"}
MilestoneStatuses == {"pending", "in_progress", "in_review",
                      "revision_requested", "completed"}
EscrowStatuses == {"none", "CREATED", "LOCKED", "RELEASED", "REFUNDED",
                   "DISPUTED", "EXPIRED"}
DisputeStatuses == {"OPEN", "RESOLVED", "REJECTED"}
Keys == Milestones \cup Proposals

ContractRecord == [status : ContractStatuses \cup {"none"},
                   payment : {"PENDING", "FUNDED", "COMPLETED"}]
DisputeRecord == [status : DisputeStatuses \cup {"none"},
                  on : Proposals \cup {None}]
Points == {"idle", "sweep", "saveJob", "findContract", "markJob", "removeJob",
           "saveDeleted", "readJob", "findEarlier", "deleteEarlier", "insert",
           "countUp", "saveEdited", "saveDecision", "countDown",
           "rejectOthers", "markProposal", "markProposalClosed",
           "insertContract", "setPaid", "fundNext", "lock", "claim",
           "saveAccepted", "saveStatus", "readEscrow", "release", "pay",
           "saveReleased", "saveMilestone", "pushMilestone", "insertDispute",
           "listEscrows", "freezeNext", "saveDispute", "countOpen",
           "readDisputed"}
Ops == {"none", "postJob", "viewJob", "updateJob", "updateJobStatus", "closeJob",
        "deleteJob", "apply", "edit", "withdraw", "acceptProposal", "rejectProposal",
        "hire", "confirm", "accept", "decline", "cancel", "startContract",
        "submitWork", "requestRevision", "approveWork", "complete", "close",
        "addMilestone", "fund", "start", "submit", "approve", "revise",
        "openDispute", "closeDispute"}
Statuses == JobStatuses \cup ContractStatuses \cup MilestoneStatuses
            \cup DisputeStatuses \cup {"none", "LOCKED"}
TaskRecord == [op : Ops, pc : Points, job : Jobs \cup {None},
               proposal : Proposals \cup {None}, other : Proposals \cup {None},
               to : Statuses, milestone : Milestones \cup {None},
               left : SUBSET Keys, user : {None}, dispute : Disputes \cup {None},
               current : BOOLEAN]

(* At every point a request holds what it is about to write.               *)
TaskOK(t) ==
  /\ t.pc # "idle" => t.job \in Jobs
  /\ t.op \in {"none", "postJob", "viewJob", "updateJob", "updateJobStatus",
               "closeJob", "deleteJob"} \/ t.proposal \in Proposals
  /\ t.pc = "saveJob" => t.to \in JobStatuses
  /\ t.pc = "saveStatus" => t.to \in ContractStatuses
  /\ t.pc = "saveMilestone" => t.to \in MilestoneStatuses \cup {"none"}
  /\ t.pc = "saveDispute" => t.to \in DisputeStatuses

TypeOK ==
  /\ job \in [Jobs -> JobRecord]
  /\ proposal \in [Proposals -> ProposalRecord]
  /\ contract \in [Proposals -> ContractRecord]
  /\ milestone \in [Milestones -> MilestoneStatuses \cup {"none"}]
  /\ escrow \in [Keys -> EscrowStatuses]
  /\ paid \subseteq Keys
  /\ dispute \in [Disputes -> DisputeRecord]
  /\ task \in [Workers -> TaskRecord]
  /\ \A w \in Workers : TaskOK(task[w])

Init ==
  /\ HiringInit
  /\ contract = [p \in Proposals |-> [status |-> "none", payment |-> "PENDING"]]
  /\ milestone = [m \in Milestones |-> "none"]
  /\ escrow = [k \in Keys |-> "none"]
  /\ paid = {}
  /\ dispute = [d \in Disputes |-> [status |-> "none", on |-> None]]
  /\ task = [w \in Workers |-> Idle]
-----------------------------------------------------------------------------
MilestonesOf(p) == {m \in Milestones : ProposalOf[m] = p /\ milestone[m] # "none"}
Unfinished(p) == {m \in MilestonesOf(p) : milestone[m] # "completed"}
EscrowsOf(p) == MilestonesOf(p) \cup {p}
OpenDisputes(p) == {d \in Disputes : dispute[d].on = p /\ dispute[d].status = "OPEN"}
Exists(p) == contract[p].status # "none"

Milestone(w) == task[w].milestone
\* The escrow a release is about: the milestone's, or the initial one.
Escrow(w) == IF task[w].op = "approve" THEN Milestone(w) ELSE Proposal(w)

(* The save of w changes the milestones array itself: what others have     *)
(* read of the contract is no longer current.                              *)
Outdate(w, r) ==
  task' = [v \in Workers |->
    IF v = w THEN r
    ELSE IF task[v].proposal = Proposal(w) THEN [task[v] EXCEPT !.current = FALSE]
    ELSE task[v]]

SetStatus(p, status) == contract' = [contract EXCEPT ![p].status = status]
SetMilestone(m, status) == milestone' = [milestone EXCEPT ![m] = status]
SetEscrow(k, status) == escrow' = [escrow EXCEPT ![k] = status]

OnMilestone(op, pc, m) ==
  [OnProposal(op, pc, ProposalOf[m]) EXCEPT !.milestone = m]
-----------------------------------------------------------------------------
(* createFromProposal: the initial escrow is locked from the wallet or     *)
(* waits for a gateway; the unique index refuses a second contract.        *)
Hire(w, p) ==
  /\ May(w, "hire")
  /\ proposal[p].status = "accepted"
  /\ ~Exists(p)
  /\ Begin(w, OnProposal("hire", "insertContract", p))
  /\ UNCHANGED contractVars
InsertContract(w) ==
  /\ At(w, "insertContract")
  /\ IF Exists(Proposal(w)) THEN Done(w) /\ UNCHANGED <<contract, milestone, escrow>>
     ELSE \E ms \in SUBSET {m \in Milestones : ProposalOf[m] = Proposal(w)},
             payment \in {"FUNDED", "PENDING"} :
            /\ contract' = [contract EXCEPT ![Proposal(w)] =
                              [status |-> "pending", payment |-> payment]]
            /\ milestone' = [m \in Milestones |->
                               IF m \in ms THEN "pending" ELSE milestone[m]]
            /\ SetEscrow(Proposal(w), IF payment = "FUNDED" THEN "LOCKED" ELSE "CREATED")
            /\ IF payment = "FUNDED"
               THEN task' = [task EXCEPT ![w].pc = "fundNext", ![w].left = ms]
               ELSE Done(w)
  /\ UNCHANGED <<paid, dispute>>

\* A deposit is confirmed: the escrow is funded, unless it was before, then the
\* contract is told, whatever has become of the escrow.
ConfirmPayment(w, p) ==
  /\ May(w, "confirm")
  /\ Exists(p)
  /\ SetEscrow(p, IF escrow[p] = "CREATED" THEN "LOCKED" ELSE escrow[p])
  /\ Begin(w, OnProposal("confirm", "setPaid", p))
  /\ UNCHANGED <<contract, milestone, paid, dispute>>
SetPaid(w) ==
  /\ At(w, "setPaid")
  /\ contract' = [contract EXCEPT ![Proposal(w)].payment = "COMPLETED"]
  /\ Done(w)
  /\ UNCHANGED <<milestone, escrow, paid, dispute>>

\* Mutant: the payment is not looked at.
AcceptUnpaid(w, p) ==
  /\ May(w, "accept")
  /\ contract[p].status = "pending"
  /\ Begin(w, [OnProposal("accept", "markJob", p)
                 EXCEPT !.to = "in-progress", !.left = MilestonesOf(p)])
  /\ UNCHANGED contractVars
\* respondToContract, accepting: the job is marked before the contract.
Accept(w, p) ==
  /\ May(w, "accept")
  /\ contract[p].status = "pending" /\ contract[p].payment # "PENDING"
  /\ Begin(w, [OnProposal("accept", "markJob", p)
                 EXCEPT !.to = "in-progress", !.left = MilestonesOf(p)])
  /\ UNCHANGED contractVars
\* Mutant: the contract is given the status of the job.
SaveJobStatus(w) ==
  /\ At(w, "saveAccepted")
  /\ SetStatus(Proposal(w), "in-progress")
  /\ Go(w, "fundNext")
  /\ UNCHANGED <<milestone, escrow, paid, dispute>>
SaveAccepted(w) ==
  /\ At(w, "saveAccepted")
  /\ SetStatus(Proposal(w), "active")
  /\ Go(w, "fundNext")
  /\ UNCHANGED <<milestone, escrow, paid, dispute>>

(* The next milestone whose escrow is to be created and locked.  Creation  *)
(* may be refused (the amount does not cover the fee).                     *)
FundNext(w) ==
  /\ At(w, "fundNext")
  /\ \/ task[w].left = {} /\ Done(w) /\ UNCHANGED escrow
     \/ \E m \in task[w].left :
          LET next == [task[w] EXCEPT !.milestone = m, !.left = @ \ {m}]
              after == CASE task[w].op = "fund" -> "claim"
                         [] task[w].op = "addMilestone" /\ task[w].to = "none" -> "fundNext"
                         [] OTHER -> "lock"
          IN  \/ /\ escrow[m] = "none"
                 /\ SetEscrow(m, "CREATED")
                 /\ Begin(w, [next EXCEPT !.pc = after])
              \/ escrow[m] = "none" /\ Begin(w, next) /\ UNCHANGED escrow
              \/ /\ escrow[m] = "CREATED" /\ task[w].op \in {"accept", "fund"}
                 /\ Begin(w, [next EXCEPT !.pc = after]) /\ UNCHANGED escrow
              \/ /\ escrow[m] # "none"
                 /\ ~(escrow[m] = "CREATED" /\ task[w].op \in {"accept", "fund"})
                 /\ Begin(w, next) /\ UNCHANGED escrow
  /\ UNCHANGED <<contract, milestone, paid, dispute>>
\* findByIdAndUpdate with no status in its filter.
Lock(w) ==
  /\ At(w, "lock")
  /\ SetEscrow(Milestone(w), "LOCKED")
  /\ Go(w, IF task[w].op = "start" THEN "saveMilestone" ELSE "fundNext")
  /\ UNCHANGED <<contract, milestone, paid, dispute>>
\* fundEscrow claims by status (module Escrow).
Claim(w) ==
  /\ At(w, "claim")
  /\ escrow' = [escrow EXCEPT ![Milestone(w)] = IF @ = "CREATED" THEN "LOCKED" ELSE @]
  /\ Done(w)
  /\ UNCHANGED <<contract, milestone, paid, dispute>>

\* addMilestone and fundMilestoneEscrow: canAddMilestone.
AddMilestone(w, m) ==
  LET p == ProposalOf[m]
  IN  /\ May(w, "addMilestone")
      /\ milestone[m] = "none"
      /\ contract[p].status \in {"pending", "active"}
      /\ Begin(w, [OnMilestone("addMilestone", "pushMilestone", m) EXCEPT
                     !.left = {m},
                     !.to = IF contract[p].status = "active" THEN "LOCKED" ELSE "none"])
      /\ UNCHANGED contractVars
PushMilestone(w) ==
  /\ At(w, "pushMilestone")
  /\ IF milestone[Milestone(w)] = "none"
     THEN /\ SetMilestone(Milestone(w), "pending")
          /\ Outdate(w, [task[w] EXCEPT !.pc = "fundNext"])
     ELSE Done(w) /\ UNCHANGED milestone
  /\ UNCHANGED <<contract, escrow, paid, dispute>>
FundMilestone(w, m) ==
  /\ May(w, "fund")
  /\ milestone[m] # "none"
  /\ contract[ProposalOf[m]].status \in {"pending", "active"}
  /\ Begin(w, [OnMilestone("fund", "fundNext", m) EXCEPT !.left = {m}])
  /\ UNCHANGED contractVars
-----------------------------------------------------------------------------
(* Requests on the status of a contract: the status each one requires and  *)
(* the one it saves.                                                       *)
StatusRequests == {<<"decline", "pending", "cancelled">>,
                   <<"cancel", "pending", "cancelled">>,
                   <<"cancel", "active", "cancelled">>,
                   <<"submitWork", "active", "in_review">>,
                   <<"requestRevision", "in_review", "active">>,
                   <<"complete", "active", "completed">>,
                   <<"close", "completed", "closed">>}
RequestStatus(w, p) ==
  /\ \E r \in StatusRequests :
       /\ May(w, r[1])
       /\ contract[p].status = r[2]
       /\ Begin(w, [OnProposal(r[1], "saveStatus", p) EXCEPT !.to = r[3]])
  /\ UNCHANGED contractVars
StartContract(w, p) ==
  /\ May(w, "startContract")
  /\ contract[p].status = "pending" /\ contract[p].payment = "COMPLETED"
  /\ Begin(w, [OnProposal("startContract", "saveStatus", p) EXCEPT !.to = "active"])
  /\ UNCHANGED contractVars
\* The initial escrow is released before the status is saved.
ApproveWork(w, p) ==
  /\ May(w, "approveWork")
  /\ contract[p].status = "in_review"
  /\ Begin(w, [OnProposal("approveWork", "readEscrow", p) EXCEPT !.to = "completed"])
  /\ UNCHANGED contractVars

(* save() of the status, and what each request does next.  submitWork and  *)
(* requestRevision also push to an array of the contract.                  *)
SaveStatus(w) ==
  LET op == task[w].op
      then(pc, to) == Begin(w, [task[w] EXCEPT !.pc = pc, !.to = to])
  IN  /\ At(w, "saveStatus")
      /\ SetStatus(Proposal(w), task[w].to)
      /\ CASE op \in {"approve", "approveWork", "complete"} -> then("markJob", "completed")
           [] op = "startContract" -> then("markJob", "in-progress")
           [] op = "close" -> Go(w, "markProposalClosed")
           [] op = "openDispute" -> Go(w, "listEscrows")
           [] op \in {"submitWork", "requestRevision"} -> Outdate(w, Idle)
           [] OTHER -> Done(w)
      /\ UNCHANGED <<milestone, escrow, paid, dispute>>
-----------------------------------------------------------------------------
(* startMilestone.  The test that no other milestone is under way is made  *)
(* on the document read at the beginning, after the escrow has been locked *)
(* if it was not.                                                          *)
\* Mutant: only milestones under review count.
BusyInReview(m) == \E n \in MilestonesOf(ProposalOf[m]) \ {m} : milestone[n] = "in_review"
Busy(m) == \E n \in MilestonesOf(ProposalOf[m]) \ {m} :
             milestone[n] \in {"in_progress", "in_review"}
Start(w, m) ==
  /\ May(w, "start")
  /\ contract[ProposalOf[m]].status = "active"
  /\ milestone[m] \in {"pending", "revision_requested"}
  /\ ~Busy(m) \/ escrow[m] \in {"none", "CREATED", "EXPIRED"}
  /\ Begin(w, [OnMilestone("start", "readEscrow", m) EXCEPT
                 !.to = IF Busy(m) THEN "none" ELSE "in_progress"])
  /\ UNCHANGED contractVars
Submit(w, m) ==
  /\ May(w, "submit")
  /\ contract[ProposalOf[m]].status = "active"
  /\ milestone[m] \in {"in_progress", "revision_requested"}
  /\ Begin(w, [OnMilestone("submit", "saveMilestone", m) EXCEPT !.to = "in_review"])
  /\ UNCHANGED contractVars
\* Mutant: the milestone counts itself among the unfinished.
ApproveCountingItself(w, m) ==
  /\ May(w, "approve")
  /\ milestone[m] = "in_review"
  /\ Begin(w, [OnMilestone("approve", "readEscrow", m) EXCEPT
                 !.to = "completed", !.left = Unfinished(ProposalOf[m])])
  /\ UNCHANGED contractVars
\* approveMilestoneWork and requestMilestoneRevision do not read the status.
Approve(w, m) ==
  /\ May(w, "approve")
  /\ milestone[m] = "in_review"
  /\ Begin(w, [OnMilestone("approve", "readEscrow", m) EXCEPT
                 !.to = "completed", !.left = Unfinished(ProposalOf[m]) \ {m}])
  /\ UNCHANGED contractVars
RequestMilestoneRevision(w, m) ==
  /\ May(w, "revise")
  /\ milestone[m] = "in_review"
  /\ Begin(w, [OnMilestone("revise", "saveMilestone", m) EXCEPT
                 !.to = "revision_requested"])
  /\ UNCHANGED contractVars

\* Mutant: an escrow that cannot be released does not stop the approval.
ReadAnyEscrow(w) ==
  /\ At(w, "readEscrow")
  /\ Go(w, CASE task[w].op = "start" -> "lock"
             [] task[w].op # "start" /\ escrow[Escrow(w)] = "LOCKED" -> "release"
             [] task[w].op = "approveWork" /\ escrow[Escrow(w)] # "LOCKED"
                  -> "saveStatus"
             [] OTHER -> "saveMilestone")
  /\ UNCHANGED contractVars
(* approveMilestoneWork releases a funded escrow, accepts a released one   *)
(* and refuses any other; approveWork goes on in any case; startMilestone  *)
(* creates and locks what is not funded.                                   *)
ReadEscrow(w) ==
  LET k == IF task[w].op = "start" THEN Milestone(w) ELSE Escrow(w)
      save == IF task[w].op = "approveWork" THEN "saveStatus" ELSE "saveMilestone"
  IN  /\ At(w, "readEscrow")
      /\ CASE task[w].op = "start" /\ escrow[k] = "none"
                -> \/ SetEscrow(k, "CREATED") /\ Go(w, "lock")
                   \/ Done(w) /\ UNCHANGED escrow
           [] task[w].op = "start" /\ escrow[k] \in {"CREATED", "EXPIRED"}
                -> Go(w, "lock") /\ UNCHANGED escrow
           [] task[w].op # "start" /\ escrow[k] = "LOCKED"
                -> Go(w, "release") /\ UNCHANGED escrow
           [] task[w].op = "approve" /\ escrow[k] \notin {"LOCKED", "RELEASED"}
                -> Done(w) /\ UNCHANGED escrow
           [] OTHER -> Go(w, save) /\ UNCHANGED escrow
      /\ UNCHANGED <<contract, milestone, paid, dispute>>
\* releaseEscrow reads escrow and milestone again, pays (or is refused) and
\* saves.
Release(w) ==
  /\ At(w, "release")
  /\ IF /\ escrow[Escrow(w)] = "LOCKED"
        /\ task[w].op = "approve" => milestone[Milestone(w)] \in {"in_review", "completed"}
     THEN Go(w, "pay") ELSE Done(w)
  /\ UNCHANGED contractVars
Pay(w) ==
  /\ At(w, "pay")
  /\ \/ paid' = paid \cup {Escrow(w)} /\ Go(w, "saveReleased")
     \/ paid' = paid /\ Done(w)
  /\ UNCHANGED <<contract, milestone, escrow, dispute>>
SaveReleased(w) ==
  /\ At(w, "saveReleased")
  /\ SetEscrow(Escrow(w), "RELEASED")
  /\ Go(w, IF task[w].op = "approve" THEN "saveMilestone" ELSE "saveStatus")
  /\ UNCHANGED <<contract, milestone, paid, dispute>>

(* save() of a milestone's status.  A revision replaces the deliverables,  *)
(* a submission may: then the array's version changes.  The approval that  *)
(* leaves nothing unfinished in its copy completes the contract.           *)
SaveMilestone(w) ==
  LET op == task[w].op
  IN  /\ At(w, "saveMilestone")
      /\ IF task[w].current /\ task[w].to # "none"
         THEN /\ SetMilestone(Milestone(w), task[w].to)
              /\ \/ op \in {"submit", "revise"} /\ Outdate(w, Idle)
                 \/ op \in {"submit", "start"} /\ Done(w)
                 \/ /\ op = "approve"
                    /\ IF task[w].left = {} THEN Go(w, "saveStatus") ELSE Done(w)
         ELSE Done(w) /\ UNCHANGED milestone
      /\ UNCHANGED <<contract, escrow, paid, dispute>>
-----------------------------------------------------------------------------
\* createDispute accepts a contract in any status.
OpenDispute(w, p, d) ==
  /\ May(w, "openDispute")
  /\ Exists(p) /\ dispute[d].status = "none"
  /\ Begin(w, [OnProposal("openDispute", "insertDispute", p) EXCEPT
                 !.dispute = d,
                 !.to = IF contract[p].status = "disputed" THEN "none" ELSE "disputed"])
  /\ UNCHANGED contractVars
InsertDispute(w) ==
  LET d == task[w].dispute
  IN  /\ At(w, "insertDispute")
      /\ IF dispute[d].status = "none"
         THEN /\ dispute' = [dispute EXCEPT ![d] = [status |-> "OPEN", on |-> Proposal(w)]]
              /\ Go(w, IF task[w].to = "disputed" THEN "saveStatus" ELSE "listEscrows")
         ELSE Done(w) /\ UNCHANGED dispute
      /\ UNCHANGED <<contract, milestone, escrow, paid>>
ListEscrows(w) ==
  /\ At(w, "listEscrows")
  /\ task' = [task EXCEPT ![w].pc = "freezeNext",
                ![w].left = {k \in EscrowsOf(Proposal(w)) : escrow[k] = "LOCKED"}]
  /\ UNCHANGED contractVars
\* One that can no longer be frozen ends the loop.
FreezeNext(w) ==
  /\ At(w, "freezeNext")
  /\ \/ task[w].left = {} /\ Done(w) /\ UNCHANGED escrow
     \/ \E k \in task[w].left :
          IF escrow[k] = "LOCKED"
          THEN SetEscrow(k, "DISPUTED") /\ task' = [task EXCEPT ![w].left = @ \ {k}]
          ELSE Done(w) /\ UNCHANGED escrow
  /\ UNCHANGED <<contract, milestone, paid, dispute>>

\* resolveDispute and rejectDispute.
CloseDispute(w, d) ==
  /\ May(w, "closeDispute")
  /\ dispute[d].status = "OPEN"
  /\ \E to \in {"RESOLVED", "REJECTED"} :
       Begin(w, [OnProposal("closeDispute", "saveDispute", dispute[d].on) EXCEPT
                   !.dispute = d, !.to = to])
  /\ UNCHANGED contractVars
SaveDispute(w) ==
  /\ At(w, "saveDispute")
  /\ dispute' = [dispute EXCEPT ![task[w].dispute].status = task[w].to]
  /\ Go(w, "countOpen")
  /\ UNCHANGED <<contract, milestone, escrow, paid>>
\* Mutant: the other disputes are not counted.
CountNothing(w) ==
  /\ At(w, "countOpen")
  /\ Go(w, "readDisputed")
  /\ UNCHANGED contractVars
CountOpen(w) ==
  /\ At(w, "countOpen")
  /\ IF OpenDisputes(Proposal(w)) = {} THEN Go(w, "readDisputed") ELSE Done(w)
  /\ UNCHANGED contractVars
ReadDisputed(w) ==
  /\ At(w, "readDisputed")
  /\ IF contract[Proposal(w)].status = "disputed"
     THEN Begin(w, [task[w] EXCEPT !.pc = "saveStatus", !.to = "active", !.current = TRUE])
     ELSE Done(w)
  /\ UNCHANGED contractVars
\* updateDisputeStatus leaves the contract as it is.
UpdateDisputeStatus(w, d) ==
  /\ May(w, "updateDispute")
  /\ dispute[d].status # "none"
  /\ \E to \in DisputeStatuses : dispute' = [dispute EXCEPT ![d].status = to]
  /\ UNCHANGED <<contract, milestone, escrow, paid, task>>

\* What module Escrow's other requests do: release, refund, expiry.
SettleEscrow(k) ==
  /\ "settle" \in Operations
  /\ \/ /\ escrow[k] \in {"LOCKED", "DISPUTED"}
        /\ \/ SetEscrow(k, "RELEASED") /\ paid' = paid \cup {k}
           \/ SetEscrow(k, "REFUNDED") /\ UNCHANGED paid
     \/ escrow[k] = "CREATED" /\ SetEscrow(k, "EXPIRED") /\ UNCHANGED paid
  /\ UNCHANGED <<contract, milestone, dispute, task>>

\* The request throws, or the server stops.
Crash(w) ==
  /\ "crash" \in Operations /\ ~At(w, "idle")
  /\ Done(w)
  /\ UNCHANGED contractVars

ContractStep(w) ==
  \/ \E p \in Proposals : \/ Hire(w, p) \/ ConfirmPayment(w, p) \/ Accept(w, p)
                          \/ RequestStatus(w, p) \/ StartContract(w, p)
                          \/ ApproveWork(w, p)
                          \/ \E d \in Disputes : OpenDispute(w, p, d)
  \/ \E m \in Milestones : \/ AddMilestone(w, m) \/ FundMilestone(w, m)
                           \/ Start(w, m) \/ Submit(w, m) \/ Approve(w, m)
                           \/ RequestMilestoneRevision(w, m)
  \/ \E d \in Disputes : CloseDispute(w, d) \/ UpdateDisputeStatus(w, d)
  \/ InsertContract(w) \/ SetPaid(w) \/ SaveAccepted(w) \/ FundNext(w)
  \/ Lock(w) \/ Claim(w) \/ PushMilestone(w) \/ SaveStatus(w) \/ ReadEscrow(w)
  \/ Release(w) \/ Pay(w) \/ SaveReleased(w) \/ SaveMilestone(w)
  \/ InsertDispute(w) \/ ListEscrows(w) \/ FreezeNext(w) \/ SaveDispute(w)
  \/ CountOpen(w) \/ ReadDisputed(w) \/ Crash(w)

Next ==
  \/ \E w \in Workers : \/ (JobStep(w) \/ ProposalStep(w)) /\ UNCHANGED contractVars
                        \/ ContractStep(w) /\ UNCHANGED hiringVars
  \/ (\E k \in Keys : SettleEscrow(k)) /\ UNCHANGED hiringVars

Spec == Init /\ [][Next]_vars
-----------------------------------------------------------------------------
(* Whatever races with the approval of a milestone, a completed milestone  *)
(* has been paid: its escrow was released before the status was saved      *)
(* (approveMilestoneWork).                                                 *)
CompletedWasPaid == \A m \in Milestones : milestone[m] = "completed" => m \in paid

(* A contract that never was in dispute has been paid for before work on   *)
(* it begins (respondToContract, startContract).                           *)
StartedWasFunded ==
  \A p \in Proposals :
    /\ contract[p].status \in {"active", "in_review", "completed", "closed"}
    /\ \A d \in Disputes : dispute[d].on # p
    => contract[p].payment # "PENDING"

(* The properties of requests that do not overlap.                         *)

(* One milestone at a time is in progress (startMilestone's order).        *)
OneInProgress ==
  \A m, n \in Milestones :
    ProposalOf[m] = ProposalOf[n] /\ milestone[m] = "in_progress"
      /\ milestone[n] = "in_progress" => m = n

(* A contract under dispute stays disputed until its last dispute is       *)
(* closed (createDispute, resolveDispute, rejectDispute).  The approval of *)
(* its last milestone can still complete it.                               *)
DisputedWhileOpen ==
  Quiet => \A p \in Proposals : OpenDisputes(p) # {} =>
    \/ contract[p].status = "disputed"
    \/ contract[p].status \in {"completed", "closed"} /\ Unfinished(p) = {}

(* The documents of an engagement follow each other: the proposal of a     *)
(* contract stays accepted, completed or closed and is closed with it, and *)
(* a contract that never was in dispute is completed with its last         *)
(* milestone.                                                              *)
DocumentsFollow ==
  Quiet => \A p \in Proposals :
    /\ Exists(p) => proposal[p].status \in {"accepted", "completed", "closed"}
    /\ contract[p].status = "closed" => proposal[p].status = "closed"
    /\ contract[p].status \in {"active", "in_review"} /\ MilestonesOf(p) # {} =>
         Unfinished(p) # {} \/ \E d \in Disputes : dispute[d].on = p

-----------------------------------------------------------------------------
(* Claims of the code that do not hold.                                    *)

(* contract.service.js: "Payment must be completed before freelancer can   *)
(* accept". Refuted by a dispute on a pending contract, which its          *)
(* resolution makes active.                                                *)
ActiveWasFunded ==
  \A p \in Proposals : contract[p].status = "active" => contract[p].payment # "PENDING"

(* contract.service.js: "Sequential enforcement: no other milestone should *)
(* be in_progress or in_review." Refuted by submitting a milestone whose   *)
(* revision was requested while another is in progress.                    *)
OneUnderWay ==
  \A m, n \in Milestones :
    ProposalOf[m] = ProposalOf[n]
      /\ {milestone[m], milestone[n]} \subseteq {"in_progress", "in_review"} => m = n
=============================================================================
