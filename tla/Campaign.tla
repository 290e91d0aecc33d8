------------------------------ MODULE Campaign ------------------------------
(***************************************************************************)
(* E-mail campaigns of the administration: one campaign and its audience,  *)
(* src/modules/admin/communication/communication.service.js with its       *)
(* models EmailCampaign and EmailDeliveryLog, and the job that             *)
(* src/workers/email.worker.js runs for a campaign.                        *)
(*                                                                         *)
(* sendCampaign saves 'sending', writes a log per recipient and adds a     *)
(* job; processCampaign sends the mails one by one and saves each log      *)
(* after its mail.  The queue (BullMQ) is external: a job whose processing *)
(* throws or dies is tried again, Attempts times in all.  When no job can  *)
(* be added the request itself processes the campaign, once.               *)
(*                                                                         *)
(* One action is one awaited call.  asked[a] is what a request of admin a  *)
(* remembers and run[a] what the processing remembers that a's request     *)
(* started; nothing in the code keeps two of them apart.                   *)
(***************************************************************************)
EXTENDS Integers, FiniteSetsExt, Functions

CONSTANTS
  Admins,       \* each has one request at a time
  Senders,      \* bound: the admins that ask to send
  Recipients,   \* the audience
  Batch,        \* logs that processCampaign reads at a time
  Attempts,     \* emailRetry.attempts
  MaxEdits,     \* bound: versions of the draft after the first
  MaxStops      \* bound: processings that die or fail to save

ASSUME CampaignAssumption ==
  /\ Senders \subseteq Admins
  /\ IsFiniteSet(Recipients) /\ Recipients # {}
  /\ Batch \in Nat \ {0} /\ Attempts \in Nat \ {0}
  /\ MaxEdits \in Nat /\ MaxStops \in Nat

VARIABLES
  campaign,   \* the EmailCampaign: status, testSent, the version of its text
  log,        \* EmailDeliveryLog of <<sender, recipient>>: its status, or "none"
  asked,      \* admin -> the request in flight
  run,        \* admin -> the processing his request started
  tested,     \* history: versions of the text that were sent as a test
  mails,      \* history: recipient -> mails that were sent
  senders,    \* history: admins whose request saved 'sending'
  stops,      \* history: processings that died or failed to save
  late        \* history: mails sent since 'cancelled' replaced 'sending', or -1

campaignHistory == <<tested, mails, senders, stops, late>>
campaignVars == <<campaign, log, asked, run, campaignHistory>>

CampaignStatuses == {"draft", "sending", "sent", "failed", "cancelled"}
LogStatuses == {"none", "queued", "sent", "failed"}
AskedSteps == {"saveEdited", "sendTest", "saveTest", "saveSending",
               "deleteLogs", "insertLogs", "addJob", "saveCancelled"}
\* "none": never started; "waiting": to be started; "lost": all tries used up,
\* or the request that was to start it broke off.
RunSteps == {"none", "waiting", "find", "check", "send", "save", "count",
             "saveEnd", "over", "lost"}

Logs == Admins \X Recipients
\* Mutant: failed logs are taken again.
Unsent == {d \in Logs : log[d] \in {"queued", "failed"}}

Queued == {d \in Logs : log[d] = "queued"}
NotAsking == [at |-> "idle", version |-> 0]
NoRun == [at |-> "none", tries |-> 0, inline |-> FALSE, seen |-> "draft",
          batch |-> {}, outcome |-> "queued", ended |-> "sending"]

CampaignInit ==
  /\ campaign = [status |-> "draft", testSent |-> FALSE, version |-> 0]
  /\ log = [d \in Logs |-> "none"]
  /\ asked = [a \in Admins |-> NotAsking]
  /\ run = [a \in Admins |-> NoRun]
  /\ mails = [r \in Recipients |-> 0]
  /\ tested = {} /\ senders = {} /\ stops = 0 /\ late = -1

-----------------------------------------------------------------------------
(* Requests of the admins *)

\* The document is read and its guards are tested; step is what is awaited next.
Ask(a, step) ==
  /\ asked[a] = NotAsking
  /\ asked' = [asked EXCEPT ![a] = [at |-> step, version |-> campaign.version]]
  /\ UNCHANGED <<campaign, log, run, campaignHistory>>

UpdateCampaign(a) ==
  /\ campaign.status = "draft" /\ campaign.version < MaxEdits
  /\ Ask(a, "saveEdited")

SendCampaignTest(a) == Ask(a, "sendTest")

\* Each admin's request is modelled until it starts to send for the first time.
SendCampaign(a) ==
  /\ campaign.status = "draft" /\ campaign.testSent
  /\ a \in Senders /\ run[a].at = "none"
  /\ Ask(a, "saveSending")

CancelCampaign(a) ==
  /\ campaign.status \in {"draft", "sending"}
  /\ Ask(a, "saveCancelled")

Answer(a, step) == asked[a].at = step /\ asked' = [asked EXCEPT ![a] = NotAsking]
Continue(a, step, next) ==
  asked[a].at = step /\ asked' = [asked EXCEPT ![a].at = next]

\* save() writes the fields the request changed, over what the others saved.
SaveEdited(a) ==
  /\ Answer(a, "saveEdited")
  /\ campaign' = [campaign EXCEPT !.version = Min({@ + 1, MaxEdits})]
  /\ UNCHANGED <<log, run, campaignHistory>>

\* sendEmailMessage may throw: the request ends and nothing is saved.
SendTest(a) ==
  /\ \/ /\ Continue(a, "sendTest", "saveTest")
        /\ tested' = tested \cup {asked[a].version}
     \/ Answer(a, "sendTest") /\ UNCHANGED tested
  /\ UNCHANGED <<campaign, log, run, mails, senders, stops, late>>

SaveTest(a) ==
  /\ Answer(a, "saveTest")
  /\ campaign' = [campaign EXCEPT !.testSent = TRUE]
  /\ UNCHANGED <<log, run, campaignHistory>>

SaveCancelled(a) ==
  /\ Answer(a, "saveCancelled")
  /\ campaign' = [campaign EXCEPT !.status = "cancelled"]
  /\ late' = IF campaign.status = "sending" /\ late = -1 THEN 0 ELSE late
  /\ UNCHANGED <<log, run, tested, mails, senders, stops>>

SaveSending(a) ==
  /\ Continue(a, "saveSending", "deleteLogs")
  /\ campaign' = [campaign EXCEPT !.status = "sending"]
  /\ senders' = senders \cup {a}
  /\ UNCHANGED <<log, run, tested, mails, stops, late>>

DeleteLogs(a) ==
  /\ Continue(a, "deleteLogs", "insertLogs")
  /\ log' = [d \in Logs |-> "none"]
  /\ UNCHANGED <<campaign, run, campaignHistory>>

InsertLogs(a) ==
  /\ Continue(a, "insertLogs", "addJob")
  /\ log' = [d \in Logs |-> IF d[1] = a THEN "queued" ELSE log[d]]
  /\ UNCHANGED <<campaign, run, campaignHistory>>

\* Without Redis, or when the queue refuses, addJob answers null.
AddJob(a) ==
  /\ Answer(a, "addJob")
  /\ \E inline \in BOOLEAN :
       run' = [run EXCEPT ![a].at = "waiting", ![a].inline = inline]
  /\ UNCHANGED <<campaign, log, campaignHistory>>

\* A call of the request throws, or the server stops.  deleteMany and insertMany
\* may have done a part by then; whoever has saved 'sending' adds no job.
RequestBreaksOff(a) ==
  /\ asked[a] # NotAsking
  /\ asked' = [asked EXCEPT ![a] = NotAsking]
  /\ run' = IF asked[a].at \in {"deleteLogs", "insertLogs", "addJob"}
            THEN [run EXCEPT ![a].at = "lost"] ELSE run
  /\ \E part \in SUBSET Logs :
       log' = CASE asked[a].at = "deleteLogs" ->
                     [d \in Logs |-> IF d \in part THEN "none" ELSE log[d]]
                [] asked[a].at = "insertLogs" ->
                     [d \in Logs |-> IF d \in part /\ d[1] = a THEN "queued" ELSE log[d]]
                [] OTHER -> log
  /\ UNCHANGED <<campaign, campaignHistory>>

-----------------------------------------------------------------------------
(* processCampaign *)

Processing(a, step) == run[a].at = step

Start(a) ==
  /\ Processing(a, "waiting")
  /\ run' = IF campaign.status = "cancelled"
            THEN [run EXCEPT ![a].at = "over"]
            ELSE [run EXCEPT ![a].at = "find", ![a].seen = campaign.status]
  /\ UNCHANGED <<campaign, log, asked, campaignHistory>>

FindLogs(a) ==
  /\ Processing(a, "find")
  /\ \E found \in SUBSET Queued :
       /\ Cardinality(found) = Min({Batch, Cardinality(Queued)})
       /\ run' = [run EXCEPT ![a].at = IF found = {} THEN "count" ELSE "check",
                             ![a].batch = found]
  /\ UNCHANGED <<campaign, log, asked, campaignHistory>>

\* Mutant: the status is not read again before each mail.
CheckNothing(a) ==
  /\ Processing(a, "check")
  /\ run' = [run EXCEPT ![a].at = "send"]
  /\ UNCHANGED <<campaign, log, asked, campaignHistory>>

CheckStatus(a) ==
  /\ Processing(a, "check")
  /\ run' = [run EXCEPT ![a].at =
               IF campaign.status = "cancelled" THEN "count" ELSE "send"]
  /\ UNCHANGED <<campaign, log, asked, campaignHistory>>

\* Processings take the logs of their batch in order; any order is one here.
CurrentLog(a) == CHOOSE d \in run[a].batch : TRUE

SendMail(a) ==
  /\ Processing(a, "send")
  /\ \E outcome \in {"sent", "failed"} :
       /\ run' = [run EXCEPT ![a].at = "save", ![a].outcome = outcome]
       /\ IF outcome = "sent"
          THEN /\ mails' = [mails EXCEPT ![CurrentLog(a)[2]] = @ + 1]
               /\ late' = IF late = -1 THEN late ELSE late + 1
          ELSE UNCHANGED <<mails, late>>
  /\ UNCHANGED <<campaign, log, asked, tested, senders, stops>>

\* A processing that throws or dies: the queue tries a job again.
Abandoned(a) ==
  IF run[a].inline \/ run[a].tries + 1 >= Attempts
  THEN [run EXCEPT ![a] = [NoRun EXCEPT !.at = "lost"]]
  ELSE [run EXCEPT ![a] = [NoRun EXCEPT !.at = "waiting", !.tries = run[a].tries + 1]]

\* Mutant: the log is not saved.
SaveNoLog(a) ==
  /\ Processing(a, "save")
  /\ LET rest == run[a].batch \ {CurrentLog(a)} IN
     run' = [run EXCEPT ![a].at = IF rest = {} THEN "find" ELSE "check",
                        ![a].batch = rest, ![a].outcome = "queued"]
  /\ UNCHANGED <<campaign, log, asked, campaignHistory>>

\* save() throws when another request has deleted the log.
SaveLog(a) ==
  /\ Processing(a, "save")
  /\ IF log[CurrentLog(a)] = "none"
     THEN run' = Abandoned(a) /\ UNCHANGED log
     ELSE LET rest == run[a].batch \ {CurrentLog(a)} IN
          /\ log' = [log EXCEPT ![CurrentLog(a)] = run[a].outcome]
          /\ run' = [run EXCEPT ![a].at = IF rest = {} THEN "find" ELSE "check",
                                ![a].batch = rest, ![a].outcome = "queued"]
  /\ UNCHANGED <<campaign, asked, campaignHistory>>

HasLog(status) == \E d \in Logs : log[d] = status

EndStatus ==
  CASE HasLog("queued") -> "sending"   \* the status is left alone
    [] ~HasLog("queued") /\ HasLog("failed") /\ ~HasLog("sent") -> "failed"
    [] OTHER -> "sent"

\* The three counts are started together and read as one.
CountLogs(a) ==
  /\ Processing(a, "count")
  /\ run' = [run EXCEPT ![a].at = "saveEnd", ![a].batch = {},
                        ![a].outcome = "queued", ![a].ended = EndStatus]
  /\ UNCHANGED <<campaign, log, asked, campaignHistory>>

\* save() writes the status only when it differs from the one that was read.
SaveEnd(a) ==
  /\ Processing(a, "saveEnd")
  /\ campaign' = IF run[a].ended \in {"sending", run[a].seen} THEN campaign
                 ELSE [campaign EXCEPT !.status = run[a].ended]
  /\ run' = [run EXCEPT ![a] = [NoRun EXCEPT !.at = "over"]]
  /\ UNCHANGED <<log, asked, campaignHistory>>

\* The process dies, or a call other than the mail's throws.
Stop(a) ==
  /\ stops < MaxStops
  /\ run[a].at \notin {"none", "waiting", "over", "lost"}
  /\ run' = Abandoned(a)
  /\ stops' = stops + 1
  /\ UNCHANGED <<campaign, log, asked, tested, mails, senders, late>>

RequestStep(a) ==
  \/ SaveEdited(a) \/ SendTest(a) \/ SaveTest(a) \/ SaveCancelled(a)
  \/ SaveSending(a) \/ DeleteLogs(a) \/ InsertLogs(a) \/ AddJob(a)

ProcessStep(a) ==
  \/ Start(a) \/ FindLogs(a) \/ CheckStatus(a) \/ SendMail(a) \/ SaveLog(a)
  \/ CountLogs(a) \/ SaveEnd(a)

CampaignNext ==
  \E a \in Admins :
    \/ UpdateCampaign(a) \/ SendCampaignTest(a)
    \/ SendCampaign(a) \/ CancelCampaign(a)
    \/ RequestStep(a) \/ RequestBreaksOff(a) \/ ProcessStep(a) \/ Stop(a)

\* What is awaited is answered unless the request breaks off, and a worker takes
\* the jobs of its queue.
CampaignFairness ==
  \A a \in Admins : WF_campaignVars(RequestStep(a)) /\ WF_campaignVars(ProcessStep(a))

CampaignSpec == CampaignInit /\ [][CampaignNext]_campaignVars /\ CampaignFairness

-----------------------------------------------------------------------------
CampaignTypeOK ==
  /\ campaign \in [status : CampaignStatuses, testSent : BOOLEAN, version : 0..MaxEdits]
  /\ log \in [Logs -> LogStatuses]
  /\ asked \in [Admins -> [at : AskedSteps \cup {"idle"}, version : 0..MaxEdits]]
  /\ run \in [Admins -> [at : RunSteps, tries : 0..Attempts, inline : BOOLEAN,
                         seen : CampaignStatuses, batch : SUBSET Logs,
                         outcome : {"queued", "sent", "failed"},
                         ended : {"sending", "sent", "failed"}]]
  /\ tested \subseteq 0..MaxEdits
  /\ mails \in [Recipients -> Nat]
  /\ senders \subseteq Admins
  /\ stops \in 0..MaxStops
  /\ late \in Int

OneSender == Cardinality(senders) = 1

\* When one admin sends, a recipient is mailed a second time only by a job
\* that is tried again, one mail for each try that broke off; and when the
\* campaign is over every recipient has his mail or a failed log.
MailedOnce ==
  OneSender =>
    /\ SumFunctionOnSet(mails, Recipients) <= Cardinality(Recipients) + stops
    /\ campaign.status \in {"sent", "failed"} =>
         \A r \in Recipients :
           mails[r] > 0 \/ \E a \in Admins : log[<<a, r>>] = "failed"

\* cancelCampaign stops a sending: at most the one mail goes out whose turn
\* was checked before 'cancelled' was saved, also when the job is tried again
\* or the last save of the job writes its own status over the cancellation.
CancelStops == OneSender => late <= 1

\* A campaign that is being sent is sent, failed or cancelled in the end, unless
\* a processing has used up its tries or the request broke off before it had
\* added a job: whatever is edited, cancelled and tried again meanwhile.
SendingEnds ==
  campaign.status = "sending"
    ~> campaign.status # "sending" \/ \E a \in Admins : run[a].at = "lost"

-----------------------------------------------------------------------------
(* Claims of the code that do not hold.                                    *)

\* "Only draft campaigns can be sent" (line 155): a campaign is sent once.
SentOnce == \A r \in Recipients : mails[r] <= 1 + stops

\* "Send a test email before sending this campaign" (line 156).
TestedIsSent ==
  [][\A a \in Admins : SaveSending(a) => campaign.version \in tested]_campaignVars

\* 'sending' is a state on the way to 'sent' and 'failed' (EmailCampaign.status):
\* no campaign stays in it.
EverySendingEnds == campaign.status = "sending" ~> campaign.status # "sending"

\* A cancelled campaign stays cancelled (EmailCampaign.cancelledAt).
CancelledStays ==
  [][campaign.status = "cancelled" => campaign'.status = "cancelled"]_campaignVars
=============================================================================
