--------------------------- MODULE ServicesProofs ---------------------------
(***************************************************************************)
(* The services that keep to their own documents, for any number of        *)
(* requests: campaigns (CampaignInv, MailInv), the unread counters of a    *)
(* conversation (MessagingInv), reviews (ReviewsInv), identity cards       *)
(* (CardInv and, in turn, TurnInv) and the AI gateway (GatewayPoints,      *)
(* Overuse).  Each part stands on its own.                                 *)
(***************************************************************************)
EXTENDS Campaign, Messaging, Reviews, Identity, AiGateway, SumTheorems,
        SequenceTheorems

(***************************************************************************)
(* Campaigns.  SendersInv: who sends, and what his request and processing  *)
(* have reached; an admin that has begun to send is one of the senders and *)
(* does so once.  With one sender, CancelInv holds: once 'cancelled' has   *)
(* replaced 'sending', his processing is over or will read 'cancelled'     *)
(* before the next mail.                                                   *)
(***************************************************************************)
Beginning == {"deleteLogs", "insertLogs", "addJob"}

CampaignRecord == [status : CampaignStatuses, testSent : BOOLEAN, version : 0..MaxEdits]
AskedRecord == [at : AskedSteps \cup {"idle"}, version : 0..MaxEdits]
Batches == SUBSET Logs
RunRecord == [at : RunSteps, tries : 0..Attempts, inline : BOOLEAN,
              seen : CampaignStatuses, batch : Batches,
              outcome : {"queued", "sent", "failed"},
              ended : {"sending", "sent", "failed"}]

SendersInv ==
  /\ IsFiniteSet(senders)
  /\ senders = {} => campaign.status \in {"draft", "cancelled"} /\ late = -1
  /\ \A a \in Admins :
       /\ a \in senders <=> asked[a].at \in Beginning \/ run[a].at # "none"
       /\ asked[a].at \in Beginning \cup {"saveSending"} => run[a].at = "none"

CancelInv ==
  \A a \in Admins : senders = {a} /\ late # -1 =>
    /\ campaign.status = "cancelled" \/ run[a].at = "over"
    /\ late \in {0, 1}
    /\ late = 1 => run[a].at # "send"

LEMMA CampaignTypes ==
  ASSUME CampaignTypeOK
  PROVE  /\ campaign \in CampaignRecord
         /\ log \in [Logs -> LogStatuses]
         /\ asked \in [Admins -> AskedRecord]
         /\ run \in [Admins -> RunRecord]
         /\ mails \in [Recipients -> Nat]
         /\ stops \in Nat /\ late \in Int
BY CampaignAssumption DEF CampaignTypeOK, CampaignRecord, AskedRecord, RunRecord,
   Batches

LEMMA CampaignInitTypes == CampaignInit => CampaignTypeOK
<1> SUFFICES ASSUME CampaignInit PROVE CampaignTypeOK
  OBVIOUS
<1> QED
  BY CampaignAssumption DEF CampaignInit, CampaignTypeOK, CampaignStatuses,
     LogStatuses, NotAsking, NoRun, RunSteps

LEMMA LesserOfTwo ==
  \A m, n \in Nat : Min({m, n}) \in {m, n} /\ Min({m, n}) <= m /\ Min({m, n}) <= n
<1> SUFFICES ASSUME NEW m \in Nat, NEW n \in Nat
             PROVE  Min({m, n}) \in {m, n} /\ Min({m, n}) <= m /\ Min({m, n}) <= n
  OBVIOUS
<1>1. \E x \in {m, n} : \A y \in {m, n} : x <= y  BY m <= n \/ n <= m
<1> QED  BY <1>1 DEF Min

\* The requests of the admins.
LEMMA RequestTypes ==
  ASSUME CampaignTypeOK, NEW a \in Admins,
         \/ UpdateCampaign(a) \/ SendCampaignTest(a)
         \/ SendCampaign(a) \/ CancelCampaign(a) \/ RequestStep(a)
  PROVE  CampaignTypeOK'
<1>0. /\ campaign \in CampaignRecord
      /\ log \in [Logs -> LogStatuses]
      /\ asked \in [Admins -> AskedRecord]
      /\ run \in [Admins -> RunRecord]
      /\ tested \subseteq 0..MaxEdits /\ senders \subseteq Admins
      /\ MaxEdits \in Nat /\ late \in Int
  BY CampaignTypes, CampaignAssumption DEF CampaignTypeOK
<1>1. /\ UNCHANGED <<mails, stops>>
      /\ asked' \in [Admins -> AskedRecord]
  <2>1. CASE UpdateCampaign(a) \/ SendCampaignTest(a) \/ SendCampaign(a)
               \/ CancelCampaign(a)
    BY <1>0, <2>1 DEF UpdateCampaign, SendCampaignTest, SendCampaign,
       CancelCampaign, Ask, AskedRecord, AskedSteps, CampaignRecord,
       campaignHistory
  <2>2. CASE RequestStep(a)
    BY <1>0, <2>2 DEF RequestStep, SaveEdited, SendTest, SaveTest,
       SaveCancelled, SaveSending, DeleteLogs, InsertLogs, AddJob, Answer,
       Continue, NotAsking, AskedRecord, AskedSteps, campaignHistory
  <2> QED  BY <2>1, <2>2
<1>2. campaign' \in CampaignRecord
  <2>1. CASE SaveEdited(a)
    <3>1. Min({campaign.version + 1, MaxEdits}) \in 0..MaxEdits
      <4>1. campaign.version + 1 \in Nat  BY <1>0 DEF CampaignRecord
      <4> QED  BY <1>0, <4>1, LesserOfTwo
    <3> QED  BY <1>0, <2>1, <3>1 DEF SaveEdited, CampaignRecord
  <2>2. CASE ~SaveEdited(a)
    BY <1>0, <2>2 DEF UpdateCampaign, SendCampaignTest, SendCampaign,
       CancelCampaign, Ask, RequestStep, SendTest, SaveTest, SaveCancelled,
       SaveSending, DeleteLogs, InsertLogs, AddJob, CampaignRecord,
       CampaignStatuses
  <2> QED  BY <2>1, <2>2
<1>3. log' \in [Logs -> LogStatuses]
  BY <1>0 DEF UpdateCampaign, SendCampaignTest, SendCampaign, CancelCampaign,
     Ask, RequestStep, SaveEdited, SendTest, SaveTest, SaveCancelled,
     SaveSending, DeleteLogs, InsertLogs, AddJob, LogStatuses
<1>4. run' \in [Admins -> RunRecord]
  BY <1>0 DEF UpdateCampaign, SendCampaignTest, SendCampaign, CancelCampaign,
     Ask, RequestStep, SaveEdited, SendTest, SaveTest, SaveCancelled,
     SaveSending, DeleteLogs, InsertLogs, AddJob, RunRecord, RunSteps
<1>5. tested' \subseteq 0..MaxEdits /\ senders' \subseteq Admins /\ late' \in Int
  BY <1>0 DEF UpdateCampaign, SendCampaignTest, SendCampaign, CancelCampaign,
     Ask, RequestStep, SaveEdited, SendTest, SaveTest, SaveCancelled,
     SaveSending, DeleteLogs, InsertLogs, AddJob, campaignHistory, AskedRecord
<1> QED
  BY <1>1, <1>2, <1>3, <1>4, <1>5
     DEF CampaignTypeOK, CampaignRecord, AskedRecord, RunRecord,
   Batches

\* The processing: what it does to run, and to the rest.
LEMMA RunAgain ==
  /\ \A at \in RunSteps : [NoRun EXCEPT !.at = at] \in RunRecord
  /\ \A at \in RunSteps, n \in 0..Attempts :
       [NoRun EXCEPT !.at = at, !.tries = n] \in RunRecord
  /\ "lost" \in RunSteps /\ "waiting" \in RunSteps /\ "over" \in RunSteps
<1>1. NoRun \in RunRecord
  BY CampaignAssumption DEF NoRun, RunRecord, Batches, RunSteps, CampaignStatuses
<1>2. ASSUME NEW s \in RunRecord, NEW at \in RunSteps
      PROVE  [s EXCEPT !.at = at] \in RunRecord
  BY DEF RunRecord
<1>3. ASSUME NEW s \in RunRecord, NEW n \in 0..Attempts
      PROVE  [s EXCEPT !.tries = n] \in RunRecord
  BY DEF RunRecord
<1>4. ASSUME NEW at \in RunSteps, NEW n \in 0..Attempts
      PROVE  [NoRun EXCEPT !.at = at, !.tries = n] \in RunRecord
  BY <1>1, <1>2, <1>3
<1> QED  BY <1>1, <1>2, <1>4 DEF RunSteps

LEMMA RunChanges ==
  \A runs \in [Admins -> RunRecord], a \in Admins :
    /\ \A at \in RunSteps : [runs EXCEPT ![a].at = at] \in [Admins -> RunRecord]
    /\ \A found \in Batches :
         [runs EXCEPT ![a].batch = found] \in [Admins -> RunRecord]
    /\ [runs EXCEPT ![a].outcome = "queued"] \in [Admins -> RunRecord]
    /\ \A ended \in {"sending", "sent", "failed"} :
         [runs EXCEPT ![a].ended = ended] \in [Admins -> RunRecord]
BY DEF RunRecord

LEMMA AbandonedType ==
  ASSUME run \in [Admins -> RunRecord], NEW a \in Admins
  PROVE  Abandoned(a) \in [Admins -> RunRecord]
<1>1. run[a].tries + 1 < Attempts => run[a].tries + 1 \in 0..Attempts
  BY CampaignAssumption DEF RunRecord
<1>2. [NoRun EXCEPT !.at = "lost"] \in RunRecord
  BY RunAgain, CampaignAssumption
<1>3. CASE run[a].inline \/ run[a].tries + 1 >= Attempts
  BY <1>2, <1>3 DEF Abandoned
<1>4. CASE ~(run[a].inline \/ run[a].tries + 1 >= Attempts)
  <2>1. run[a].tries + 1 \in 0..Attempts
    BY <1>1, <1>4, CampaignAssumption DEF RunRecord
  <2>2. [NoRun EXCEPT !.at = "waiting", !.tries = run[a].tries + 1] \in RunRecord
    BY <2>1, RunAgain
  <2> QED  BY <1>4, <2>2 DEF Abandoned
<1> QED  BY <1>3, <1>4

LEMMA ProcessTypes ==
  ASSUME CampaignTypeOK, NEW a \in Admins, ProcessStep(a) \/ Stop(a),
         Processing(a, "send") \/ Processing(a, "save") =>
           run[a].batch # {}
  PROVE  CampaignTypeOK'
<1>0. /\ campaign \in CampaignRecord
      /\ log \in [Logs -> LogStatuses]
      /\ run \in [Admins -> RunRecord]
      /\ mails \in [Recipients -> Nat]
      /\ MaxStops \in Nat /\ late \in Int
  BY CampaignTypes, CampaignAssumption DEF CampaignTypeOK
<1>1. UNCHANGED <<asked, tested, senders>>
  BY DEF ProcessStep, Start, FindLogs, CheckStatus, SendMail, SaveLog,
     CountLogs, SaveEnd, Stop, campaignHistory
<1>2. campaign' \in CampaignRecord
  BY <1>0, ZenonT(40) DEF ProcessStep, Start, FindLogs, CheckStatus, SendMail, SaveLog,
     CountLogs, SaveEnd, Stop, CampaignRecord, CampaignStatuses, RunRecord
<1>3. Processing(a, "send") \/ Processing(a, "save") =>
        CurrentLog(a) \in run[a].batch /\ CurrentLog(a) \in Logs
  BY <1>0 DEF CurrentLog, RunRecord, Batches
<1>4. log' \in [Logs -> LogStatuses]
  BY <1>0, <1>3 DEF ProcessStep, Start, FindLogs, CheckStatus, SendMail,
     SaveLog, CountLogs, SaveEnd, Stop, LogStatuses, RunRecord
<1>5. run' \in [Admins -> RunRecord]
  <2>1. CASE Start(a) \/ CheckStatus(a) \/ SendMail(a)
    BY <1>0, <2>1 DEF Start, CheckStatus, SendMail, RunRecord, RunSteps,
       CampaignRecord
  <2>2. CASE FindLogs(a)
    <3>1. PICK found \in Batches :
            run' = [run EXCEPT ![a].at = IF found = {} THEN "count" ELSE "check",
                               ![a].batch = found]
      BY <2>2 DEF FindLogs, Queued, Batches
    <3>2. CASE found = {}
      <4>1. run' = [run EXCEPT ![a].at = "count", ![a].batch = found]
        BY <3>1, <3>2
      <4> QED  BY <1>0, <4>1, RunChanges DEF RunSteps
    <3>3. CASE found # {}
      <4>1. run' = [run EXCEPT ![a].at = "check", ![a].batch = found]
        BY <3>1, <3>3
      <4> QED  BY <1>0, <4>1, RunChanges DEF RunSteps
    <3> QED  BY <3>2, <3>3
  <2>3. CASE SaveLog(a)
    <3>1. CASE run' = Abandoned(a)  BY <1>0, <3>1, AbandonedType
    <3>2. CASE run' # Abandoned(a)
      <4>1. PICK rest, step :
              /\ rest = run[a].batch \ {CurrentLog(a)}
              /\ step \in {"find", "check"}
              /\ run' = [run EXCEPT ![a].at = step, ![a].batch = rest,
                                    ![a].outcome = "queued"]
        BY <2>3, <3>2 DEF SaveLog
      <4>2. rest \in Batches  BY <1>0, <4>1 DEF RunRecord, Batches
      <4>3. [run EXCEPT ![a].at = step, ![a].batch = rest] \in [Admins -> RunRecord]
        BY <1>0, <4>1, <4>2, RunChanges DEF RunSteps
      <4> QED  BY <4>1, <4>3, RunChanges
    <3> QED  BY <3>1, <3>2
  <2>4. CASE CountLogs(a)
    <3>1. EndStatus \in {"sending", "sent", "failed"}  BY Zenon DEF EndStatus
    <3>2. PICK ended \in {"sending", "sent", "failed"} :
            run' = [run EXCEPT ![a].at = "saveEnd", ![a].batch = {},
                               ![a].outcome = "queued", ![a].ended = ended]
      BY <2>4, <3>1 DEF CountLogs
    <3>3. PICK none \in Batches : none = {}  BY DEF Batches
    <3>4. [run EXCEPT ![a].at = "saveEnd", ![a].batch = {}]
            \in [Admins -> RunRecord]
      BY <1>0, <3>3, RunChanges DEF RunSteps
    <3>5. [run EXCEPT ![a].at = "saveEnd", ![a].batch = {}, ![a].outcome = "queued"]
            \in [Admins -> RunRecord]
      BY <3>4, RunChanges
    <3> QED  BY <3>2, <3>5, RunChanges
  <2>5. CASE SaveEnd(a)
    <3>1. [NoRun EXCEPT !.at = "over"] \in RunRecord  BY RunAgain
    <3> QED  BY <1>0, <2>5, <3>1 DEF SaveEnd
  <2>6. CASE Stop(a)  BY <1>0, <2>6, AbandonedType DEF Stop
  <2> QED  BY <2>1, <2>2, <2>3, <2>4, <2>5, <2>6 DEF ProcessStep
<1>6. mails' \in [Recipients -> Nat] /\ late' \in Int
  <2>1. CASE SendMail(a)
    BY <1>0, <1>3, <2>1 DEF SendMail, Logs
  <2>2. CASE ~SendMail(a)
    BY <1>0, <2>2 DEF ProcessStep, Start, FindLogs, CheckStatus, SaveLog,
       CountLogs, SaveEnd, Stop, campaignHistory
  <2> QED  BY <2>1, <2>2
<1>7. stops' \in 0..MaxStops
  <2>1. stops \in 0..MaxStops  BY DEF CampaignTypeOK
  <2>2. stops' = stops \/ (stops < MaxStops /\ stops' = stops + 1)
    BY DEF ProcessStep, Start, FindLogs, CheckStatus, SendMail, SaveLog,
       CountLogs, SaveEnd, Stop, campaignHistory
  <2> QED  BY <1>0, <2>1, <2>2
<1> QED
  BY <1>1, <1>2, <1>4, <1>5, <1>6, <1>7
     DEF CampaignTypeOK, CampaignRecord, AskedRecord, RunRecord,
   Batches

\* A request that breaks off changes his own processing only, and only when it
\* had begun to send.
LEMMA BreakingOff ==
  ASSUME CampaignTypeOK, NEW a \in Admins, RequestBreaksOff(a)
  PROVE  /\ UNCHANGED <<campaign, campaignHistory>>
         /\ asked' \in [Admins -> AskedRecord] /\ asked'[a].at = "idle"
         /\ \A b \in Admins \ {a} : asked'[b] = asked[b]
         /\ run' \in [Admins -> RunRecord] /\ log' \in [Logs -> LogStatuses]
         /\ \A b \in Admins \ {a} : run'[b] = run[b]
         /\ asked[a].at \in Beginning => run'[a].at = "lost"
         /\ asked[a].at \notin Beginning => run' = run /\ log' = log
<1>1. /\ log \in [Logs -> LogStatuses] /\ asked \in [Admins -> AskedRecord]
      /\ run \in [Admins -> RunRecord]
  BY CampaignTypes
<1>2. /\ UNCHANGED <<campaign, campaignHistory>>
      /\ asked' = [asked EXCEPT ![a] = NotAsking]
      /\ asked[a].at \in Beginning => run' = [run EXCEPT ![a].at = "lost"]
      /\ asked[a].at \notin Beginning => run' = run
  BY DEF RequestBreaksOff, Beginning
<1>3. NotAsking \in AskedRecord /\ NotAsking.at = "idle"
  BY CampaignAssumption DEF NotAsking, AskedRecord
<1>4. asked[a].at \notin Beginning => log' = log
  BY DEF RequestBreaksOff, Beginning
<1>5. log' \in [Logs -> LogStatuses]
  <2>1. PICK part \in SUBSET Logs :
          log' = CASE asked[a].at = "deleteLogs" ->
                        [d \in Logs |-> IF d \in part THEN "none" ELSE log[d]]
                   [] asked[a].at = "insertLogs" ->
                        [d \in Logs |-> IF d \in part /\ d[1] = a THEN "queued" ELSE log[d]]
                   [] OTHER -> log
    BY DEF RequestBreaksOff
  <2>2. CASE asked[a].at = "deleteLogs"  BY <1>1, <2>1, <2>2 DEF LogStatuses
  <2>3. CASE asked[a].at = "insertLogs"  BY <1>1, <2>1, <2>3 DEF LogStatuses
  <2>4. CASE asked[a].at \notin {"deleteLogs", "insertLogs"}
    BY <1>1, <2>1, <2>4
  <2> QED  BY <2>2, <2>3, <2>4
<1>6. asked[a].at \in Beginning =>
        /\ run' \in [Admins -> RunRecord] /\ run'[a].at = "lost"
        /\ \A b \in Admins \ {a} : run'[b] = run[b]
  BY <1>1, <1>2 DEF RunRecord, RunSteps
<1> QED  BY <1>1, <1>2, <1>3, <1>4, <1>5, <1>6

LEMMA BreakOffTypes ==
  ASSUME CampaignTypeOK, NEW a \in Admins, RequestBreaksOff(a)
  PROVE  CampaignTypeOK'
BY BreakingOff DEF CampaignTypeOK, campaignHistory, AskedRecord, RunRecord, Batches

\* What a step leaves of the requests and the processings of the others.
LEMMA AskedStep ==
  ASSUME CampaignTypeOK, NEW a \in Admins,
         \/ UpdateCampaign(a) \/ SendCampaignTest(a)
         \/ SendCampaign(a) \/ CancelCampaign(a)
  PROVE  /\ UNCHANGED <<campaign, log, run, campaignHistory>>
         /\ \A b \in Admins \ {a} : asked'[b] = asked[b]
         /\ asked[a].at = "idle"
         /\ asked'[a].at \in {"saveEdited", "sendTest", "saveSending", "saveCancelled"}
         /\ asked'[a].at = "saveSending" => run[a].at = "none"
BY CampaignTypes DEF UpdateCampaign, SendCampaignTest, SendCampaign,
   CancelCampaign, Ask, NotAsking, AskedRecord

LEMMA AnswerStep ==
  ASSUME CampaignTypeOK, NEW a \in Admins, NEW step, Answer(a, step)
  PROVE  /\ asked[a].at = step /\ asked'[a].at = "idle"
         /\ \A b \in Admins \ {a} : asked'[b] = asked[b]
BY CampaignTypes DEF Answer, NotAsking

LEMMA ContinueStep ==
  ASSUME CampaignTypeOK, NEW a \in Admins, NEW step, NEW next,
         Continue(a, step, next)
  PROVE  /\ asked[a].at = step /\ asked'[a].at = next
         /\ \A b \in Admins \ {a} : asked'[b] = asked[b]
BY CampaignTypes DEF Continue, AskedRecord

LEMMA SaveLogStep ==
  ASSUME CampaignTypeOK, NEW a \in Admins, SaveLog(a), run' # Abandoned(a)
  PROVE  /\ run'[a].at \in {"find", "check"}
         /\ run'[a].at = "check" => run'[a].batch # {}
         /\ \A b \in Admins \ {a} : run'[b] = run[b]
<1>1. run \in [Admins -> RunRecord]  BY CampaignTypes
<1>2. PICK rest, step :
        /\ step \in {"find", "check"} /\ (step = "check" => rest # {})
        /\ run' = [run EXCEPT ![a].at = step, ![a].batch = rest,
                              ![a].outcome = "queued"]
  BY DEF SaveLog
<1> QED  BY <1>1, <1>2 DEF RunRecord

LEMMA ProcessingStep ==
  ASSUME CampaignTypeOK, NEW a \in Admins, ProcessStep(a) \/ Stop(a)
  PROVE  /\ UNCHANGED <<asked, senders>>
         /\ run[a].at # "none" /\ run'[a].at # "none"
         /\ \A b \in Admins \ {a} : run'[b] = run[b]
<1>1. run \in [Admins -> RunRecord]  BY CampaignTypes
<1>2. run' = Abandoned(a) =>
        /\ run'[a].at # "none"
        /\ \A b \in Admins \ {a} : run'[b] = run[b]
  BY <1>1 DEF Abandoned, NoRun
<1>3. CASE SaveLog(a)
  BY <1>2, <1>3, SaveLogStep DEF SaveLog, Processing, campaignHistory
<1>4. CASE ~SaveLog(a)
  BY <1>1, <1>2, <1>4 DEF ProcessStep, Start, FindLogs, CheckStatus, SendMail,
     CountLogs, SaveEnd, Stop, Processing, RunRecord, NoRun, campaignHistory
<1> QED  BY <1>3, <1>4

CampaignInv ==
  /\ CampaignTypeOK /\ SendersInv /\ CancelInv
  /\ \A a \in Admins :
       run[a].at \in {"check", "send", "save"} => run[a].batch # {}

LEMMA CampaignInvInit == CampaignInit => CampaignInv
<1> SUFFICES ASSUME CampaignInit PROVE CampaignInv
  OBVIOUS
<1>1. IsFiniteSet(senders)  BY FS_EmptySet DEF CampaignInit
<1> QED
  BY <1>1, CampaignInitTypes
     DEF CampaignInit, CampaignInv, SendersInv, CancelInv, Beginning, NotAsking, NoRun

LEMMA SendersStep ==
  ASSUME CampaignInv, NEW a \in Admins,
         \/ UpdateCampaign(a) \/ SendCampaignTest(a)
         \/ SendCampaign(a) \/ CancelCampaign(a) \/ RequestStep(a)
         \/ RequestBreaksOff(a) \/ ProcessStep(a) \/ Stop(a)
  PROVE  SendersInv'
<1>0. CampaignTypeOK /\ SendersInv  BY DEF CampaignInv
<1>1. CASE \/ UpdateCampaign(a) \/ SendCampaignTest(a)
           \/ SendCampaign(a) \/ CancelCampaign(a)
  BY <1>0, <1>1, AskedStep DEF SendersInv, Beginning, campaignHistory
<1>2. CASE SaveEdited(a) \/ SaveTest(a) \/ SaveCancelled(a)
  BY <1>0, <1>2, AnswerStep, CampaignTypes
     DEF SaveEdited, SaveTest, SaveCancelled, SendersInv, Beginning, campaignHistory,
         CampaignRecord
<1>3. CASE SendTest(a)
  BY <1>0, <1>3, AnswerStep, ContinueStep
     DEF SendTest, SendersInv, Beginning, campaignHistory
<1>4. CASE SaveSending(a)
  <2>1. IsFiniteSet(senders')
    BY <1>0, <1>4, FS_AddElement DEF SaveSending, SendersInv
  <2> QED
    BY <1>0, <1>4, <2>1, ContinueStep, CampaignTypes
       DEF SaveSending, SendersInv, Beginning, campaignHistory, CampaignRecord
<1>5. CASE DeleteLogs(a) \/ InsertLogs(a)
  BY <1>0, <1>5, ContinueStep
     DEF DeleteLogs, InsertLogs, SendersInv, Beginning, campaignHistory
<1>6. CASE AddJob(a)
  <2>1. run'[a].at = "waiting" /\ \A b \in Admins \ {a} : run'[b] = run[b]
    BY <1>0, <1>6, CampaignTypes DEF AddJob, RunRecord
  <2> QED
    BY <1>0, <1>6, <2>1, AnswerStep, ZenonT(40)
       DEF AddJob, SendersInv, Beginning, campaignHistory
<1>7. CASE ProcessStep(a) \/ Stop(a)
  <2>1. a \in senders  BY <1>0, <1>7, ProcessingStep DEF SendersInv
  <2> QED
    BY <1>0, <1>7, <2>1, ProcessingStep DEF SendersInv, Beginning
<1>8. CASE RequestBreaksOff(a)
  BY <1>0, <1>8, BreakingOff DEF SendersInv, Beginning, campaignHistory
<1> QED
  BY <1>1, <1>2, <1>3, <1>4, <1>5, <1>6, <1>7, <1>8 DEF RequestStep

LEMMA BatchStep ==
  ASSUME CampaignInv, NEW a \in Admins, NEW b \in Admins,
         \/ UpdateCampaign(a) \/ SendCampaignTest(a)
         \/ SendCampaign(a) \/ CancelCampaign(a) \/ RequestStep(a)
         \/ RequestBreaksOff(a) \/ ProcessStep(a) \/ Stop(a),
         run'[b].at \in {"check", "send", "save"}
  PROVE  run'[b].batch # {}
<1>0. CampaignTypeOK /\ run \in [Admins -> RunRecord]
  BY CampaignTypes DEF CampaignInv
<1>1. CASE UNCHANGED run  BY <1>1 DEF CampaignInv
<1>2. CASE AddJob(a)  BY <1>0, <1>2 DEF AddJob, CampaignInv, RunRecord
<1>3. CASE (ProcessStep(a) \/ Stop(a)) /\ b # a
  BY <1>0, <1>3, ProcessingStep DEF CampaignInv
<1>4. CASE b = a /\ (Start(a) \/ CountLogs(a) \/ SaveEnd(a))
  BY <1>0, <1>4 DEF Start, CountLogs, SaveEnd, RunRecord, NoRun
<1>5. CASE b = a /\ run' = Abandoned(a)
  BY <1>0, <1>5 DEF Abandoned, NoRun
<1>6. CASE b = a /\ (CheckStatus(a) \/ SendMail(a))
  BY <1>0, <1>6 DEF CheckStatus, SendMail, Processing, CampaignInv, RunRecord
<1>7. CASE b = a /\ FindLogs(a)
  BY <1>0, <1>7 DEF FindLogs, RunRecord
<1>8. CASE b = a /\ SaveLog(a) /\ run' # Abandoned(a)
  BY <1>0, <1>8, SaveLogStep
<1>9. CASE RequestBreaksOff(a)
  BY <1>0, <1>9, BreakingOff DEF CampaignInv
<1> QED
  BY <1>1, <1>2, <1>3, <1>4, <1>5, <1>6, <1>7, <1>8, <1>9
     DEF UpdateCampaign, SendCampaignTest, SendCampaign, CancelCampaign, Ask,
         RequestStep, SaveEdited, SendTest, SaveTest, SaveCancelled, SaveSending,
         DeleteLogs, InsertLogs, ProcessStep, Stop

LEMMA CancelStep ==
  ASSUME CampaignInv, NEW a \in Admins, NEW b \in Admins,
         \/ UpdateCampaign(b) \/ SendCampaignTest(b)
         \/ SendCampaign(b) \/ CancelCampaign(b) \/ RequestStep(b)
         \/ RequestBreaksOff(b) \/ ProcessStep(b) \/ Stop(b),
         senders' = {a}, late' # -1
  PROVE  /\ campaign'.status = "cancelled" \/ run'[a].at = "over"
         /\ late' \in {0, 1}
         /\ late' = 1 => run'[a].at # "send"
<1>0. /\ CampaignTypeOK /\ SendersInv
      /\ campaign \in CampaignRecord /\ run \in [Admins -> RunRecord]
      /\ late \in Int
      /\ senders = {a} /\ late # -1 =>
           /\ campaign.status = "cancelled" \/ run[a].at = "over"
           /\ late \in {0, 1}
           /\ late = 1 => run[a].at # "send"
  BY CampaignTypes DEF CampaignInv, CancelInv
<1>1. CASE UNCHANGED <<senders, late, run>> /\ campaign'.status = campaign.status
  BY <1>0, <1>1
<1>2. CASE SaveCancelled(b)
  BY <1>0, <1>2 DEF SaveCancelled, CampaignRecord
<1>3. CASE SaveSending(b)
  <2>1. b \notin senders
    BY <1>0, <1>3 DEF SaveSending, Continue, SendersInv, Beginning
  <2>2. senders = {}  BY <1>3, <2>1 DEF SaveSending
  <2> QED  BY <1>0, <1>3, <2>2 DEF SaveSending, SendersInv
<1>4. CASE AddJob(b)
  <2>1. run'[b].at = "waiting" /\ \A c \in Admins \ {b} : run'[c] = run[c]
    BY <1>0, <1>4 DEF AddJob, RunRecord
  <2>2. run[b].at = "none"
    BY <1>0, <1>4 DEF AddJob, Answer, SendersInv, Beginning
  <2> QED  BY <1>0, <1>4, <2>1, <2>2 DEF AddJob, campaignHistory
<1>5. CASE ProcessStep(b) \/ Stop(b)
  <2>1. senders = {a} /\ b = a
    BY <1>0, <1>5, ProcessingStep DEF SendersInv
  <2>2. CASE Start(a) \/ CheckStatus(a)
    BY <1>0, <2>1, <2>2 DEF Start, CheckStatus, Processing, RunRecord,
       CampaignRecord, campaignHistory
  <2>3. CASE SendMail(a)
    BY <1>0, <2>1, <2>3 DEF SendMail, Processing, RunRecord
  <2>4. CASE FindLogs(a) \/ CountLogs(a)
    BY <1>0, <2>1, <2>4 DEF FindLogs, CountLogs, Processing, RunRecord,
       campaignHistory
  <2>5. CASE SaveEnd(a)
    BY <1>0, <2>1, <2>5 DEF SaveEnd, Processing, NoRun, campaignHistory
  <2>6. CASE run' = Abandoned(a) /\ (SaveLog(a) \/ Stop(a))
    BY <1>0, <2>1, <2>6 DEF SaveLog, Stop, Processing, Abandoned, NoRun,
       campaignHistory
  <2>7. CASE run' # Abandoned(a) /\ SaveLog(a)
    BY <1>0, <2>1, <2>7, SaveLogStep DEF SaveLog, Processing, campaignHistory
  <2> QED
    BY <1>5, <2>1, <2>2, <2>3, <2>4, <2>5, <2>6, <2>7 DEF ProcessStep, Stop
<1>6. CASE RequestBreaksOff(b)
  <2>1. /\ UNCHANGED <<campaign, senders, late>>
        /\ run'[a] = run[a] \/ (run[a].at = "none" /\ run'[a].at = "lost")
    BY <1>0, <1>6, BreakingOff DEF SendersInv, campaignHistory
  <2> QED  BY <1>0, <2>1
<1> QED
  BY <1>0, <1>1, <1>2, <1>3, <1>4, <1>5, <1>6
     DEF UpdateCampaign, SendCampaignTest, SendCampaign, CancelCampaign, Ask,
         RequestStep, SaveEdited, SendTest, SaveTest, DeleteLogs, InsertLogs,
         CampaignRecord, campaignHistory

LEMMA CampaignStep == CampaignInv /\ [CampaignNext]_campaignVars => CampaignInv'
<1> SUFFICES ASSUME CampaignInv, [CampaignNext]_campaignVars PROVE CampaignInv'
  OBVIOUS
<1>1. CASE UNCHANGED campaignVars
  BY <1>1 DEF campaignVars, campaignHistory, CampaignInv, CampaignTypeOK,
     SendersInv, CancelInv
<1>2. CASE CampaignNext
  <2>1. PICK a \in Admins :
          \/ UpdateCampaign(a) \/ SendCampaignTest(a)
          \/ SendCampaign(a) \/ CancelCampaign(a) \/ RequestStep(a)
          \/ RequestBreaksOff(a) \/ ProcessStep(a) \/ Stop(a)
    BY <1>2 DEF CampaignNext
  <2>2. CampaignTypeOK'
    BY <2>1, RequestTypes, BreakOffTypes, ProcessTypes DEF CampaignInv, Processing
  <2>3. SendersInv'  BY <2>1, SendersStep
  <2>4. CancelInv'  BY <2>1, CancelStep DEF CancelInv
  <2> QED  BY <2>1, <2>2, <2>3, <2>4, BatchStep DEF CampaignInv
<1> QED  BY <1>1, <1>2

\* With one admin that sends, at most one mail goes out after 'cancelled' has
\* replaced 'sending': cancelCampaign and the check before each mail in
\* processCampaign.
THEOREM CancellationStops == CampaignSpec => []CancelStops
<1>1. CampaignInv => CancelStops
  <2> SUFFICES ASSUME CampaignInv, Cardinality(senders) = 1 PROVE late <= 1
    BY DEF CancelStops, OneSender
  <2>1. PICK a : senders = {a}  BY FS_Singleton DEF CampaignInv, SendersInv
  <2>2. a \in Admins  BY <2>1 DEF CampaignInv, CampaignTypeOK
  <2> QED  BY <2>1, <2>2, CampaignTypes DEF CampaignInv, CancelInv
<1> QED
  BY <1>1, CampaignInvInit, CampaignStep, PTL DEF CampaignSpec

(***************************************************************************)
(* The mails of a sole sender.  MailedBy: the recipients whose mail is     *)
(* accounted for by a log, saved or about to be saved; each further mail   *)
(* was sent by a processing that stopped before it saved the log.          *)
(***************************************************************************)
Saving(a) == run[a].at = "save" /\ run[a].outcome = "sent"

MailedBy(a) ==
  {r \in Recipients : log[<<a, r>>] = "sent" \/ (Saving(a) /\ CurrentLog(a) = <<a, r>>)}

HasEnded(a) ==
  \/ campaign.status \in {"sent", "failed"}
  \/ run[a].at = "saveEnd" /\ run[a].ended \in {"sent", "failed"}

SoleSender(a) ==
  /\ run[a].at = "none" =>
       /\ \A r \in Recipients : mails[r] = 0
       /\ campaign.status \notin {"sent", "failed"}
  /\ asked[a].at = "addJob" => \A r \in Recipients : log[<<a, r>>] = "queued"
  /\ run[a].at \notin {"none", "lost"} => \A r \in Recipients : log[<<a, r>>] # "none"
  /\ run[a].at \in {"check", "send", "save"} => run[a].batch \subseteq Queued
  /\ \A r \in Recipients : log[<<a, r>>] = "sent" => mails[r] > 0
  /\ Saving(a) => mails[CurrentLog(a)[2]] > 0
  /\ HasEnded(a) => \A r \in Recipients : log[<<a, r>>] \in {"sent", "failed"}
  /\ SumFunctionOnSet(mails, Recipients) <= Cardinality(MailedBy(a)) + stops

MailInv ==
  /\ senders = {} => \A r \in Recipients : mails[r] = 0
  /\ \A d \in Logs : d[1] \notin senders => log[d] = "none"
  /\ \A a \in Admins : senders = {a} => SoleSender(a)

AnyStep(a) ==
  \/ UpdateCampaign(a) \/ SendCampaignTest(a)
  \/ SendCampaign(a) \/ CancelCampaign(a) \/ RequestStep(a)
  \/ RequestBreaksOff(a) \/ ProcessStep(a) \/ Stop(a)

LEMMA AtMostRecipients ==
  ASSUME NEW T, T \subseteq Recipients
  PROVE  IsFiniteSet(T) /\ Cardinality(T) \in Nat /\ Cardinality(T) <= Cardinality(Recipients)
BY FS_Subset, FS_CardinalityType, CampaignAssumption

LEMMA MailedKnown ==
  \A a \in Admins : MailedBy(a) \subseteq Recipients /\ Cardinality(MailedBy(a)) \in Nat
BY AtMostRecipients DEF MailedBy

LEMMA MailsKnown ==
  ASSUME CampaignTypeOK
  PROVE  SumFunctionOnSet(mails, Recipients) \in Nat /\ stops \in Nat
<1>1. \A r \in Recipients : mails[r] \in Nat  BY CampaignTypes
<1>2. SumFunctionOnSet(mails, Recipients) \in Nat
  BY <1>1, SumNat, CampaignAssumption
<1> QED  BY <1>2, CampaignTypes

LEMMA CurrentInBatch ==
  ASSUME CampaignInv, NEW a \in Admins, run[a].at \in {"check", "send", "save"}
  PROVE  CurrentLog(a) \in run[a].batch /\ CurrentLog(a) \in Logs
<1>1. run[a].batch # {} /\ run[a].batch \subseteq Logs
  BY CampaignTypes DEF CampaignInv, RunRecord, Batches
<1> QED  BY <1>1 DEF CurrentLog

LEMMA CurrentIsOwn ==
  ASSUME CampaignInv, MailInv, NEW a \in Admins, senders = {a},
         run[a].at \in {"check", "send", "save"}
  PROVE  \E r \in Recipients : CurrentLog(a) = <<a, r>> /\ log[<<a, r>>] = "queued"
<1>1. CurrentLog(a) \in run[a].batch /\ CurrentLog(a) \in Logs
  BY CurrentInBatch
<1>2. log[CurrentLog(a)] = "queued"
  BY <1>1 DEF MailInv, SoleSender, Queued
<1>3. CurrentLog(a)[1] = a  BY <1>1, <1>2 DEF MailInv
<1> QED  BY <1>1, <1>2, <1>3 DEF Logs

\* The logs of those who have not begun to send, and their mails.
LEMMA OthersStep ==
  ASSUME CampaignInv, MailInv, NEW a \in Admins, AnyStep(a)
  PROVE  /\ senders' = {} => \A r \in Recipients : mails'[r] = 0
         /\ \A d \in Logs : d[1] \notin senders' => log'[d] = "none"
<1>0. CampaignTypeOK /\ SendersInv /\ log \in [Logs -> LogStatuses]
  BY CampaignTypes DEF CampaignInv
<1>1. CASE UNCHANGED <<log, mails>> /\ senders \subseteq senders'
  BY <1>1 DEF MailInv
<1>2. CASE DeleteLogs(a)
  <2>1. a \in senders
    BY <1>0, <1>2 DEF DeleteLogs, Continue, SendersInv, Beginning
  <2> QED  BY <1>2, <2>1 DEF DeleteLogs, campaignHistory
<1>3. CASE InsertLogs(a)
  <2>1. a \in senders
    BY <1>0, <1>3 DEF InsertLogs, Continue, SendersInv, Beginning
  <2> QED  BY <1>3, <2>1 DEF InsertLogs, campaignHistory, MailInv
<1>4. CASE SendMail(a)
  <2>1. a \in senders
    BY <1>0, <1>4 DEF SendMail, Processing, SendersInv, Beginning
  <2> QED  BY <1>4, <2>1 DEF SendMail, MailInv
<1>5. CASE SaveLog(a) /\ log' # log
  <2>1. a \in senders /\ senders' = senders
    BY <1>0, <1>5 DEF SaveLog, Processing, SendersInv, Beginning, campaignHistory
  <2>2. CurrentLog(a) \in Logs
    BY <1>5, CurrentInBatch DEF SaveLog, Processing
  <2>3. /\ log[CurrentLog(a)] # "none"
        /\ log' = [log EXCEPT ![CurrentLog(a)] = run[a].outcome]
    BY <1>5 DEF SaveLog
  <2>4. CurrentLog(a)[1] \in senders  BY <2>2, <2>3 DEF MailInv
  <2> QED  BY <1>0, <2>1, <2>2, <2>3, <2>4 DEF MailInv
<1>6. CASE SaveLog(a) /\ log' = log
  BY <1>1, <1>6 DEF SaveLog, campaignHistory
<1>7. CASE RequestBreaksOff(a)
  <2>1. CASE asked[a].at \in Beginning
    <3>1. a \in senders /\ UNCHANGED <<senders, mails>>
      BY <1>0, <1>7, <2>1, BreakingOff DEF SendersInv, campaignHistory
    <3>2. \A d \in Logs : d[1] # a => log'[d] \in {log[d], "none"}
      BY <1>7, <2>1 DEF RequestBreaksOff, Beginning
    <3> QED  BY <3>1, <3>2 DEF MailInv
  <2>2. CASE asked[a].at \notin Beginning
    BY <1>0, <1>1, <1>7, <2>2, BreakingOff DEF campaignHistory
  <2> QED  BY <2>1, <2>2
<1> QED
  BY <1>1, <1>2, <1>3, <1>4, <1>5, <1>6, <1>7
     DEF AnyStep, UpdateCampaign, SendCampaignTest, SendCampaign, CancelCampaign,
         Ask, RequestStep, SaveEdited, SendTest, SaveTest, SaveCancelled,
         SaveSending, AddJob, ProcessStep, Start, FindLogs, CheckStatus,
         CountLogs, SaveEnd, Stop, campaignHistory

\* Before the first mail nothing has to be accounted for.
LEMMA NoMailYet ==
  ASSUME CampaignTypeOK', NEW a \in Admins, \A r \in Recipients : mails'[r] = 0
  PROVE  SumFunctionOnSet(mails', Recipients) <= Cardinality(MailedBy(a)') + stops'
<1>1. SumFunctionOnSet(mails', Recipients) = 0
  BY SumZero, CampaignAssumption
<1>2. MailedBy(a)' \subseteq Recipients  BY DEF MailedBy
<1>3. Cardinality(MailedBy(a)') \in Nat  BY <1>2, AtMostRecipients
<1>4. stops' \in Nat  BY CampaignAssumption DEF CampaignTypeOK
<1> QED  BY <1>1, <1>3, <1>4

LEMMA SoleRequest ==
  ASSUME CampaignInv, CampaignInv', MailInv, NEW a \in Admins, NEW b \in Admins,
         \/ UpdateCampaign(b) \/ SendCampaignTest(b)
         \/ SendCampaign(b) \/ CancelCampaign(b) \/ RequestStep(b)
         \/ RequestBreaksOff(b),
         senders' = {a}
  PROVE  SoleSender(a)'
<1>0. /\ CampaignTypeOK /\ SendersInv /\ CampaignTypeOK' /\ SendersInv'
      /\ campaign \in CampaignRecord
      /\ log \in [Logs -> LogStatuses] /\ asked \in [Admins -> AskedRecord]
      /\ run \in [Admins -> RunRecord]
  BY CampaignTypes DEF CampaignInv
<1>1. CASE /\ UNCHANGED <<senders, log, mails, stops, run>>
           /\ campaign'.status \in {campaign.status, "cancelled"}
           /\ asked'[a].at = "addJob" => asked[a].at = "addJob"
  <2>1. SoleSender(a)  BY <1>1 DEF MailInv
  <2>2. Saving(a)' = Saving(a) /\ CurrentLog(a)' = CurrentLog(a)
    BY <1>1, Zenon DEF Saving, CurrentLog
  <2>3. MailedBy(a)' = MailedBy(a)  BY <1>1, <2>2 DEF MailedBy
  <2>4. HasEnded(a)' => HasEnded(a)  BY <1>1 DEF HasEnded
  <2>5. Queued' = Queued  BY <1>1 DEF Queued
  <2> QED  BY <1>1, <2>1, <2>2, <2>3, <2>4, <2>5 DEF SoleSender
<1>2. CASE SaveSending(b)
  <2>1. b \notin senders
    BY <1>0, <1>2 DEF SaveSending, Continue, SendersInv, Beginning
  <2>2. senders = {} /\ b = a  BY <1>2, <2>1 DEF SaveSending
  <2>3. /\ run'[a].at = "none" /\ campaign'.status = "sending"
        /\ asked'[a].at = "deleteLogs"
    BY <1>0, <1>2, <2>2, ContinueStep
       DEF SaveSending, Continue, SendersInv, Beginning, CampaignRecord
  <2>4. /\ \A r \in Recipients : mails'[r] = 0
        /\ \A r \in Recipients : log'[<<a, r>>] = "none"
    BY <1>2, <2>2 DEF SaveSending, MailInv, Logs
  <2>5. ~HasEnded(a)' /\ ~Saving(a)'  BY <2>3 DEF HasEnded, Saving
  <2> QED  BY <1>0, <2>3, <2>4, <2>5, NoMailYet DEF SoleSender
<1>3. CASE DeleteLogs(b) \/ InsertLogs(b)
  <2>1. b = a /\ run[a].at = "none" /\ UNCHANGED <<senders, run, campaign, mails>>
    BY <1>0, <1>3
       DEF DeleteLogs, InsertLogs, Continue, SendersInv, Beginning, campaignHistory
  <2>2. SoleSender(a)  BY <2>1 DEF MailInv
  <2>3. /\ \A r \in Recipients : mails'[r] = 0
        /\ campaign'.status \notin {"sent", "failed"}
    BY <2>1, <2>2 DEF SoleSender
  <2>4. /\ \A r \in Recipients : log'[<<a, r>>] # "sent"
        /\ asked'[a].at = "addJob" => \A r \in Recipients : log'[<<a, r>>] = "queued"
    <3>1. CASE DeleteLogs(a)
      <4>1. asked'[a].at = "insertLogs"
        BY <1>0, <3>1, ContinueStep DEF DeleteLogs
      <4> QED  BY <3>1, <4>1 DEF DeleteLogs, Logs
    <3>2. CASE InsertLogs(a)  BY <3>2 DEF InsertLogs, Logs
    <3> QED  BY <1>3, <2>1, <3>1, <3>2
  <2>5. ~HasEnded(a)' /\ ~Saving(a)'  BY <2>1, <2>3 DEF HasEnded, Saving
  <2> QED  BY <1>0, <2>1, <2>3, <2>4, <2>5, NoMailYet DEF SoleSender
<1>4. CASE AddJob(b)
  <2>1. /\ b = a /\ run[a].at = "none" /\ asked[a].at = "addJob"
        /\ UNCHANGED <<senders, log, campaign, mails>>
    BY <1>0, <1>4 DEF AddJob, Answer, SendersInv, Beginning, campaignHistory
  <2>2. SoleSender(a)  BY <2>1 DEF MailInv
  <2>3. run'[a].at = "waiting" /\ asked'[a].at = "idle"
    BY <1>0, <1>4, <2>1, AnswerStep DEF AddJob, RunRecord
  <2>4. /\ \A r \in Recipients : mails'[r] = 0 /\ log'[<<a, r>>] = "queued"
        /\ campaign'.status \notin {"sent", "failed"}
    BY <2>1, <2>2 DEF SoleSender
  <2>5. ~HasEnded(a)' /\ ~Saving(a)'  BY <2>3, <2>4 DEF HasEnded, Saving
  <2> QED  BY <1>0, <2>3, <2>4, <2>5, NoMailYet DEF SoleSender
<1>5. CASE \/ UpdateCampaign(b) \/ SendCampaignTest(b)
           \/ SendCampaign(b) \/ CancelCampaign(b)
  BY <1>0, <1>1, <1>5, AskedStep DEF campaignHistory
<1>6. CASE SaveEdited(b) \/ SaveTest(b) \/ SaveCancelled(b)
  <2>1. campaign'.status \in {campaign.status, "cancelled"}
    BY <1>0, <1>6 DEF SaveEdited, SaveTest, SaveCancelled, CampaignRecord
  <2> QED
    BY <1>0, <1>1, <1>6, <2>1, AnswerStep
       DEF SaveEdited, SaveTest, SaveCancelled, campaignHistory
<1>7. CASE SendTest(b)
  BY <1>0, <1>1, <1>7, AnswerStep, ContinueStep DEF SendTest, campaignHistory
<1>8. CASE RequestBreaksOff(b)
  <2>1. CASE asked[b].at \in Beginning
    <3>1. /\ b = a /\ run[a].at = "none" /\ run'[a].at = "lost"
          /\ asked'[a].at = "idle" /\ UNCHANGED <<senders, campaign, mails>>
      BY <1>0, <1>8, <2>1, BreakingOff DEF SendersInv, campaignHistory
    <3>2. SoleSender(a)  BY <3>1 DEF MailInv
    <3>3. /\ \A r \in Recipients : mails'[r] = 0
          /\ campaign'.status \notin {"sent", "failed"}
      BY <3>1, <3>2 DEF SoleSender
    <3>4. \A r \in Recipients : log[<<a, r>>] # "sent" /\ <<a, r>> \in Logs
      BY <3>1, <3>2, <3>3 DEF SoleSender, Logs
    <3>5. \A r \in Recipients : log'[<<a, r>>] # "sent"
      BY <1>8, <2>1, <3>1, <3>4 DEF RequestBreaksOff, Beginning
    <3>6. ~HasEnded(a)' /\ ~Saving(a)'  BY <3>1, <3>3 DEF HasEnded, Saving
    <3> QED  BY <1>0, <3>1, <3>3, <3>5, <3>6, NoMailYet DEF SoleSender
  <2>2. CASE asked[b].at \notin Beginning
    BY <1>0, <1>1, <1>8, <2>2, BreakingOff DEF campaignHistory
  <2> QED  BY <2>1, <2>2
<1> QED
  BY <1>2, <1>3, <1>4, <1>5, <1>6, <1>7, <1>8 DEF RequestStep

\* The steps of the processing that touch neither a log nor a mail.
LEMMA SoleQuiet ==
  ASSUME CampaignInv, CampaignInv', MailInv, NEW a \in Admins, senders = {a},
         Start(a) \/ FindLogs(a) \/ CheckStatus(a) \/ CountLogs(a) \/ SaveEnd(a)
  PROVE  SoleSender(a)'
<1>0. /\ SoleSender(a) /\ campaign \in CampaignRecord
      /\ run \in [Admins -> RunRecord] /\ log \in [Logs -> LogStatuses]
  BY CampaignTypes DEF CampaignInv, MailInv
<1>1. /\ UNCHANGED <<log, mails, stops, asked>>
      /\ run[a].at \notin {"none", "save", "lost"} /\ run'[a].at \notin {"none", "save"}
  BY <1>0 DEF Start, FindLogs, CheckStatus, CountLogs, SaveEnd, Processing,
     RunRecord, NoRun, campaignHistory
<1>2. ~Saving(a) /\ ~Saving(a)'  BY <1>1 DEF Saving
<1>3. MailedBy(a)' = MailedBy(a)  BY <1>1, <1>2 DEF MailedBy
<1>4. run'[a].at \in {"check", "send", "save"} => run'[a].batch \subseteq Queued
  BY <1>0 DEF SoleSender, Start, FindLogs, CheckStatus, CountLogs, SaveEnd,
     Processing, RunRecord, NoRun
<1>5. HasEnded(a)' => \A r \in Recipients : log[<<a, r>>] \in {"sent", "failed"}
  <2>1. CASE CountLogs(a)
    <3>1. /\ run'[a].at = "saveEnd" /\ run'[a].ended = EndStatus
          /\ campaign' = campaign
      BY <1>0, <2>1 DEF CountLogs, RunRecord
    <3>2. CASE campaign.status \in {"sent", "failed"}
      BY <1>0, <3>2 DEF SoleSender, HasEnded
    <3>3. CASE EndStatus # "sending"
      <4>1. ~HasLog("queued")  BY <3>3, Zenon DEF EndStatus
      <4>2. \A r \in Recipients : log[<<a, r>>] \in LogStatuses \ {"none", "queued"}
        BY <1>0, <1>1, <4>1 DEF HasLog, Logs, SoleSender
      <4> QED  BY <4>2 DEF LogStatuses
    <3>4. CASE EndStatus = "sending" /\ campaign.status \notin {"sent", "failed"}
      BY <3>1, <3>4 DEF HasEnded
    <3> QED  BY <3>2, <3>3, <3>4
  <2>2. CASE SaveEnd(a)
    <3>1. HasEnded(a)' => HasEnded(a)
      BY <1>0, <2>2 DEF SaveEnd, HasEnded, Processing, CampaignRecord, RunRecord, NoRun
    <3> QED  BY <1>0, <3>1 DEF SoleSender
  <2>3. CASE Start(a) \/ FindLogs(a) \/ CheckStatus(a)
    <3>1. HasEnded(a)' => HasEnded(a)
      BY <1>0, <2>3 DEF Start, FindLogs, CheckStatus, HasEnded, RunRecord
    <3> QED  BY <1>0, <3>1 DEF SoleSender
  <2> QED  BY <2>1, <2>2, <2>3
<1>6. Queued' = Queued  BY <1>1 DEF Queued
<1> QED  BY <1>0, <1>1, <1>2, <1>3, <1>4, <1>5, <1>6 DEF SoleSender

LEMMA MailsChange ==
  \A f, g : \A r \in Recipients :
    /\ \A q \in Recipients : f[q] \in Int /\ g[q] \in Int
    /\ \A q \in Recipients \ {r} : g[q] = f[q]
    => SumFunctionOnSet(g, Recipients) = SumFunctionOnSet(f, Recipients) + g[r] - f[r]
BY CampaignAssumption, SumChange

LEMMA SoleSend ==
  ASSUME CampaignInv, CampaignInv', MailInv, NEW a \in Admins, senders = {a},
         SendMail(a)
  PROVE  SoleSender(a)'
<1>0. /\ SoleSender(a) /\ CampaignTypeOK /\ run \in [Admins -> RunRecord]
      /\ mails \in [Recipients -> Nat]
  BY CampaignTypes DEF CampaignInv, MailInv
<1>1. PICK r \in Recipients : CurrentLog(a) = <<a, r>> /\ log[<<a, r>>] = "queued"
  BY CurrentIsOwn DEF SendMail, Processing
<1>2. /\ run[a].at = "send" /\ run'[a].at = "save" /\ run'[a].batch = run[a].batch
      /\ UNCHANGED <<campaign, log, asked, senders, stops>>
  BY <1>0 DEF SendMail, Processing, RunRecord
<1>3. CurrentLog(a)' = <<a, r>>  BY <1>1, <1>2, Zenon DEF CurrentLog
<1>4. ~Saving(a) /\ r \notin MailedBy(a)  BY <1>1, <1>2 DEF Saving, MailedBy
<1>5. HasEnded(a)' => HasEnded(a)  BY <1>2 DEF HasEnded
<1>6. Queued' = Queued  BY <1>2 DEF Queued
<1>7. SumFunctionOnSet(mails, Recipients) \in Nat /\ stops \in Nat
  BY <1>0, MailsKnown
<1>8. CASE run'[a].outcome = "sent"
  <2>1. /\ Saving(a)'
        /\ mails' = [mails EXCEPT ![r] = @ + 1]
    BY <1>0, <1>1, <1>2, <1>8 DEF Saving, SendMail, RunRecord
  <2>2. MailedBy(a)' = MailedBy(a) \cup {r}
    BY <1>2, <1>3, <1>4, <2>1 DEF MailedBy
  <2>3. Cardinality(MailedBy(a)') = Cardinality(MailedBy(a)) + 1
    BY <1>4, <2>2, MailedKnown, AtMostRecipients, FS_AddElement
  <2>4. \A q \in Recipients : mails'[q] \in Nat /\ mails'[q] >= mails[q]
    BY <1>0, <2>1
  <2>5. SumFunctionOnSet(mails', Recipients)
          = SumFunctionOnSet(mails, Recipients) + mails'[r] - mails[r]
    <3>1. \A q \in Recipients : mails[q] \in Int /\ mails'[q] \in Int
      BY <1>0, <2>4
    <3>2. \A q \in Recipients \ {r} : mails'[q] = mails[q]  BY <1>0, <2>1
    <3> QED  BY <3>1, <3>2, MailsChange
  <2>6. SumFunctionOnSet(mails', Recipients)
          <= Cardinality(MailedBy(a)') + stops'
    <3>1. mails[r] \in Nat /\ mails'[r] = mails[r] + 1  BY <1>0, <2>1
    <3>2. Cardinality(MailedBy(a)) \in Nat  BY MailedKnown
    <3>3. SumFunctionOnSet(mails, Recipients) <= Cardinality(MailedBy(a)) + stops
      BY <1>0 DEF SoleSender
    <3> QED  BY <1>2, <1>7, <2>3, <2>5, <3>1, <3>2, <3>3
  <2>7. mails'[r] > 0 /\ \A q \in Recipients : mails[q] > 0 => mails'[q] > 0
    BY <1>0, <2>1
  <2> QED
    BY <1>0, <1>2, <1>3, <1>5, <1>6, <2>1, <2>6, <2>7 DEF SoleSender
<1>9. CASE run'[a].outcome # "sent"
  <2>1. ~Saving(a)' /\ mails' = mails
    BY <1>0, <1>2, <1>9 DEF Saving, SendMail, RunRecord
  <2>2. MailedBy(a)' = MailedBy(a)  BY <1>2, <1>4, <2>1 DEF MailedBy
  <2> QED
    BY <1>0, <1>2, <1>5, <1>6, <2>1, <2>2 DEF SoleSender
<1> QED  BY <1>8, <1>9

LEMMA SoleSave ==
  ASSUME CampaignInv, CampaignInv', MailInv, NEW a \in Admins, senders = {a},
         SaveLog(a)
  PROVE  SoleSender(a)'
<1>0. /\ SoleSender(a) /\ CampaignTypeOK /\ run \in [Admins -> RunRecord]
      /\ log \in [Logs -> LogStatuses]
  BY CampaignTypes DEF CampaignInv, MailInv
<1>1. PICK r \in Recipients : CurrentLog(a) = <<a, r>> /\ log[<<a, r>>] = "queued"
  BY CurrentIsOwn DEF SaveLog, Processing
<1>2. run[a].at = "save" /\ UNCHANGED <<campaign, asked, mails, stops>>
  BY DEF SaveLog, Processing, campaignHistory
<1>3. PICK rest, step :
        /\ step \in {"find", "check"} /\ rest = run[a].batch \ {<<a, r>>}
        /\ log' = [log EXCEPT ![<<a, r>>] = run[a].outcome]
        /\ run' = [run EXCEPT ![a].at = step, ![a].batch = rest,
                              ![a].outcome = "queued"]
  BY <1>1 DEF SaveLog
<1>4. /\ run'[a].at = step /\ run'[a].batch = rest
  BY <1>0, <1>3 DEF RunRecord
<1>5. <<a, r>> \in Logs  BY <1>1 DEF Logs
<1>6. run[a].outcome \in {"queued", "sent", "failed"}  BY <1>0 DEF RunRecord
<1>7. /\ log'[<<a, r>>] = run[a].outcome
      /\ \A d \in Logs : d # <<a, r>> => log'[d] = log[d]
  BY <1>0, <1>3, <1>5
<1>8. Saving(a) <=> run[a].outcome = "sent"  BY <1>2 DEF Saving
<1>9. ~Saving(a)'  BY <1>3, <1>4 DEF Saving
<1>10. ~HasEnded(a) /\ ~HasEnded(a)'
  <2>1. ~HasEnded(a)  BY <1>0, <1>1 DEF SoleSender
  <2> QED  BY <1>2, <1>3, <1>4, <2>1 DEF HasEnded
<1>11. \A q \in Recipients :
         /\ <<a, q>> \in Logs
         /\ q # r => log'[<<a, q>>] = log[<<a, q>>]
  BY <1>7 DEF Logs
<1>12. MailedBy(a)' = MailedBy(a)
  <2>1. \A q \in Recipients :
          log'[<<a, q>>] = "sent" <=>
            log[<<a, q>>] = "sent" \/ (Saving(a) /\ CurrentLog(a) = <<a, q>>)
    BY <1>1, <1>7, <1>8, <1>11
  <2> QED  BY <1>9, <2>1 DEF MailedBy
<1>13. rest \subseteq Queued'
  <2>1. run[a].batch \subseteq Queued  BY <1>0, <1>2 DEF SoleSender
  <2> QED  BY <1>3, <1>7, <2>1 DEF Queued
<1>14. \A q \in Recipients :
         /\ log'[<<a, q>>] # "none"
         /\ log'[<<a, q>>] = "sent" => mails[q] > 0
  <2>1. Saving(a) => mails[r] > 0  BY <1>0, <1>1 DEF SoleSender
  <2>2. \A q \in Recipients :
          /\ log[<<a, q>>] # "none"
          /\ log[<<a, q>>] = "sent" => mails[q] > 0
    BY <1>0, <1>2 DEF SoleSender
  <2> QED  BY <1>6, <1>7, <1>8, <1>11, <2>1, <2>2
<1>15. asked[a].at # "addJob"  BY <1>2 DEF CampaignInv, SendersInv, Beginning
<1>16. run'[a].at # "none" /\ run'[a].at \notin {"none", "save"}
  BY <1>3, <1>4
<1>17. SumFunctionOnSet(mails, Recipients) <= Cardinality(MailedBy(a)) + stops
  BY <1>0 DEF SoleSender
<1> QED
  BY <1>2, <1>4, <1>9, <1>10, <1>12, <1>13, <1>14, <1>15, <1>16, <1>17
     DEF SoleSender

LEMMA SoleStop ==
  ASSUME CampaignInv, CampaignInv', MailInv, NEW a \in Admins, senders = {a},
         Stop(a)
  PROVE  SoleSender(a)'
<1>0. /\ SoleSender(a) /\ CampaignTypeOK /\ run \in [Admins -> RunRecord]
  BY CampaignTypes DEF CampaignInv, MailInv
<1>1. /\ run[a].at \notin {"none", "lost"} /\ stops' = stops + 1
      /\ UNCHANGED <<campaign, log, asked, mails>>
  BY DEF Stop
<1>2. run'[a].at \in {"lost", "waiting"}
  BY <1>0 DEF Stop, Abandoned, NoRun
<1>3. ~Saving(a)'  BY <1>2 DEF Saving
<1>4. HasEnded(a)' => HasEnded(a)  BY <1>1, <1>2 DEF HasEnded
<1>5. Cardinality(MailedBy(a)) <= Cardinality(MailedBy(a)') + 1
  <2>1. MailedBy(a)' \subseteq Recipients  BY DEF MailedBy
  <2>2. IsFiniteSet(MailedBy(a)') /\ Cardinality(MailedBy(a)') \in Nat
    BY <2>1, AtMostRecipients
  <2>3. PICK r : r = CurrentLog(a)[2]  OBVIOUS
  <2>4. MailedBy(a) \subseteq MailedBy(a)' \cup {r}
    BY <1>1, <2>3 DEF MailedBy
  <2>5. /\ IsFiniteSet(MailedBy(a)' \cup {r})
        /\ \/ Cardinality(MailedBy(a)' \cup {r}) = Cardinality(MailedBy(a)')
           \/ Cardinality(MailedBy(a)' \cup {r}) = Cardinality(MailedBy(a)') + 1
    BY <2>2, FS_AddElement
  <2>6. Cardinality(MailedBy(a)) <= Cardinality(MailedBy(a)' \cup {r})
    BY <2>4, <2>5, FS_Subset
  <2>7. Cardinality(MailedBy(a)) \in Nat  BY MailedKnown
  <2> QED  BY <2>2, <2>5, <2>6, <2>7
<1>6. SumFunctionOnSet(mails, Recipients) <= Cardinality(MailedBy(a)') + stops'
  <2>1. MailedBy(a)' \subseteq Recipients  BY DEF MailedBy
  <2>2. Cardinality(MailedBy(a)') \in Nat  BY <2>1, AtMostRecipients
  <2>3. /\ Cardinality(MailedBy(a)) \in Nat
        /\ SumFunctionOnSet(mails, Recipients) \in Nat /\ stops \in Nat
    BY <1>0, MailedKnown, MailsKnown
  <2>4. SumFunctionOnSet(mails, Recipients) <= Cardinality(MailedBy(a)) + stops
    BY <1>0 DEF SoleSender
  <2> QED  BY <1>1, <1>5, <2>2, <2>3, <2>4
<1>7. /\ \A r \in Recipients : log[<<a, r>>] # "none"
      /\ \A r \in Recipients : log[<<a, r>>] = "sent" => mails[r] > 0
      /\ asked[a].at # "addJob"
      /\ HasEnded(a) => \A r \in Recipients : log[<<a, r>>] \in {"sent", "failed"}
  BY <1>0, <1>1 DEF SoleSender, CampaignInv, SendersInv, Beginning
<1>8. SumFunctionOnSet(mails', Recipients) <= Cardinality(MailedBy(a)') + stops'
  BY <1>1, <1>6
<1> QED
  BY <1>1, <1>2, <1>3, <1>4, <1>7, <1>8 DEF SoleSender

LEMMA MailStep ==
  ASSUME CampaignInv, CampaignInv', MailInv, NEW b \in Admins, AnyStep(b)
  PROVE  MailInv'
<1>1. ASSUME NEW a \in Admins, senders' = {a} PROVE SoleSender(a)'
  <2>1. CASE ProcessStep(b) \/ Stop(b)
    <3>1. senders = {a} /\ b = a
      BY <1>1, <2>1, ProcessingStep DEF CampaignInv, SendersInv
    <3> QED
      BY <2>1, <3>1, SoleQuiet, SoleSend, SoleSave, SoleStop DEF ProcessStep
  <2>2. CASE ~(ProcessStep(b) \/ Stop(b))
    BY <1>1, <2>2, SoleRequest DEF AnyStep
  <2> QED  BY <2>1, <2>2
<1> QED  BY <1>1, OthersStep DEF MailInv

LEMMA MailInvInit == CampaignInit => MailInv
<1> SUFFICES ASSUME CampaignInit PROVE MailInv
  OBVIOUS
<1>1. senders = {}  BY DEF CampaignInit
<1>2. \A a \in Admins : senders # {a}  BY <1>1
<1> QED  BY <1>1, <1>2 DEF CampaignInit, MailInv

\* With one admin that sends, each further mail to a recipient is due to a
\* processing that stopped, and nobody is left out of a campaign that has
\* ended: sendCampaign's logs, their status after each mail and the counts at
\* the end of processCampaign.
THEOREM MailsAreCounted == CampaignSpec => []MailedOnce
<1>1. CampaignInv /\ MailInv => MailedOnce
  <2> SUFFICES ASSUME CampaignInv, MailInv, Cardinality(senders) = 1
               PROVE  /\ SumFunctionOnSet(mails, Recipients)
                            <= Cardinality(Recipients) + stops
                      /\ campaign.status \in {"sent", "failed"} =>
                           \A r \in Recipients :
                             \/ mails[r] > 0
                             \/ \E a \in Admins : log[<<a, r>>] = "failed"
    BY DEF MailedOnce, OneSender
  <2>1. PICK a : senders = {a}  BY FS_Singleton DEF CampaignInv, SendersInv
  <2>2. a \in Admins  BY <2>1 DEF CampaignInv, CampaignTypeOK
  <2>3. SoleSender(a)  BY <2>1, <2>2 DEF MailInv
  <2>4. SumFunctionOnSet(mails, Recipients) <= Cardinality(Recipients) + stops
    <3>1. /\ Cardinality(MailedBy(a)) \in Nat /\ Cardinality(Recipients) \in Nat
          /\ Cardinality(MailedBy(a)) <= Cardinality(Recipients)
      BY <2>2, MailedKnown, AtMostRecipients
    <3>2. SumFunctionOnSet(mails, Recipients) \in Nat /\ stops \in Nat
      BY MailsKnown DEF CampaignInv
    <3>3. SumFunctionOnSet(mails, Recipients) <= Cardinality(MailedBy(a)) + stops
      BY <2>3 DEF SoleSender
    <3> QED  BY <3>1, <3>2, <3>3
  <2> QED  BY <2>2, <2>3, <2>4 DEF SoleSender, HasEnded
<1>2. CampaignInv /\ CampaignInv' /\ MailInv /\ [CampaignNext]_campaignVars => MailInv'
  <2> SUFFICES ASSUME CampaignInv, CampaignInv', MailInv,
                      [CampaignNext]_campaignVars
               PROVE  MailInv'
    OBVIOUS
  <2>1. CASE UNCHANGED campaignVars
    <3>1. UNCHANGED <<campaign, log, asked, run, mails, senders, stops>>
      BY <2>1 DEF campaignVars, campaignHistory
    <3>2. \A a \in Admins : Saving(a)' = Saving(a) /\ CurrentLog(a)' = CurrentLog(a)
      BY <3>1, Zenon DEF Saving, CurrentLog
    <3>3. \A a \in Admins :
            /\ MailedBy(a)' = MailedBy(a) /\ HasEnded(a)' = HasEnded(a)
            /\ Queued' = Queued
      BY <3>1, <3>2 DEF MailedBy, HasEnded, Queued
    <3> QED  BY <3>1, <3>2, <3>3 DEF MailInv, SoleSender
  <2>2. CASE CampaignNext
    <3>1. PICK a \in Admins : AnyStep(a)  BY <2>2 DEF CampaignNext, AnyStep
    <3> QED  BY <3>1, MailStep
  <2> QED  BY <2>1, <2>2
<1> QED
  BY <1>1, <1>2, CampaignInvInit, CampaignStep, MailInvInit, PTL DEF CampaignSpec

-----------------------------------------------------------------------------
(***************************************************************************)
(* Messages.  Nothing but a text raises a counter, and a request that has  *)
(* still to write one has its message counted: CountsBounded.  A request   *)
(* that is alone is the only one for its counter (WritersKnown), so that   *)
(* what it has read of it still holds when it writes (BadgeRight) and no   *)
(* message escapes it while it marks them as read (ReadingRight).          *)
(***************************************************************************)
MessageRecord ==
  [sender : Participants, type : {"text", "system"}, readBy : SUBSET Participants,
   isDeleted : BOOLEAN, deletedBy : SUBSET Participants]

RequestRecord ==
  [at : {"idle"} \cup SendSteps \cup ReadSteps, user : Participants,
   seen : Nat \cup {NoEntry}, todo : SUBSET Nat, alone : BOOLEAN]

MessagingShape ==
  /\ message \in Seq(MessageRecord)
  /\ unread \in [Participants -> Nat \cup {NoEntry}]
  /\ request \in [Requests -> RequestRecord]
  /\ \A q \in Requests : request[q].todo \subseteq MessageIds

SentTo(u) == Texts({m \in MessageIds : message[m].sender # u})
Badge(u) == Texts(Unread(u))

CountsBounded ==
  \A u \in Participants :
    /\ Counted(u) <= Cardinality(SentTo(u))
    /\ \A q \in Writing(u) : request[q].at \in SendSteps =>
         GetUnreadCount(request[q].seen)
           + (IF request[q].at = "saveMessage" THEN 0 ELSE 1) <= Cardinality(SentTo(u))

WritersKnown ==
  \A u \in Participants : \A q \in Writing(u) :
    /\ request[q].alone => Writing(u) = {q}
    /\ ~request[q].alone => u \in muddled

BadgeRight ==
  \A u \in Participants \ muddled :
    /\ Writing(u) = {} => Cardinality(Badge(u)) <= Counted(u)
    /\ \A q \in Writing(u) : request[q].at \in SendSteps =>
         /\ request[q].seen = unread[u]
         /\ Cardinality(Badge(u))
              <= Counted(u) + (IF request[q].at = "saveMessage" THEN 0 ELSE 1)

ReadingRight ==
  \A q \in Requests, u \in Participants : request[q].alone /\ request[q].user = u =>
    /\ request[q].at = "markRead" => Badge(u) \subseteq request[q].todo
    /\ request[q].at = "saveRead" => Badge(u) = {}

MessagingInv ==
  MessagingShape /\ CountsBounded /\ WritersKnown /\ BadgeRight /\ ReadingRight

LEMMA CountKnown ==
  \A c \in Nat \cup {NoEntry} :
    GetUnreadCount(c) \in Nat /\ GetUnreadCount(c) = (IF c = NoEntry THEN 0 ELSE c)
<1> SUFFICES ASSUME NEW c \in Nat \cup {NoEntry}
             PROVE  Max({c, 0}) = (IF c = NoEntry THEN 0 ELSE c)
  BY DEF GetUnreadCount, NoEntry
<1>1. c \in Int  BY DEF NoEntry
<1>2. \E x \in {c, 0} : \A y \in {c, 0} : x >= y
  BY <1>1, c >= 0 \/ 0 >= c
<1>3. Max({c, 0}) \in {c, 0} /\ Max({c, 0}) >= 0 /\ Max({c, 0}) >= c
  BY <1>2 DEF Max
<1> QED  BY <1>1, <1>3 DEF NoEntry

LEMMA OtherKnown ==
  \A u \in Participants :
    /\ Other(u) \in Participants /\ Other(u) # u
    /\ \A v \in Participants : v # u => v = Other(u)
BY MessagingAssumption DEF Other

\* The messages are numbered; texts are counted.
LEMMA MessagesKnown ==
  ASSUME MessagingShape
  PROVE  /\ Len(message) \in Nat /\ MessageIds = 1..Len(message)
         /\ MessageIds \subseteq Nat
         /\ \A m \in MessageIds : message[m] \in MessageRecord
BY LenProperties, ElementOfSeq DEF MessagingShape, MessageIds

LEMMA TextsCounted ==
  ASSUME MessagingShape
  PROVE  \A T : T \subseteq MessageIds =>
           IsFiniteSet(T) /\ Cardinality(T) \in Nat
<1>1. IsFiniteSet(MessageIds)  BY MessagesKnown, FS_Interval
<1> QED  BY <1>1, FS_Subset, FS_CardinalityType

LEMMA SetsCounted ==
  ASSUME MessagingShape
  PROVE  \A u \in Participants :
           /\ SentTo(u) \subseteq MessageIds /\ Badge(u) \subseteq MessageIds
           /\ IsFiniteSet(SentTo(u)) /\ Cardinality(SentTo(u)) \in Nat
           /\ IsFiniteSet(Badge(u)) /\ Cardinality(Badge(u)) \in Nat
BY TextsCounted DEF SentTo, Badge, Texts, Unread

\* What becomes of the messages: a message is changed, or added.
Changes(m, new) ==
  /\ message' = [message EXCEPT ![m] = new]
  /\ new \in MessageRecord
  /\ new.sender = message[m].sender /\ new.type = message[m].type
  /\ message[m].readBy \subseteq new.readBy
  /\ message[m].deletedBy \subseteq new.deletedBy
  /\ message[m].isDeleted => new.isDeleted

LEMMA ChangeKnown ==
  ASSUME MessagingShape, NEW m \in MessageIds, NEW new, Changes(m, new)
  PROVE  /\ message' \in Seq(MessageRecord) /\ MessageIds' = MessageIds
         /\ \A u \in Participants :
              /\ SentTo(u)' = SentTo(u)
              /\ Badge(u)' \subseteq Badge(u)
              /\ u \in new.readBy => Badge(u)' \subseteq Badge(u) \ {m}
<1>1. /\ Len(message) \in Nat /\ MessageIds = 1..Len(message)
      /\ message \in Seq(MessageRecord)
  BY MessagesKnown DEF MessagingShape
<1>2. /\ message' \in Seq(MessageRecord) /\ Len(message') = Len(message)
      /\ \A n \in MessageIds : message'[n] = IF n = m THEN new ELSE message[n]
  BY <1>1, ExceptSeq DEF Changes
<1>3. DOMAIN message' = MessageIds  BY <1>1, <1>2, LenProperties
<1>4. \A n \in MessageIds :
        /\ message'[n].sender = message[n].sender
        /\ message'[n].type = message[n].type
        /\ message[n].readBy \subseteq message'[n].readBy
        /\ message[n].deletedBy \subseteq message'[n].deletedBy
        /\ message[n].isDeleted => message'[n].isDeleted
  BY <1>2 DEF Changes
<1>5. message'[m] = new  BY <1>2
<1> QED
  BY <1>2, <1>3, <1>4, <1>5 DEF MessageIds, SentTo, Badge, Texts, Unread

LEMMA AppendKnown ==
  ASSUME MessagingShape, NEW u \in Participants, NEW type \in {"text", "system"},
         message' = Append(message, NewMessage(u, type))
  PROVE  /\ message' \in Seq(MessageRecord)
         /\ Len(message') \in Nat /\ Len(message') \notin MessageIds
         /\ MessageIds' = MessageIds \cup {Len(message')}
         /\ \A v \in Participants :
              IF type = "text" /\ v # u
              THEN SentTo(v)' = SentTo(v) \cup {Len(message')}
                   /\ Badge(v)' = Badge(v) \cup {Len(message')}
              ELSE SentTo(v)' = SentTo(v) /\ Badge(v)' = Badge(v)
<1>1. /\ Len(message) \in Nat /\ MessageIds = 1..Len(message)
      /\ message \in Seq(MessageRecord)
  BY MessagesKnown DEF MessagingShape
<1>2. NewMessage(u, type) \in MessageRecord  BY DEF NewMessage, MessageRecord
<1>3. /\ message' \in Seq(MessageRecord) /\ Len(message') = Len(message) + 1
      /\ \A n \in MessageIds : message'[n] = message[n]
      /\ message'[Len(message')] = NewMessage(u, type)
  BY <1>1, <1>2, AppendProperties
<1>4. /\ Len(message') \in Nat /\ Len(message') \notin MessageIds
      /\ DOMAIN message' = MessageIds \cup {Len(message')}
  BY <1>1, <1>3, LenProperties
<1>5. PICK n : n = Len(message')  OBVIOUS
<1>6. /\ n \notin MessageIds /\ MessageIds' = MessageIds \cup {n}
      /\ \A m \in MessageIds : message'[m] = message[m]
      /\ message'[n].sender = u /\ message'[n].type = type
      /\ message'[n].readBy = {} /\ message'[n].deletedBy = {}
      /\ ~message'[n].isDeleted
  BY <1>3, <1>4, <1>5 DEF MessageIds, NewMessage
<1>7. \A v \in Participants :
        IF type = "text" /\ v # u
        THEN SentTo(v)' = SentTo(v) \cup {n} /\ Badge(v)' = Badge(v) \cup {n}
        ELSE SentTo(v)' = SentTo(v) /\ Badge(v)' = Badge(v)
  <2> SUFFICES ASSUME NEW v \in Participants
               PROVE  IF type = "text" /\ v # u
                      THEN SentTo(v)' = SentTo(v) \cup {n} /\ Badge(v)' = Badge(v) \cup {n}
                      ELSE SentTo(v)' = SentTo(v) /\ Badge(v)' = Badge(v)
    OBVIOUS
  <2>1. \A m \in MessageIds' :
          m \in SentTo(v)' <=> m \in SentTo(v) \/ (m = n /\ type = "text" /\ v # u)
    BY <1>6 DEF SentTo, Texts
  <2>2. \A m \in MessageIds' :
          m \in Badge(v)' <=> m \in Badge(v) \/ (m = n /\ type = "text" /\ v # u)
    BY <1>6 DEF Badge, Texts, Unread
  <2>3. /\ SentTo(v) \subseteq MessageIds /\ SentTo(v)' \subseteq MessageIds'
        /\ Badge(v) \subseteq MessageIds /\ Badge(v)' \subseteq MessageIds'
    BY DEF SentTo, Badge, Texts, Unread
  <2>4. CASE type = "text" /\ v # u
    <3>1. SentTo(v)' = SentTo(v) \cup {n}  BY <1>6, <2>1, <2>3, <2>4
    <3>2. Badge(v)' = Badge(v) \cup {n}  BY <1>6, <2>2, <2>3, <2>4
    <3> QED  BY <2>4, <3>1, <3>2
  <2>5. CASE ~(type = "text" /\ v # u)
    <3>1. SentTo(v)' = SentTo(v)  BY <1>6, <2>1, <2>3, <2>5
    <3>2. Badge(v)' = Badge(v)  BY <1>6, <2>2, <2>3, <2>5
    <3> QED  BY <2>5, <3>1, <3>2
  <2> QED  BY <2>4, <2>5
<1> QED  BY <1>3, <1>4, <1>5, <1>6, <1>7

\* What becomes of the requests: one goes on, ends or begins.
GoesOn(q) ==
  /\ request' \in [Requests -> RequestRecord]
  /\ \A p \in Requests \ {q} : request'[p] = request[p]
  /\ request'[q].user = request[q].user
  /\ request'[q].seen = request[q].seen
  /\ request'[q].alone <=> request[q].alone
  /\ \A u \in Participants : Writing(u)' = Writing(u)

Finishes(q) ==
  /\ request' \in [Requests -> RequestRecord]
  /\ \A p \in Requests \ {q} : request'[p] = request[p]
  /\ request'[q].at = "idle" /\ request'[q].todo = {}
  /\ \A u \in Participants : Writing(u)' = Writing(u) \ {q}

LEMMA GoesOnKnown ==
  ASSUME MessagingShape, NEW q \in Requests, NEW new \in RequestRecord,
         request' = [request EXCEPT ![q] = new],
         new.user = request[q].user, new.seen = request[q].seen,
         new.alone <=> request[q].alone,
         \/ request[q].at \in SendSteps /\ new.at \in SendSteps
         \/ request[q].at \in ReadSteps /\ new.at \in ReadSteps
  PROVE  GoesOn(q) /\ request'[q] = new
<1>1. request \in [Requests -> RequestRecord]  BY DEF MessagingShape
<1>2. /\ request' \in [Requests -> RequestRecord] /\ request'[q] = new
      /\ \A p \in Requests \ {q} : request'[p] = request[p]
  BY <1>1
<1>3. \A u \in Participants : Writing(u)' = Writing(u)
  BY <1>2 DEF Writing, SendSteps, ReadSteps
<1> QED  BY <1>2, <1>3 DEF GoesOn

\* The request with another step and other messages to save.
Follows(new, old, step, todo) ==
  /\ new \in RequestRecord /\ new.at = step /\ new.todo = todo
  /\ new.user = old.user /\ new.seen = old.seen /\ (new.alone <=> old.alone)

LEMMA NewStep ==
  ASSUME NEW r \in RequestRecord,
         NEW step \in {"idle"} \cup SendSteps \cup ReadSteps,
         NEW new, new = [r EXCEPT !.at = step]
  PROVE  Follows(new, r, step, r.todo)
BY DEF RequestRecord, Follows

LEMMA NewTodo ==
  ASSUME NEW r \in RequestRecord, NEW todo \in SUBSET Nat,
         NEW new, new = [r EXCEPT !.todo = todo]
  PROVE  Follows(new, r, r.at, todo)
BY DEF RequestRecord, Follows

LEMMA NewRequest ==
  ASSUME NEW r \in RequestRecord, NEW todo \in SUBSET Nat,
         NEW step \in {"idle"} \cup SendSteps \cup ReadSteps,
         NEW new, new = [r EXCEPT !.at = step, !.todo = todo]
  PROVE  Follows(new, r, step, todo)
<1>1. PICK mid : mid = [r EXCEPT !.at = step]  OBVIOUS
<1>2. Follows(mid, r, step, r.todo)  BY <1>1, NewStep
<1>3. new = [mid EXCEPT !.todo = todo] /\ mid \in RequestRecord
  BY <1>1, <1>2 DEF Follows
<1>4. Follows(new, mid, mid.at, todo)  BY <1>3, NewTodo
<1> QED  BY <1>2, <1>4 DEF Follows

LEMMA FinishesKnown ==
  ASSUME MessagingShape, NEW q \in Requests,
         request' = [request EXCEPT ![q] = NoRequest]
  PROVE  Finishes(q)
<1>1. NoRequest \in RequestRecord
  BY MessagingAssumption DEF NoRequest, RequestRecord
<1>2. /\ NoRequest.at = "idle" /\ NoRequest.todo = {}  BY DEF NoRequest
<1> QED
  BY <1>1, <1>2 DEF Finishes, MessagingShape, Writing, SendSteps, ReadSteps

BeginsFor(q, u, counted, step) ==
  /\ Begin(q, u, counted, step)
  /\ \/ step = "saveMessage" /\ counted = Other(u)
     \/ step = "findUnread" /\ counted = u

LEMMA BeginKnown ==
  ASSUME MessagingShape, NEW q \in Requests, NEW u \in Participants,
         NEW c \in Participants, NEW step, BeginsFor(q, u, c, step)
  PROVE  /\ request' \in [Requests -> RequestRecord]
         /\ request'[q].at = step /\ request'[q].user = u
         /\ request'[q].seen = unread[c] /\ request'[q].todo = {}
         /\ request'[q].alone <=> Writing(c) = {}
         /\ \A p \in Requests \ {q} :
              /\ request'[p].at = request[p].at /\ request'[p].user = request[p].user
              /\ request'[p].seen = request[p].seen
              /\ request'[p].todo = request[p].todo
              /\ request'[p].alone <=> request[p].alone /\ p \notin Writing(c)
         /\ q \notin Writing(c) /\ Writing(c)' = Writing(c) \cup {q}
         /\ \A v \in Participants \ {c} : Writing(v)' = Writing(v)
<1>1. /\ request \in [Requests -> RequestRecord]
      /\ unread \in [Participants -> Nat \cup {NoEntry}]
  BY DEF MessagingShape
<1>2. PICK new : new = [at |-> step, user |-> u, seen |-> unread[c],
                        todo |-> {}, alone |-> Writing(c) = {}]
  OBVIOUS
<1>3. /\ new \in RequestRecord
      /\ new.at = step /\ new.user = u /\ new.seen = unread[c] /\ new.todo = {}
      /\ new.alone <=> Writing(c) = {}
  BY <1>1, <1>2 DEF BeginsFor, RequestRecord, SendSteps, ReadSteps
<1>4. ASSUME NEW p \in Requests
      PROVE  /\ [request[p] EXCEPT !.alone = FALSE] \in RequestRecord
             /\ [request[p] EXCEPT !.alone = FALSE].at = request[p].at
             /\ [request[p] EXCEPT !.alone = FALSE].user = request[p].user
             /\ [request[p] EXCEPT !.alone = FALSE].seen = request[p].seen
             /\ [request[p] EXCEPT !.alone = FALSE].todo = request[p].todo
             /\ ~[request[p] EXCEPT !.alone = FALSE].alone
  BY <1>1 DEF RequestRecord
<1>5. request' = [p \in Requests |->
                    IF p = q THEN new
                    ELSE IF p \in Writing(c) THEN [request[p] EXCEPT !.alone = FALSE]
                    ELSE request[p]]
  BY <1>2 DEF BeginsFor, Begin
<1>6. request'[q] = new  BY <1>5
<1>7. ASSUME NEW p \in Requests \ {q}
      PROVE  /\ request'[p] \in RequestRecord
             /\ request'[p].at = request[p].at /\ request'[p].user = request[p].user
             /\ request'[p].seen = request[p].seen
             /\ request'[p].todo = request[p].todo
             /\ request'[p].alone <=> request[p].alone /\ p \notin Writing(c)
  <2>1. CASE p \in Writing(c)  BY <1>4, <1>5, <2>1
  <2>2. CASE p \notin Writing(c)
    <3>1. request'[p] = request[p]  BY <1>5, <2>2
    <3> QED  BY <1>1, <2>2, <3>1
  <2> QED  BY <2>1, <2>2
<1>8. request' \in [Requests -> RequestRecord]  BY <1>3, <1>4, <1>5, <1>1
<1>9. request[q].at = "idle"  BY DEF BeginsFor, Begin
<1>10. /\ q \notin Writing(c) /\ Writing(c)' = Writing(c) \cup {q}
       /\ \A v \in Participants \ {c} : Writing(v)' = Writing(v)
  BY <1>3, <1>6, <1>7, <1>9, OtherKnown
     DEF BeginsFor, Writing, SendSteps, ReadSteps
<1> QED  BY <1>3, <1>6, <1>7, <1>8, <1>10

LEMMA OneCounter ==
  ASSUME MessagingShape
  PROVE  \A u, v \in Participants : \A q \in Writing(u) : q \in Writing(v) => u = v
<1> SUFFICES ASSUME NEW u \in Participants, NEW v \in Participants,
                    NEW q \in Writing(u), q \in Writing(v)
             PROVE  u = v
  OBVIOUS
<1>1. CASE request[q].at \in ReadSteps
  BY <1>1 DEF Writing, SendSteps, ReadSteps
<1>2. CASE request[q].at \in SendSteps
  <2>1. u # request[q].user /\ v # request[q].user
    BY <1>2 DEF Writing, SendSteps, ReadSteps
  <2>2. request[q].user \in Participants
    BY DEF Writing, MessagingShape, RequestRecord
  <2> QED  BY <2>1, <2>2, OtherKnown
<1> QED  BY <1>1, <1>2 DEF Writing

LEMMA CountsKnown ==
  ASSUME MessagingShape
  PROVE  /\ \A u \in Participants :
              /\ Counted(u) \in Nat
              /\ Cardinality(SentTo(u)) \in Nat /\ Cardinality(Badge(u)) \in Nat
         /\ \A q \in Requests :
              /\ request[q] \in RequestRecord
              /\ GetUnreadCount(request[q].seen) \in Nat
BY CountKnown, SetsCounted DEF MessagingShape, Counted, RequestRecord

\* Where nothing new is to be read.
NothingNew ==
  \A u \in Participants : SentTo(u) \subseteq SentTo(u)' /\ Badge(u)' \subseteq Badge(u)

LEMMA NothingNewKnown ==
  ASSUME MessagingShape, MessagingShape', NothingNew
  PROVE  \A u \in Participants :
           /\ Cardinality(SentTo(u)') \in Nat /\ Cardinality(Badge(u)') \in Nat
           /\ Cardinality(SentTo(u)) <= Cardinality(SentTo(u)')
           /\ Cardinality(Badge(u)') <= Cardinality(Badge(u))
<1> SUFFICES ASSUME NEW u \in Participants
             PROVE  /\ Cardinality(SentTo(u)') \in Nat /\ Cardinality(Badge(u)') \in Nat
                    /\ Cardinality(SentTo(u)) <= Cardinality(SentTo(u)')
                    /\ Cardinality(Badge(u)') <= Cardinality(Badge(u))
  OBVIOUS
<1>1. Len(message') \in Nat /\ DOMAIN message' = 1..Len(message')
  BY LenProperties DEF MessagingShape
<1>2. IsFiniteSet(DOMAIN message')  BY <1>1, FS_Interval
<1>3. SentTo(u)' \subseteq DOMAIN message'  BY DEF SentTo, Texts, MessageIds
<1>4. IsFiniteSet(SentTo(u)') /\ IsFiniteSet(Badge(u))
  BY <1>2, <1>3, SetsCounted, FS_Subset
<1> QED  BY <1>4, FS_Subset, FS_CardinalityType DEF NothingNew

\* Steps that leave the counters and what is to be written to them.
LEMMA QuietStep ==
  ASSUME MessagingInv, MessagingShape', NothingNew, UNCHANGED <<unread, muddled>>,
         NEW q, (q \in Requests /\ GoesOn(q)) \/ UNCHANGED request,
         (request'[q].at = "saveMessage") <=> (request[q].at = "saveMessage"),
         \A u \in Participants :
           q \in Requests /\ request'[q].alone /\ request'[q].user = u =>
             /\ request'[q].at = "markRead" => Badge(u)' \subseteq request'[q].todo
             /\ request'[q].at = "saveRead" => Badge(u)' = {}
  PROVE  CountsBounded' /\ WritersKnown' /\ BadgeRight' /\ ReadingRight'
<1>0. MessagingShape /\ CountsBounded /\ WritersKnown /\ BadgeRight /\ ReadingRight
  BY DEF MessagingInv
<1>1. /\ \A u \in Participants : Writing(u)' = Writing(u)
      /\ \A p \in Requests \ {q} : request'[p] = request[p]
      /\ \A p \in Requests :
           /\ request'[p].seen = request[p].seen
           /\ request'[p].alone <=> request[p].alone
           /\ request'[p].at = "saveMessage" <=> request[p].at = "saveMessage"
           /\ request'[p].user = request[p].user
  BY DEF GoesOn, Writing
<1>2. \A u \in Participants : \A p \in Writing(u) :
        /\ p \in Requests
        /\ request'[p].at \in SendSteps <=> request[p].at \in SendSteps
  BY <1>1 DEF Writing, SendSteps, ReadSteps
<1>3. CountsBounded'
  <2> SUFFICES ASSUME NEW u \in Participants
               PROVE  /\ Counted(u)' <= Cardinality(SentTo(u)')
                      /\ \A p \in Writing(u)' : request'[p].at \in SendSteps =>
                           GetUnreadCount(request'[p].seen)
                             + (IF request'[p].at = "saveMessage" THEN 0 ELSE 1)
                           <= Cardinality(SentTo(u)')
    BY DEF CountsBounded, Counted, GetUnreadCount
  <2>1. Counted(u)' = Counted(u)  BY DEF Counted, GetUnreadCount
  <2>2. /\ Cardinality(SentTo(u)) <= Cardinality(SentTo(u)')
        /\ Cardinality(SentTo(u)) \in Nat /\ Cardinality(SentTo(u)') \in Nat
        /\ Counted(u) \in Nat
    BY <1>0, NothingNewKnown, CountsKnown
  <2>3. ASSUME NEW p \in Writing(u)', request'[p].at \in SendSteps
        PROVE  GetUnreadCount(request'[p].seen)
                 + (IF request'[p].at = "saveMessage" THEN 0 ELSE 1)
               <= Cardinality(SentTo(u)')
    <3>1. p \in Writing(u) /\ p \in Requests /\ request[p].at \in SendSteps
      BY <1>1, <1>2, <2>3
    <3>2. GetUnreadCount(request[p].seen)
            + (IF request[p].at = "saveMessage" THEN 0 ELSE 1)
          <= Cardinality(SentTo(u))
      BY <1>0, <3>1 DEF CountsBounded
    <3>3. GetUnreadCount(request[p].seen) \in Nat  BY <1>0, <3>1, CountsKnown
    <3> QED  BY <1>1, <2>2, <3>1, <3>2, <3>3
  <2> QED  BY <1>0, <2>1, <2>2, <2>3 DEF CountsBounded
<1>4. WritersKnown'  BY <1>0, <1>1, <1>2 DEF WritersKnown
<1>5. BadgeRight'
  <2> SUFFICES ASSUME NEW u \in Participants \ muddled'
               PROVE  /\ Writing(u)' = {} => Cardinality(Badge(u)') <= Counted(u)'
                      /\ \A p \in Writing(u)' : request'[p].at \in SendSteps =>
                           /\ request'[p].seen = unread'[u]
                           /\ Cardinality(Badge(u)')
                                <= Counted(u)'
                                   + (IF request'[p].at = "saveMessage" THEN 0 ELSE 1)
    BY DEF BadgeRight
  <2>1. Counted(u)' = Counted(u)  BY DEF Counted, GetUnreadCount
  <2>2. /\ Cardinality(Badge(u)') <= Cardinality(Badge(u))
        /\ Cardinality(Badge(u)) \in Nat /\ Cardinality(Badge(u)') \in Nat
        /\ Counted(u) \in Nat
    BY <1>0, NothingNewKnown, CountsKnown
  <2> QED  BY <1>0, <1>1, <1>2, <2>1, <2>2 DEF BadgeRight
<1>6. ReadingRight'
  <2> SUFFICES ASSUME NEW p \in Requests, NEW u \in Participants, p # q,
                      request'[p].alone, request'[p].user = u
               PROVE  /\ request'[p].at = "markRead" => Badge(u)' \subseteq request'[p].todo
                      /\ request'[p].at = "saveRead" => Badge(u)' = {}
    BY DEF ReadingRight
  <2>1. request'[p] = request[p] /\ request[p].alone /\ request[p].user = u
    BY <1>1
  <2>2. Badge(u)' \subseteq Badge(u)  BY DEF NothingNew
  <2> QED  BY <1>0, <2>1, <2>2 DEF ReadingRight
<1> QED  BY <1>3, <1>4, <1>5, <1>6

LEMMA ShapeChecked ==
  ASSUME message' \in Seq(MessageRecord), request' \in [Requests -> RequestRecord],
         unread' \in [Participants -> Nat \cup {NoEntry}],
         \A q \in Requests : request'[q].todo \subseteq MessageIds'
  PROVE  MessagingShape'
BY DEF MessagingShape

LEMMA MessageStep ==
  ASSUME MessagingInv, NEW u \in Participants,
         AcceptProposal(u) \/ \E m \in MessageIds : DeleteMessage(u, m)
  PROVE  MessagingInv'
<1>0. MessagingShape  BY DEF MessagingInv
<1>1. UNCHANGED <<unread, request, muddled>>
  BY DEF AcceptProposal, DeleteMessage
<1>2. /\ message' \in Seq(MessageRecord) /\ MessageIds \subseteq MessageIds'
      /\ NothingNew
  <2>1. CASE AcceptProposal(u)
    BY <1>0, <2>1, AppendKnown DEF AcceptProposal, NothingNew
  <2>2. CASE \E m \in MessageIds : DeleteMessage(u, m)
    <3>1. PICK m \in MessageIds : DeleteMessage(u, m)  BY <2>2
    <3>2. PICK old : old = message[m]  OBVIOUS
    <3>3. old \in MessageRecord  BY <1>0, <3>2, MessagesKnown
    <3>4. PICK new :
            /\ message' = [message EXCEPT ![m] = new]
            /\ \/ new = [old EXCEPT !.isDeleted = TRUE]
               \/ new = [old EXCEPT !.deletedBy = @ \cup {u}]
      BY <3>1, <3>2 DEF DeleteMessage
    <3>5. Changes(m, new)
      <4>1. CASE new = [old EXCEPT !.isDeleted = TRUE]
        <5>1. /\ new \in MessageRecord /\ new.sender = old.sender
              /\ new.type = old.type /\ new.readBy = old.readBy
              /\ new.deletedBy = old.deletedBy /\ new.isDeleted
          BY <3>3, <4>1 DEF MessageRecord
        <5> QED  BY <3>2, <3>4, <5>1 DEF Changes
      <4>2. CASE new = [old EXCEPT !.deletedBy = @ \cup {u}]
        <5>1. /\ new \in MessageRecord /\ new.sender = old.sender
              /\ new.type = old.type /\ new.readBy = old.readBy
              /\ old.deletedBy \subseteq new.deletedBy
              /\ new.isDeleted <=> old.isDeleted
          BY <3>3, <4>2 DEF MessageRecord
        <5> QED  BY <3>2, <3>4, <5>1 DEF Changes
      <4> QED  BY <3>4, <4>1, <4>2
    <3> QED  BY <1>0, <3>5, ChangeKnown DEF NothingNew
  <2> QED  BY <2>1, <2>2
<1>3. MessagingShape'
  BY <1>0, <1>1, <1>2, ShapeChecked DEF MessagingShape
<1>4. CountsBounded' /\ WritersKnown' /\ BadgeRight' /\ ReadingRight'
  <2>1. PICK q : q = u  OBVIOUS
  <2>2. \A v \in Participants :
          q \in Requests /\ request'[q].alone /\ request'[q].user = v =>
            /\ request'[q].at = "markRead" => Badge(v)' \subseteq request'[q].todo
            /\ request'[q].at = "saveRead" => Badge(v)' = {}
    BY <1>1, <1>2 DEF MessagingInv, ReadingRight, NothingNew
  <2>3. request'[q].at = "saveMessage" <=> request[q].at = "saveMessage"  BY <1>1
  <2>4. NothingNew  BY <1>2
  <2> QED  BY <1>1, <1>3, <2>2, <2>3, <2>4, QuietStep
<1> QED  BY <1>3, <1>4 DEF MessagingInv

LEMMA ReadKnown ==
  ASSUME MessagingShape, NEW m \in MessageIds, NEW u \in Participants, Read(m, u)
  PROVE  /\ message' \in Seq(MessageRecord) /\ MessageIds' = MessageIds
         /\ NothingNew /\ Badge(u)' \subseteq Badge(u) \ {m}
<1>1. PICK old : old = message[m]  OBVIOUS
<1>2. old \in MessageRecord  BY <1>1, MessagesKnown
<1>3. PICK new : /\ new = [old EXCEPT !.readBy = @ \cup {u}]
                 /\ message' = [message EXCEPT ![m] = new]
  BY <1>1 DEF Read
<1>4. Changes(m, new) /\ u \in new.readBy
  BY <1>1, <1>2, <1>3 DEF Changes, MessageRecord
<1> QED  BY <1>4, ChangeKnown DEF NothingNew

\* A request of which only the step and the messages to save change.
Moves(from, to) ==
  \/ from = "readOwn" /\ to = "saveSent"
  \/ from \in {"findUnread", "markRead"} /\ to \in {"markRead", "saveRead"}

ReadsOn(q, step, todo) ==
  \A u \in Participants : request[q].alone /\ request[q].user = u =>
    /\ step = "markRead" => Badge(u)' \subseteq todo
    /\ step = "saveRead" => Badge(u)' = {}

LEMMA QuietRequest ==
  ASSUME MessagingInv, NEW q \in Requests, NEW todo \in SUBSET Nat, NEW step,
         UNCHANGED <<unread, muddled>>,
         NEW new, request' = [request EXCEPT ![q] = new], Follows(new, request[q], step, todo),
         Moves(request[q].at, step), ReadsOn(q, step, todo),
         message' \in Seq(MessageRecord), MessageIds' = MessageIds, NothingNew,
         todo \subseteq MessageIds
  PROVE  MessagingInv'
<1>0. /\ MessagingShape
      /\ request \in [Requests -> RequestRecord]
      /\ unread \in [Participants -> Nat \cup {NoEntry}]
      /\ \A p \in Requests : request[p].todo \subseteq MessageIds
  BY DEF MessagingInv, MessagingShape
<1>2. /\ new \in RequestRecord
      /\ new.at = step /\ new.todo = todo
      /\ new.user = request[q].user /\ new.seen = request[q].seen
      /\ new.alone <=> request[q].alone
  BY DEF Follows
<1>3. GoesOn(q) /\ request'[q] = new
  BY <1>0, <1>2, GoesOnKnown DEF SendSteps, ReadSteps, Moves
<1>4. \A p \in Requests : request'[p].todo \subseteq MessageIds'
  BY <1>0, <1>2, <1>3 DEF GoesOn
<1>5. MessagingShape'
  BY <1>0, <1>3, <1>4, ShapeChecked DEF GoesOn
<1>6. \A u \in Participants :
        q \in Requests /\ request'[q].alone /\ request'[q].user = u =>
          /\ request'[q].at = "markRead" => Badge(u)' \subseteq request'[q].todo
          /\ request'[q].at = "saveRead" => Badge(u)' = {}
  <2>1. /\ request'[q].at = step /\ request'[q].todo = todo
        /\ request'[q].user = request[q].user
        /\ request'[q].alone => request[q].alone
    BY <1>2, <1>3
  <2> QED  BY <2>1 DEF ReadsOn
<1>7. request'[q].at = "saveMessage" <=> request[q].at = "saveMessage"
  BY <1>2, <1>3 DEF Moves
<1>8. CountsBounded' /\ WritersKnown' /\ BadgeRight' /\ ReadingRight'
  BY <1>3, <1>5, <1>6, <1>7, QuietStep
<1> QED  BY <1>5, <1>8 DEF MessagingInv

LEMMA RequestGoesOn ==
  ASSUME MessagingInv, NEW q \in Requests,
         ReadOwn(q) \/ FindUnread(q) \/ MarkRead(q)
  PROVE  MessagingInv'
<1>0. /\ MessagingShape /\ ReadingRight
      /\ request \in [Requests -> RequestRecord]
      /\ message \in Seq(MessageRecord) /\ MessageIds \subseteq Nat
  BY MessagesKnown DEF MessagingInv, MessagingShape
<1>1. UNCHANGED <<unread, muddled>>  BY DEF ReadOwn, FindUnread, MarkRead
<1>2. /\ request[q] \in RequestRecord /\ request[q].user \in Participants
      /\ request[q].todo \subseteq MessageIds /\ request[q].todo \in SUBSET Nat
  BY <1>0 DEF RequestRecord, MessagingShape
<1>3. message' = message => MessageIds' = MessageIds /\ NothingNew
  BY DEF MessageIds, NothingNew, SentTo, Badge, Texts, Unread
<1>4. PICK r : r = request[q] /\ r \in RequestRecord  BY <1>2
<1>5. CASE ReadOwn(q)
  <2>1. PICK m \in request[q].todo : Read(m, request[q].user)
    BY <1>5 DEF ReadOwn
  <2>2. PICK u \in Participants, n \in MessageIds : u = request[q].user /\ n = m
    BY <1>2, <2>1
  <2>3. /\ message' \in Seq(MessageRecord) /\ MessageIds' = MessageIds /\ NothingNew
    BY <1>0, <2>1, <2>2, ReadKnown
  <2>4. PICK new : new = [r EXCEPT !.at = "saveSent"]  OBVIOUS
  <2>5. Follows(new, request[q], "saveSent", request[q].todo)
    BY <1>4, <2>4, NewStep DEF SendSteps
  <2>6. request' = [request EXCEPT ![q] = new]
    BY <1>0, <1>4, <1>5, <2>4 DEF ReadOwn
  <2>7. request[q].at = "readOwn"  BY <1>5 DEF ReadOwn
  <2>8. /\ request[q].todo \in SUBSET Nat /\ request[q].todo \subseteq MessageIds
        /\ Moves(request[q].at, "saveSent") /\ ReadsOn(q, "saveSent", request[q].todo)
    BY <1>2, <2>7 DEF Moves, ReadsOn
  <2> QED  BY <1>1, <2>3, <2>5, <2>6, <2>8, QuietRequest
<1>6. CASE FindUnread(q)
  <2>1. PICK todo : todo = Unread(request[q].user)  OBVIOUS
  <2>2. /\ request[q].at = "findUnread" /\ message' = message
        /\ todo \subseteq MessageIds /\ todo \in SUBSET Nat
    BY <1>0, <1>6, <2>1 DEF FindUnread, Unread
  <2>3. PICK new : new = [r EXCEPT !.at = "markRead", !.todo = todo]  OBVIOUS
  <2>4. Follows(new, request[q], "markRead", todo)
    BY <1>4, <2>2, <2>3, NewRequest DEF ReadSteps
  <2>5. request' = [request EXCEPT ![q] = new]
    BY <1>0, <1>4, <1>6, <2>1, <2>3 DEF FindUnread
  <2>6. \A u \in Participants : request[q].user = u => Badge(u)' \subseteq todo
    BY <1>3, <2>1, <2>2 DEF NothingNew, Badge, Texts
  <2>7. /\ message' \in Seq(MessageRecord) /\ MessageIds' = MessageIds /\ NothingNew
        /\ Moves(request[q].at, "markRead") /\ ReadsOn(q, "markRead", todo)
    BY <1>0, <1>3, <2>2, <2>6 DEF Moves, ReadsOn
  <2> QED  BY <1>1, <2>2, <2>4, <2>5, <2>7, QuietRequest
<1>7. CASE MarkRead(q) /\ request[q].todo = {}
  <2>1. /\ request[q].at = "markRead" /\ message' = message
        /\ request' = [request EXCEPT ![q].at = "saveRead"]
    BY <1>7 DEF MarkRead
  <2>2. PICK new, none : /\ new = [r EXCEPT !.at = "saveRead"]
                         /\ none = request[q].todo
    OBVIOUS
  <2>3. Follows(new, request[q], "saveRead", none)
    BY <1>4, <2>2, NewStep DEF ReadSteps
  <2>4. request' = [request EXCEPT ![q] = new]  BY <1>0, <1>4, <2>1, <2>2
  <2>5. \A u \in Participants : request[q].alone /\ request[q].user = u => Badge(u)' = {}
    BY <1>0, <1>3, <1>7, <2>1 DEF NothingNew, ReadingRight
  <2>6. none \in SUBSET Nat /\ none \subseteq MessageIds  BY <1>2, <2>2
  <2>7. /\ message' \in Seq(MessageRecord) /\ MessageIds' = MessageIds /\ NothingNew
        /\ Moves(request[q].at, "saveRead") /\ ReadsOn(q, "saveRead", none)
    BY <1>0, <1>3, <2>1, <2>5 DEF Moves, ReadsOn
  <2> QED  BY <1>1, <2>3, <2>4, <2>6, <2>7, QuietRequest
<1>8. CASE MarkRead(q) /\ request[q].todo # {}
  <2>1. PICK m \in request[q].todo :
          /\ Read(m, request[q].user)
          /\ request' = [request EXCEPT ![q].todo = @ \ {m}]
    BY <1>8 DEF MarkRead
  <2>2. PICK u \in Participants, n \in MessageIds : u = request[q].user /\ n = m
    BY <1>2, <2>1
  <2>3. /\ message' \in Seq(MessageRecord) /\ MessageIds' = MessageIds /\ NothingNew
        /\ Badge(u)' \subseteq Badge(u) \ {m}
    BY <1>0, <2>1, <2>2, ReadKnown
  <2>4. request[q].at = "markRead"  BY <1>8 DEF MarkRead
  <2>5. PICK rest : rest = r.todo \ {m}  OBVIOUS
  <2>6. rest \in SUBSET Nat /\ rest \subseteq MessageIds  BY <1>2, <1>4, <2>5
  <2>7. PICK new : new = [r EXCEPT !.todo = rest]  OBVIOUS
  <2>8. Follows(new, request[q], "markRead", rest)
    BY <1>4, <2>4, <2>6, <2>7, NewTodo
  <2>9. request' = [request EXCEPT ![q] = new]  BY <1>0, <1>4, <2>1, <2>5, <2>7
  <2>10. request[q].alone => Badge(u)' \subseteq rest
    BY <1>0, <1>4, <2>2, <2>3, <2>4, <2>5 DEF ReadingRight
  <2>11. Moves(request[q].at, "markRead") /\ ReadsOn(q, "markRead", rest)
    BY <2>2, <2>4, <2>10 DEF Moves, ReadsOn
  <2> QED  BY <1>1, <2>3, <2>6, <2>8, <2>9, <2>11, QuietRequest
<1> QED  BY <1>5, <1>6, <1>7, <1>8

\* What is left of the others.
LEMMA OthersStay ==
  ASSUME MessagingShape, NEW q \in Requests, Finishes(q), message' = message,
         unread' \in [Participants -> Nat \cup {NoEntry}]
  PROVE  /\ MessagingShape'
         /\ \A u \in Participants :
              SentTo(u)' = SentTo(u) /\ Badge(u)' = Badge(u)
         /\ \A u \in Participants : \A p \in Writing(u)' :
              p \in Writing(u) /\ p \in Requests /\ p # q /\ request'[p] = request[p]
<1>1. \A u \in Participants : SentTo(u)' = SentTo(u) /\ Badge(u)' = Badge(u)
  BY DEF SentTo, Badge, Texts, Unread, MessageIds
<1>2. MessagingShape'
  BY DEF MessagingShape, Finishes, MessageIds
<1>3. \A u \in Participants : \A p \in Writing(u)' :
        p \in Writing(u) /\ p \in Requests /\ p # q /\ request'[p] = request[p]
  BY DEF Finishes, Writing
<1> QED  BY <1>1, <1>2, <1>3

\* A request that ends, of whichever kind: each counter is as it was, or it
\* was the request's to write.
LEMMA EndStep ==
  ASSUME MessagingInv, NEW q \in Requests, Finishes(q), message' = message,
         unread' \in [Participants -> Nat \cup {NoEntry}],
         \A u \in Participants :
           /\ Counted(u)' <= Cardinality(SentTo(u))
           /\ q \notin Writing(u) =>
                unread'[u] = unread[u] /\ (u \in muddled' <=> u \in muddled)
           /\ q \in Writing(u) /\ Writing(u) # {q} => u \in muddled'
           /\ q \in Writing(u) /\ Writing(u) = {q} /\ u \notin muddled' =>
                Cardinality(Badge(u)) <= Counted(u)'
  PROVE  MessagingInv'
<1>0. /\ MessagingShape /\ CountsBounded /\ WritersKnown /\ BadgeRight /\ ReadingRight
  BY DEF MessagingInv
<1>1. /\ MessagingShape'
      /\ \A u \in Participants : SentTo(u)' = SentTo(u) /\ Badge(u)' = Badge(u)
      /\ \A u \in Participants : \A p \in Writing(u)' :
           p \in Writing(u) /\ p \in Requests /\ p # q /\ request'[p] = request[p]
      /\ \A u \in Participants : Writing(u)' = Writing(u) \ {q}
      /\ \A p \in Requests \ {q} : request'[p] = request[p]
      /\ request'[q].at = "idle"
  BY <1>0, OthersStay DEF Finishes
<1>2. CountsBounded'
  <2> SUFFICES ASSUME NEW u \in Participants
               PROVE  /\ Counted(u)' <= Cardinality(SentTo(u)')
                      /\ \A p \in Writing(u)' : request'[p].at \in SendSteps =>
                           GetUnreadCount(request'[p].seen)
                             + (IF request'[p].at = "saveMessage" THEN 0 ELSE 1)
                           <= Cardinality(SentTo(u)')
    BY DEF CountsBounded, Counted, GetUnreadCount
  <2>1. SentTo(u)' = SentTo(u)  BY <1>1
  <2> QED  BY <1>0, <1>1, <2>1 DEF CountsBounded
<1>3. WritersKnown'
  <2> SUFFICES ASSUME NEW u \in Participants, NEW p \in Writing(u)'
               PROVE  /\ request'[p].alone => Writing(u)' = {p}
                      /\ ~request'[p].alone => u \in muddled'
    BY DEF WritersKnown
  <2>1. p \in Writing(u) /\ p # q /\ request'[p] = request[p]  BY <1>1
  <2>2. /\ request[p].alone => Writing(u) = {p}
        /\ ~request[p].alone => u \in muddled
    BY <1>0, <2>1 DEF WritersKnown
  <2> QED  BY <1>1, <2>1, <2>2
<1>4. BadgeRight'
  <2> SUFFICES ASSUME NEW u \in Participants, u \notin muddled'
               PROVE  /\ Writing(u)' = {} => Cardinality(Badge(u)') <= Counted(u)'
                      /\ \A p \in Writing(u)' : request'[p].at \in SendSteps =>
                           /\ request'[p].seen = unread'[u]
                           /\ Cardinality(Badge(u)')
                                <= Counted(u)'
                                   + (IF request'[p].at = "saveMessage" THEN 0 ELSE 1)
    BY DEF BadgeRight
  <2>1. Badge(u)' = Badge(u)  BY <1>1
  <2>2. CASE q \in Writing(u)
    <3>1. Writing(u) = {q}  BY <2>2
    <3>2. Writing(u)' = {}  BY <1>1, <3>1
    <3> QED  BY <2>1, <2>2, <3>1, <3>2
  <2>3. CASE q \notin Writing(u)
    <3>1. /\ unread'[u] = unread[u] /\ u \notin muddled /\ Writing(u)' = Writing(u)
      BY <1>1, <2>3, ZenonT(40)
    <3>2. Counted(u)' = Counted(u)  BY <3>1 DEF Counted, GetUnreadCount
    <3> QED  BY <1>0, <1>1, <2>1, <3>1, <3>2 DEF BadgeRight
  <2> QED  BY <2>2, <2>3
<1>5. ReadingRight'
  <2> SUFFICES ASSUME NEW p \in Requests, NEW u \in Participants,
                      request'[p].alone, request'[p].user = u
               PROVE  /\ request'[p].at = "markRead" => Badge(u)' \subseteq request'[p].todo
                      /\ request'[p].at = "saveRead" => Badge(u)' = {}
    BY DEF ReadingRight
  <2>1. Badge(u)' = Badge(u)  BY <1>1
  <2>2. CASE p = q  BY <1>1, <2>2
  <2>3. CASE p # q
    <3>1. request'[p] = request[p]  BY <1>1, <2>3
    <3> QED  BY <1>0, <2>1, <3>1 DEF ReadingRight
  <2> QED  BY <2>2, <2>3
<1> QED  BY <1>1, <1>2, <1>3, <1>4, <1>5 DEF MessagingInv

LEMMA RequestEnds ==
  ASSUME MessagingInv, NEW q \in Requests,
         SaveSent(q) \/ SaveRead(q) \/ BreakOff(q)
  PROVE  MessagingInv'
<1>0. /\ MessagingShape /\ CountsBounded /\ WritersKnown /\ BadgeRight /\ ReadingRight
      /\ request \in [Requests -> RequestRecord]
      /\ unread \in [Participants -> Nat \cup {NoEntry}]
  BY DEF MessagingInv, MessagingShape
<1>1. Finishes(q) /\ message' = message
  BY <1>0, FinishesKnown DEF SaveSent, SaveRead, BreakOff
<1>2. /\ request[q] \in RequestRecord /\ request[q].user \in Participants
      /\ GetUnreadCount(request[q].seen) \in Nat
  BY <1>0, CountsKnown DEF RequestRecord
<1>3. \A u \in Participants :
        /\ Counted(u) \in Nat /\ Counted(u) <= Cardinality(SentTo(u))
        /\ Cardinality(SentTo(u)) \in Nat /\ Cardinality(Badge(u)) \in Nat
        /\ unread'[u] = unread[u] => Counted(u)' = Counted(u)
  BY <1>0, CountsKnown DEF CountsBounded, Counted, GetUnreadCount
<1>4. \A u \in Participants : q \in Writing(u) /\ Writing(u) # {q} => u \in muddled
  BY <1>0, CountsKnown DEF WritersKnown, Writing, RequestRecord
<1>5. CASE SaveSent(q)
  <2>1. PICK u \in Participants, n \in Nat :
          /\ u = Other(request[q].user) /\ n = GetUnreadCount(request[q].seen) + 1
    BY <1>2, OtherKnown
  <2>2. request[q].at = "saveSent" /\ unread' = [unread EXCEPT ![u] = n] /\ muddled' = muddled
    BY <1>5, <2>1 DEF SaveSent
  <2>3. \A v \in Participants : q \in Writing(v) <=> v = u
    BY <1>2, <2>1, <2>2, OtherKnown DEF Writing, SendSteps, ReadSteps
  <2>4. unread' \in [Participants -> Nat \cup {NoEntry}]  BY <1>0, <2>2
  <2>5. Counted(u)' = n
    <3>1. unread'[u] = n  BY <1>0, <2>2
    <3>2. GetUnreadCount(n) = n  BY CountKnown DEF NoEntry
    <3> QED  BY <3>1, <3>2 DEF Counted, GetUnreadCount
  <2>6. n <= Cardinality(SentTo(u))
    BY <1>0, <2>1, <2>2, <2>3 DEF CountsBounded, SendSteps
  <2>7. u \notin muddled => Cardinality(Badge(u)) <= n
    <3> SUFFICES ASSUME u \notin muddled PROVE Cardinality(Badge(u)) <= n
      OBVIOUS
    <3>1. request[q].seen = unread[u] /\ Cardinality(Badge(u)) <= Counted(u) + 1
      BY <1>0, <2>2, <2>3 DEF BadgeRight, SendSteps
    <3> QED  BY <2>1, <3>1 DEF Counted
  <2>8. \A v \in Participants :
          /\ Counted(v)' <= Cardinality(SentTo(v))
          /\ q \notin Writing(v) =>
               unread'[v] = unread[v] /\ (v \in muddled' <=> v \in muddled)
          /\ q \in Writing(v) /\ Writing(v) # {q} => v \in muddled'
          /\ q \in Writing(v) /\ Writing(v) = {q} /\ v \notin muddled' =>
               Cardinality(Badge(v)) <= Counted(v)'
    <3> SUFFICES ASSUME NEW v \in Participants
                 PROVE  /\ Counted(v)' <= Cardinality(SentTo(v))
                        /\ q \notin Writing(v) => unread'[v] = unread[v]
                        /\ q \in Writing(v) /\ Writing(v) # {q} => v \in muddled
                        /\ q \in Writing(v) /\ v \notin muddled =>
                             Cardinality(Badge(v)) <= Counted(v)'
      BY <2>2
    <3>1. CASE v = u  BY <1>4, <2>3, <2>5, <2>6, <2>7, <3>1
    <3>2. CASE v # u
      <4>1. unread'[v] = unread[v] /\ q \notin Writing(v)  BY <1>0, <2>2, <2>3, <3>2
      <4> QED  BY <1>3, <4>1
    <3> QED  BY <3>1, <3>2
  <2> QED  BY <1>1, <2>4, <2>8, EndStep
<1>6. CASE SaveRead(q)
  <2>1. PICK u \in Participants : u = request[q].user  BY <1>2
  <2>2. /\ request[q].at = "saveRead"
        /\ unread' = IF request[q].seen = 0 THEN unread ELSE [unread EXCEPT ![u] = 0]
        /\ muddled' = IF request[q].alone THEN muddled \ {u} ELSE muddled
    BY <1>6, <2>1 DEF SaveRead
  <2>3. \A v \in Participants : q \in Writing(v) <=> v = u
    BY <2>1, <2>2 DEF Writing, SendSteps, ReadSteps
  <2>4. /\ unread' \in [Participants -> Nat \cup {NoEntry}]
        /\ unread'[u] \in {unread[u], 0}
        /\ \A v \in Participants \ {u} : unread'[v] = unread[v]
    BY <1>0, <2>2
  <2>5. Counted(u)' \in Nat /\ Counted(u)' <= Cardinality(SentTo(u))
    <3>1. CASE unread'[u] = unread[u]  BY <1>3, <3>1
    <3>2. CASE unread'[u] = 0
      <4>1. GetUnreadCount(0) = 0  BY CountKnown DEF NoEntry
      <4>2. Counted(u)' = 0  BY <3>2, <4>1 DEF Counted, GetUnreadCount
      <4> QED  BY <1>3, <4>2
    <3> QED  BY <2>4, <3>1, <3>2
  <2>6. request[q].alone => Badge(u) = {} /\ Writing(u) = {q}
    BY <1>0, <2>1, <2>2, <2>3 DEF ReadingRight, WritersKnown
  <2>7. ~request[q].alone => u \in muddled
    BY <1>0, <2>3 DEF WritersKnown
  <2>8. u \notin muddled' => Cardinality(Badge(u)) <= Counted(u)'
    <3> SUFFICES ASSUME u \notin muddled' PROVE Cardinality(Badge(u)) <= Counted(u)'
      OBVIOUS
    <3>1. Badge(u) = {}  BY <2>2, <2>6, <2>7
    <3>2. Cardinality(Badge(u)) = 0  BY <3>1, FS_EmptySet
    <3> QED  BY <2>5, <3>2
  <2>9. Writing(u) # {q} => u \in muddled'
    BY <1>4, <2>2, <2>3, <2>6
  <2>10. \A v \in Participants \ {u} : v \in muddled' <=> v \in muddled
    BY <2>2
  <2>11. \A v \in Participants :
          /\ Counted(v)' <= Cardinality(SentTo(v))
          /\ q \notin Writing(v) =>
               unread'[v] = unread[v] /\ (v \in muddled' <=> v \in muddled)
          /\ q \in Writing(v) /\ Writing(v) # {q} => v \in muddled'
          /\ q \in Writing(v) /\ Writing(v) = {q} /\ v \notin muddled' =>
               Cardinality(Badge(v)) <= Counted(v)'
    <3> SUFFICES ASSUME NEW v \in Participants
                 PROVE  /\ Counted(v)' <= Cardinality(SentTo(v))
                        /\ q \notin Writing(v) =>
                             unread'[v] = unread[v] /\ (v \in muddled' <=> v \in muddled)
                        /\ q \in Writing(v) /\ Writing(v) # {q} => v \in muddled'
                        /\ q \in Writing(v) /\ v \notin muddled' =>
                             Cardinality(Badge(v)) <= Counted(v)'
      OBVIOUS
    <3>1. CASE v = u  BY <2>3, <2>5, <2>8, <2>9, <3>1
    <3>2. CASE v # u  BY <1>3, <2>3, <2>4, <2>10, <3>2
    <3> QED  BY <3>1, <3>2
  <2> QED  BY <1>1, <2>4, <2>11, EndStep
<1>7. CASE BreakOff(q)
  <2>1. /\ unread' = unread
        /\ \A v \in Participants : v \in muddled' <=> v \in muddled \/ q \in Writing(v)
    BY <1>7 DEF BreakOff
  <2>2. \A v \in Participants : Counted(v)' <= Cardinality(SentTo(v))
    BY <1>3, <2>1
  <2> QED  BY <1>0, <1>1, <2>1, <2>2, EndStep
<1> QED  BY <1>5, <1>6, <1>7

\* A new message: one more is counted, or will be.
LEMMA SaveMessageStep ==
  ASSUME MessagingInv, NEW q \in Requests, SaveMessage(q)
  PROVE  MessagingInv'
<1>0. /\ MessagingShape /\ CountsBounded /\ WritersKnown /\ BadgeRight /\ ReadingRight
      /\ request \in [Requests -> RequestRecord]
      /\ unread \in [Participants -> Nat \cup {NoEntry}]
  BY DEF MessagingInv, MessagingShape
<1>1. /\ request[q].at = "saveMessage" /\ UNCHANGED <<unread, muddled>>
      /\ request[q] \in RequestRecord
  BY <1>0 DEF SaveMessage
<1>2. PICK v \in Participants : v = request[q].user  BY <1>1 DEF RequestRecord
<1>3. PICK n : n = Len(message')  OBVIOUS
<1>4. /\ message' \in Seq(MessageRecord) /\ n \in Nat /\ n \notin MessageIds
      /\ MessageIds' = MessageIds \cup {n}
      /\ \A w \in Participants :
           IF w # v
           THEN SentTo(w)' = SentTo(w) \cup {n} /\ Badge(w)' = Badge(w) \cup {n}
           ELSE SentTo(w)' = SentTo(w) /\ Badge(w)' = Badge(w)
  <2>1. message' = Append(message, NewMessage(v, "text"))  BY <1>2 DEF SaveMessage
  <2>2. "text" \in {"text", "system"}  OBVIOUS
  <2> QED  BY <1>0, <1>3, <2>1, <2>2, AppendKnown
<1>5. PICK r, new : /\ r = request[q] /\ r \in RequestRecord
                    /\ new = [r EXCEPT !.at = "readOwn", !.todo = {n}]
  BY <1>1
<1>6. Follows(new, request[q], "readOwn", {n})
  <2>1. {n} \in SUBSET Nat  BY <1>4
  <2> QED  BY <1>5, <2>1, NewRequest DEF SendSteps
<1>7. request' = [request EXCEPT ![q] = new]
  BY <1>0, <1>3, <1>5 DEF SaveMessage
<1>8. GoesOn(q) /\ request'[q] = new
  BY <1>0, <1>1, <1>6, <1>7, GoesOnKnown DEF Follows, SendSteps
<1>9. /\ \A p \in Requests \ {q} : request'[p] = request[p]
      /\ request'[q].at = "readOwn" /\ request'[q].todo = {n}
      /\ request'[q].user = v /\ request'[q].seen = request[q].seen
      /\ (request'[q].alone <=> request[q].alone)
      /\ \A u \in Participants : Writing(u)' = Writing(u)
      /\ \A u \in Participants : u # v <=> q \in Writing(u)
  BY <1>1, <1>2, <1>6, <1>8 DEF Follows, GoesOn, Writing, SendSteps, ReadSteps
<1>10. MessagingShape'
  <2>1. \A p \in Requests : request'[p].todo \subseteq MessageIds'
    BY <1>0, <1>4, <1>9 DEF MessagingShape
  <2> QED  BY <1>0, <1>1, <1>4, <1>8, <2>1, ShapeChecked DEF GoesOn
<1>11. \A u \in Participants :
         /\ Counted(u)' = Counted(u) /\ Counted(u) \in Nat
         /\ IF u # v
            THEN /\ Cardinality(SentTo(u)') = Cardinality(SentTo(u)) + 1
                 /\ Cardinality(Badge(u)') = Cardinality(Badge(u)) + 1
            ELSE SentTo(u)' = SentTo(u) /\ Badge(u)' = Badge(u)
         /\ Cardinality(SentTo(u)) \in Nat /\ Cardinality(Badge(u)) \in Nat
  <2> SUFFICES ASSUME NEW u \in Participants
               PROVE  /\ Counted(u)' = Counted(u) /\ Counted(u) \in Nat
                      /\ IF u # v
                         THEN /\ Cardinality(SentTo(u)') = Cardinality(SentTo(u)) + 1
                              /\ Cardinality(Badge(u)') = Cardinality(Badge(u)) + 1
                         ELSE SentTo(u)' = SentTo(u) /\ Badge(u)' = Badge(u)
                      /\ Cardinality(SentTo(u)) \in Nat /\ Cardinality(Badge(u)) \in Nat
    OBVIOUS
  <2>1. Counted(u)' = Counted(u) /\ Counted(u) \in Nat
    BY <1>0, <1>1, CountsKnown DEF Counted, GetUnreadCount
  <2>2. /\ SentTo(u) \subseteq MessageIds /\ Badge(u) \subseteq MessageIds
        /\ IsFiniteSet(SentTo(u)) /\ IsFiniteSet(Badge(u))
        /\ Cardinality(SentTo(u)) \in Nat /\ Cardinality(Badge(u)) \in Nat
    BY <1>0, SetsCounted
  <2>3. n \notin SentTo(u) /\ n \notin Badge(u)  BY <1>4, <2>2
  <2>4. CASE u # v
    <3>1. SentTo(u)' = SentTo(u) \cup {n} /\ Badge(u)' = Badge(u) \cup {n}
      BY <1>4, <2>4
    <3>2. /\ Cardinality(SentTo(u) \cup {n}) = Cardinality(SentTo(u)) + 1
          /\ Cardinality(Badge(u) \cup {n}) = Cardinality(Badge(u)) + 1
      BY <2>2, <2>3, FS_AddElement
    <3> QED  BY <2>1, <2>2, <2>4, <3>1, <3>2
  <2>5. CASE u = v  BY <1>4, <2>1, <2>2, <2>5
  <2> QED  BY <2>4, <2>5
<1>12. CountsBounded'
  <2> SUFFICES ASSUME NEW u \in Participants
               PROVE  /\ Counted(u)' <= Cardinality(SentTo(u)')
                      /\ \A p \in Writing(u)' : request'[p].at \in SendSteps =>
                           GetUnreadCount(request'[p].seen)
                             + (IF request'[p].at = "saveMessage" THEN 0 ELSE 1)
                           <= Cardinality(SentTo(u)')
    BY DEF CountsBounded, Counted, GetUnreadCount
  <2>1. /\ Counted(u) <= Cardinality(SentTo(u)) /\ Counted(u) \in Nat
        /\ Cardinality(SentTo(u)) \in Nat /\ Cardinality(SentTo(u)') \in Nat
        /\ Cardinality(SentTo(u)') >= Cardinality(SentTo(u))
    BY <1>0, <1>11 DEF CountsBounded
  <2>2. ASSUME NEW p \in Writing(u)', request'[p].at \in SendSteps
        PROVE  GetUnreadCount(request'[p].seen)
                 + (IF request'[p].at = "saveMessage" THEN 0 ELSE 1)
               <= Cardinality(SentTo(u)')
    <3>1. p \in Writing(u) /\ p \in Requests  BY <1>9, <2>2 DEF Writing
    <3>2. GetUnreadCount(request[p].seen) \in Nat  BY <1>0, <3>1, CountsKnown
    <3>3. CASE p = q
      <4>1. /\ u # v /\ GetUnreadCount(request[q].seen) + 0 <= Cardinality(SentTo(u))
        BY <1>0, <1>1, <1>9, <3>1, <3>3 DEF CountsBounded, SendSteps
      <4>2. Cardinality(SentTo(u)') = Cardinality(SentTo(u)) + 1  BY <1>11, <4>1
      <4> QED  BY <1>9, <2>1, <3>2, <3>3, <4>1, <4>2
    <3>4. CASE p # q
      <4>1. request'[p] = request[p]  BY <1>9, <3>1, <3>4
      <4>2. GetUnreadCount(request[p].seen)
              + (IF request[p].at = "saveMessage" THEN 0 ELSE 1)
            <= Cardinality(SentTo(u))
        BY <1>0, <2>2, <3>1, <4>1 DEF CountsBounded
      <4> QED  BY <2>1, <3>2, <4>1, <4>2
    <3> QED  BY <3>3, <3>4
  <2> QED  BY <1>11, <2>1, <2>2
<1>13. WritersKnown'
  BY <1>0, <1>1, <1>9 DEF WritersKnown, Writing
<1>14. BadgeRight'
  <2> SUFFICES ASSUME NEW u \in Participants, u \notin muddled'
               PROVE  /\ Writing(u)' = {} => Cardinality(Badge(u)') <= Counted(u)'
                      /\ \A p \in Writing(u)' : request'[p].at \in SendSteps =>
                           /\ request'[p].seen = unread'[u]
                           /\ Cardinality(Badge(u)')
                                <= Counted(u)'
                                   + (IF request'[p].at = "saveMessage" THEN 0 ELSE 1)
    BY DEF BadgeRight
  <2>1. u \notin muddled  BY <1>1
  <2>2. CASE u = v
    <3>1. q \notin Writing(u) /\ Badge(u)' = Badge(u)  BY <1>9, <1>11, <2>2
    <3>2. \A p \in Writing(u) : p \in Requests /\ p # q  BY <3>1 DEF Writing
    <3> QED  BY <1>0, <1>1, <1>9, <1>11, <2>1, <3>1, <3>2 DEF BadgeRight
  <2>3. CASE u # v
    <3>1. q \in Writing(u)  BY <1>9, <2>3
    <3>2. Writing(u) = {q}  BY <1>0, <2>1, <3>1 DEF WritersKnown
    <3>3. request[q].seen = unread[u] /\ Cardinality(Badge(u)) <= Counted(u) + 0
      BY <1>0, <1>1, <2>1, <3>1 DEF BadgeRight, SendSteps
    <3>4. Cardinality(Badge(u)') <= Counted(u)' + 1  BY <1>11, <2>3, <3>3
    <3> QED  BY <1>1, <1>9, <3>2, <3>3, <3>4
  <2> QED  BY <2>2, <2>3
<1>15. ReadingRight'
  <2> SUFFICES ASSUME NEW p \in Requests, NEW u \in Participants,
                      request'[p].alone, request'[p].user = u,
                      request'[p].at \in {"markRead", "saveRead"}
               PROVE  /\ request'[p].at = "markRead" => Badge(u)' \subseteq request'[p].todo
                      /\ request'[p].at = "saveRead" => Badge(u)' = {}
    BY DEF ReadingRight
  <2>1. p # q  BY <1>9
  <2>2. request'[p] = request[p]  BY <1>9, <2>1
  <2>3. p \in Writing(u)  BY <2>2 DEF Writing, ReadSteps
  <2>4. Writing(u) = {p}  BY <1>0, <2>2, <2>3 DEF WritersKnown
  <2>5. u = v  BY <1>9, <2>1, <2>4
  <2>6. Badge(u)' = Badge(u)  BY <1>11, <2>5
  <2> QED  BY <1>0, <2>2, <2>6 DEF ReadingRight
<1> QED  BY <1>10, <1>12, <1>13, <1>14, <1>15 DEF MessagingInv

LEMMA BeginStep ==
  ASSUME MessagingInv, NEW q \in Requests, NEW u \in Participants,
         NEW c \in Participants, NEW step, BeginsFor(q, u, c, step)
  PROVE  MessagingInv'
<1>0. /\ MessagingShape /\ CountsBounded /\ WritersKnown /\ BadgeRight /\ ReadingRight
      /\ request \in [Requests -> RequestRecord]
      /\ unread \in [Participants -> Nat \cup {NoEntry}]
  BY DEF MessagingInv, MessagingShape
<1>1. /\ request' \in [Requests -> RequestRecord]
      /\ request'[q].at = step /\ request'[q].seen = unread[c] /\ request'[q].todo = {}
      /\ (request'[q].alone <=> Writing(c) = {})
      /\ \A p \in Requests \ {q} :
           /\ request'[p].at = request[p].at /\ request'[p].user = request[p].user
           /\ request'[p].seen = request[p].seen
           /\ request'[p].todo = request[p].todo
           /\ (request'[p].alone <=> request[p].alone /\ p \notin Writing(c))
      /\ q \notin Writing(c) /\ Writing(c)' = Writing(c) \cup {q}
      /\ \A v \in Participants \ {c} : Writing(v)' = Writing(v)
  BY <1>0, BeginKnown
<1>2. /\ UNCHANGED <<message, unread>>
      /\ muddled' = IF Writing(c) = {} THEN muddled ELSE muddled \cup {c}
      /\ step \in {"saveMessage", "findUnread"}
      /\ request[q].at = "idle"
  BY DEF BeginsFor, Begin
<1>3. /\ MessageIds' = MessageIds
      /\ \A v \in Participants :
           SentTo(v)' = SentTo(v) /\ Badge(v)' = Badge(v) /\ Counted(v)' = Counted(v)
  BY <1>2 DEF SentTo, Badge, Texts, Unread, MessageIds, Counted, GetUnreadCount
<1>4. MessagingShape'
  <2>1. \A p \in Requests : request'[p].todo \subseteq MessageIds'
    BY <1>0, <1>1, <1>3 DEF MessagingShape
  <2> QED  BY <1>0, <1>1, <1>2, <2>1 DEF MessagingShape
<1>5. \A v \in Participants :
        /\ q \notin Writing(v)
        /\ \A p \in Writing(v) : p \in Requests /\ p # q
  BY <1>2 DEF Writing, SendSteps, ReadSteps
<1>6. \A v \in Participants :
        Counted(v) \in Nat /\ Counted(v) <= Cardinality(SentTo(v))
        /\ Cardinality(SentTo(v)) \in Nat /\ Cardinality(Badge(v)) \in Nat
  BY <1>0, CountsKnown DEF CountsBounded
<1>7. CountsBounded'
  <2> SUFFICES ASSUME NEW v \in Participants, NEW p \in Writing(v)',
                      request'[p].at \in SendSteps
               PROVE  GetUnreadCount(request'[p].seen)
                        + (IF request'[p].at = "saveMessage" THEN 0 ELSE 1)
                      <= Cardinality(SentTo(v)')
    BY <1>3, <1>6 DEF CountsBounded, GetUnreadCount
  <2>1. CASE p \in Writing(v)
    <3>1. /\ request'[p].at = request[p].at /\ request'[p].seen = request[p].seen
      BY <1>1, <1>5, <2>1
    <3> QED  BY <1>0, <1>3, <2>1, <3>1 DEF CountsBounded
  <2>2. CASE p \notin Writing(v)
    <3>1. v = c /\ p = q /\ step = "saveMessage"
      BY <1>1, <1>2, <2>2 DEF SendSteps
    <3>2. GetUnreadCount(request'[p].seen) = Counted(c)  BY <1>1, <3>1 DEF Counted
    <3> QED  BY <1>1, <1>3, <1>6, <3>1, <3>2
  <2> QED  BY <2>1, <2>2
<1>8. WritersKnown'
  <2> SUFFICES ASSUME NEW v \in Participants, NEW p \in Writing(v)'
               PROVE  /\ request'[p].alone => Writing(v)' = {p}
                      /\ ~request'[p].alone => v \in muddled'
    BY DEF WritersKnown
  <2>1. CASE p \in Writing(v) /\ v = c
    BY <1>1, <1>2, <1>5, <2>1
  <2>2. CASE p \in Writing(v) /\ v # c
    <3>1. p \notin Writing(c)  BY <1>0, <2>2, OneCounter
    <3> QED  BY <1>0, <1>1, <1>2, <1>5, <2>2, <3>1 DEF WritersKnown
  <2>3. CASE p \notin Writing(v)
    <3>1. v = c /\ p = q  BY <1>1, <2>3
    <3> QED  BY <1>1, <1>2, <3>1
  <2> QED  BY <2>1, <2>2, <2>3
<1>9. BadgeRight'
  <2> SUFFICES ASSUME NEW v \in Participants, v \notin muddled'
               PROVE  /\ Writing(v)' = {} => Cardinality(Badge(v)') <= Counted(v)'
                      /\ \A p \in Writing(v)' : request'[p].at \in SendSteps =>
                           /\ request'[p].seen = unread'[v]
                           /\ Cardinality(Badge(v)')
                                <= Counted(v)'
                                   + (IF request'[p].at = "saveMessage" THEN 0 ELSE 1)
    BY DEF BadgeRight
  <2>1. v \notin muddled  BY <1>2
  <2>2. CASE v = c
    <3>1. Writing(c) = {}  BY <1>2, <2>2
    <3>2. Cardinality(Badge(c)) <= Counted(c)  BY <1>0, <2>1, <2>2, <3>1 DEF BadgeRight
    <3>3. Writing(v)' = {q}  BY <1>1, <2>2, <3>1
    <3>4. /\ request'[q].seen = unread'[v]
          /\ request'[q].at \in SendSteps => request'[q].at = "saveMessage"
      BY <1>1, <1>2, <2>2 DEF SendSteps
    <3>5. Cardinality(Badge(v)') <= Counted(v)' + 0  BY <1>3, <1>6, <2>2, <3>2
    <3> QED  BY <3>3, <3>4, <3>5
  <2>3. CASE v # c
    <3>1. Writing(v)' = Writing(v)  BY <1>1, <2>3
    <3>2. \A p \in Writing(v) :
            request'[p].at = request[p].at /\ request'[p].seen = request[p].seen
      BY <1>1, <1>5
    <3> QED  BY <1>0, <1>2, <1>3, <2>1, <3>1, <3>2 DEF BadgeRight
  <2> QED  BY <2>2, <2>3
<1>10. ReadingRight'
  <2> SUFFICES ASSUME NEW p \in Requests, NEW v \in Participants,
                      request'[p].alone, request'[p].user = v
               PROVE  /\ request'[p].at = "markRead" => Badge(v)' \subseteq request'[p].todo
                      /\ request'[p].at = "saveRead" => Badge(v)' = {}
    BY DEF ReadingRight
  <2>1. CASE p = q  BY <1>1, <1>2, <2>1
  <2>2. CASE p # q
    <3>1. /\ request[p].alone /\ request[p].user = v
          /\ request'[p].at = request[p].at /\ request'[p].todo = request[p].todo
      BY <1>1, <2>2
    <3>2. Badge(v)' = Badge(v)  BY <1>3
    <3> QED  BY <1>0, <3>1, <3>2 DEF ReadingRight
  <2> QED  BY <2>1, <2>2
<1> QED  BY <1>4, <1>7, <1>8, <1>9, <1>10 DEF MessagingInv

LEMMA MessagingInvInit == MessagingInit => MessagingInv
<1> SUFFICES ASSUME MessagingInit PROVE MessagingInv
  OBVIOUS
<1>1. NoRequest \in RequestRecord /\ NoRequest.at = "idle" /\ NoRequest.todo = {}
  BY MessagingAssumption DEF NoRequest, RequestRecord
<1>2. message \in Seq(MessageRecord) /\ MessageIds = {}
  BY EmptySeq DEF MessagingInit, MessageIds
<1>3. \A u \in Participants : Writing(u) = {}
  BY <1>1 DEF MessagingInit, Writing, SendSteps, ReadSteps
<1>4. \A u \in Participants :
        /\ Counted(u) = 0 /\ Cardinality(SentTo(u)) = 0 /\ Cardinality(Badge(u)) = 0
  <2> SUFFICES ASSUME NEW u \in Participants
               PROVE  /\ Counted(u) = 0
                      /\ Cardinality(SentTo(u)) = 0 /\ Cardinality(Badge(u)) = 0
    OBVIOUS
  <2>1. Counted(u) = 0  BY CountKnown DEF MessagingInit, Counted
  <2>2. SentTo(u) = {} /\ Badge(u) = {}  BY <1>2 DEF SentTo, Badge, Texts, Unread
  <2> QED  BY <2>1, <2>2, FS_EmptySet
<1>5. MessagingShape
  BY <1>1, <1>2 DEF MessagingInit, MessagingShape, NoEntry
<1>6. CountsBounded /\ WritersKnown /\ BadgeRight
  BY <1>3, <1>4 DEF CountsBounded, WritersKnown, BadgeRight
<1>7. ReadingRight  BY <1>1 DEF MessagingInit, ReadingRight
<1> QED  BY <1>5, <1>6, <1>7 DEF MessagingInv

LEMMA MessagingInvStep == MessagingInv /\ [MessagingNext]_messagingVars => MessagingInv'
<1> SUFFICES ASSUME MessagingInv, [MessagingNext]_messagingVars PROVE MessagingInv'
  OBVIOUS
<1>1. CASE UNCHANGED messagingVars
  <2>1. UNCHANGED <<message, unread, request, muddled>>  BY <1>1 DEF messagingVars
  <2>2. /\ MessageIds' = MessageIds
        /\ \A u : /\ SentTo(u)' = SentTo(u) /\ Badge(u)' = Badge(u)
                 /\ Counted(u)' = Counted(u) /\ Writing(u)' = Writing(u)
    BY <2>1 DEF SentTo, Badge, Texts, Unread, MessageIds, Counted, GetUnreadCount,
       Writing
  <2>3. MessagingShape'  BY <2>1, <2>2 DEF MessagingInv, MessagingShape
  <2>4. CountsBounded'
    BY <2>1, <2>2 DEF MessagingInv, CountsBounded, GetUnreadCount
  <2>5. WritersKnown'  BY <2>1, <2>2 DEF MessagingInv, WritersKnown
  <2>6. BadgeRight'  BY <2>1, <2>2 DEF MessagingInv, BadgeRight
  <2>7. ReadingRight'  BY <2>1, <2>2 DEF MessagingInv, ReadingRight
  <2> QED  BY <2>3, <2>4, <2>5, <2>6, <2>7 DEF MessagingInv
<1>2. CASE \E q \in Requests : MessagingStep(q)
  BY <1>2, SaveMessageStep, RequestGoesOn, RequestEnds DEF MessagingStep
<1>3. CASE \E q \in Requests, u \in Participants : SendMessage(q, u) \/ MarkAsRead(q, u)
  <2>1. PICK q \in Requests, u \in Participants : SendMessage(q, u) \/ MarkAsRead(q, u)
    BY <1>3
  <2>2. CASE SendMessage(q, u)
    <3>1. PICK c \in Participants : c = Other(u)  BY OtherKnown
    <3>2. BeginsFor(q, u, c, "saveMessage")  BY <2>2, <3>1 DEF SendMessage, BeginsFor
    <3> QED  BY <3>2, BeginStep
  <2>3. CASE MarkAsRead(q, u)
    <3>1. BeginsFor(q, u, u, "findUnread")  BY <2>3 DEF MarkAsRead, BeginsFor
    <3> QED  BY <3>1, BeginStep
  <2> QED  BY <2>1, <2>2, <2>3
<1>4. CASE \E u \in Participants :
             AcceptProposal(u) \/ \E m \in MessageIds : DeleteMessage(u, m)
  BY <1>4, MessageStep
<1> QED  BY <1>1, <1>2, <1>3, <1>4 DEF MessagingNext

\* The badge never counts more messages than the user was sent, and hides none
\* he has not read once the requests for it have run one after the other:
\* sendMessage, markMessagesAsRead and the counters of Conversation.
THEOREM BadgeIsRight == MessagingSpec => []BadgeAgrees
<1>1. MessagingInv => BadgeAgrees
  BY DEF MessagingInv, CountsBounded, BadgeRight, BadgeAgrees, SentTo, Badge
<1> QED
  BY <1>1, MessagingInvInit, MessagingInvStep, PTL DEF MessagingSpec

-----------------------------------------------------------------------------
(***************************************************************************)
(* Reviews.  Nothing is said of how the aggregate is computed: whatever it *)
(* is, the rating a user carries is that of the reviews he has received.   *)
(*                                                                         *)
(* Results are the aggregates there are.  ReviewsInv: a request that is    *)
(* alone is the only one for its user; one that is not has made the user   *)
(* outdated; the result a request alone holds is still right; and so is    *)
(* the rating, unless the user is outdated or a request is about to        *)
(* compute it.                                                             *)
(***************************************************************************)
Stars == UNION {[d -> 0..5] : d \in SUBSET (Contracts \X Roles)}
Results == {Aggregate(s) : s \in Stars}

SubmissionRecord ==
  [op : Operations, at : Steps, contract : Contracts \cup {NoSubmission.contract},
   role : Roles, user : Rated \cup {NoSubmission.user}, stars : 0..5,
   result : Results, alone : BOOLEAN]

ReviewsShape ==
  /\ review \in [Contracts -> [Roles -> 0..5]]
  /\ rating \in [Rated -> Results]
  /\ submission \in [Submissions -> SubmissionRecord]
  /\ \A q \in Submissions : submission[q].at # "idle" =>
       submission[q].user \in Rated /\ submission[q].contract \in Contracts

Agrees(u) == rating[u] = Aggregate(Received(u))

Active(q) == submission[q].at # "idle"
UserOf(q) == submission[q].user

AlonesKnown ==
  \A q \in Submissions : Active(q) =>
    IF submission[q].alone
    THEN \A p \in Submissions : Active(p) /\ UserOf(p) = UserOf(q) => p = q
    ELSE UserOf(q) \in outdated

ResultsRight ==
  \A q \in Submissions :
    /\ submission[q].at = "saveReview" =>
         UserOf(q) = Parties[submission[q].contract][OtherRole(submission[q].role)]
    /\ submission[q].at = "saveRating" /\ submission[q].alone =>
         submission[q].result = Aggregate(Received(UserOf(q)))

RatingsRight ==
  \A u \in Rated :
    /\ u \notin outdated
    /\ \A q \in Submissions : Active(q) /\ UserOf(q) = u =>
         submission[q].at = "saveApproved"
    => Agrees(u)

ReviewsInv == ReviewsShape /\ AlonesKnown /\ ResultsRight /\ RatingsRight

LEMMA NoStars ==
  /\ Aggregate(<< >>) = NoRating
  /\ NoRating \in Results
<1>1. Aggregate(<< >>) = NoRating
  <2>1. Cardinality(DOMAIN << >>) = 0  BY FS_EmptySet
  <2> QED  BY <2>1 DEF Aggregate, NoRating
<1>2. << >> \in Stars
  <2>1. << >> \in [{} -> 0..5]  OBVIOUS
  <2>2. {} \in SUBSET (Contracts \X Roles)  OBVIOUS
  <2> QED  BY <2>1, <2>2 DEF Stars
<1> QED  BY <1>1, <1>2 DEF Results

LEMMA NoSubmissionIsIdle ==
  NoSubmission.at = "idle" /\ NoSubmission \in SubmissionRecord
BY NoStars DEF NoSubmission, SubmissionRecord, Operations, Steps, Roles

LEMMA ReceivedIsStars ==
  ASSUME review \in [Contracts -> [Roles -> 0..5]], NEW u
  PROVE  Aggregate(Received(u)) \in Results
<1> DEFINE found == {d \in Contracts \X Roles :
                       /\ status[d[1]] = "completed" /\ review[d[1]][d[2]] # 0
                       /\ Parties[d[1]][OtherRole(d[2])] = u}
<1>1. Received(u) = [d \in found |-> review[d[1]][d[2]]]
  BY DEF Received, ReceivedIn
<1>2. found \in SUBSET (Contracts \X Roles)  OBVIOUS
<1>3. \A d \in found : review[d[1]][d[2]] \in 0..5  OBVIOUS
<1> HIDE DEF found
<1>4. Received(u) \in [found -> 0..5]  BY <1>1, <1>3
<1> QED  BY <1>2, <1>4 DEF Results, Stars

LEMMA ReviewsInvInit == ReviewsInit => ReviewsInv
<1> SUFFICES ASSUME ReviewsInit PROVE ReviewsInv
  OBVIOUS
<1>1. ASSUME NEW u PROVE Received(u) = << >>
  BY DEF Received, ReceivedIn, ReviewsInit
<1>2. ReviewsShape
  BY NoStars DEF ReviewsInit, ReviewsShape, SubmissionRecord, NoSubmission,
     Operations, Steps, Roles
<1>3. AlonesKnown /\ ResultsRight
  BY DEF ReviewsInit, AlonesKnown, ResultsRight, Active, NoSubmission
<1>4. RatingsRight
  BY <1>1, NoStars DEF ReviewsInit, RatingsRight, Agrees
<1> QED  BY <1>2, <1>3, <1>4 DEF ReviewsInv
-----------------------------------------------------------------------------
\* A review matters to the user it is about, and to no other.
LEMMA OtherReceived ==
  ASSUME NEW u, NEW c, NEW r \in Roles, NEW stars,
         review \in [Contracts -> [Roles -> 0..5]],
         Parties[c][OtherRole(r)] # u, UNCHANGED status,
         review' = [review EXCEPT ![c][r] = stars]
  PROVE  Received(u)' = Received(u)
<1> DEFINE Found(reviews) == {d \in Contracts \X Roles :
                       /\ status[d[1]] = "completed" /\ reviews[d[1]][d[2]] # 0
                       /\ Parties[d[1]][OtherRole(d[2])] = u}
<1>1. \A d \in Contracts \X Roles : Parties[d[1]][OtherRole(d[2])] = u =>
        review'[d[1]][d[2]] = review[d[1]][d[2]]
  OBVIOUS
<1>2. Found(review') = Found(review)  BY <1>1
<1>3. \A d \in Found(review) : review'[d[1]][d[2]] = review[d[1]][d[2]]
  BY <1>1
<1>4. /\ Received(u) = [d \in Found(review) |-> review[d[1]][d[2]]]
      /\ Received(u)' = [d \in Found(review') |-> review'[d[1]][d[2]]]
  BY DEF Received, ReceivedIn
<1> HIDE DEF Found
<1> QED  BY <1>2, <1>3, <1>4

LEMMA SameReceived ==
  ASSUME UNCHANGED <<status, review>>, NEW u
  PROVE  Received(u)' = Received(u)
BY DEF Received

LEMMA UnchangedReceived ==
  ASSUME NEW u \in Rated \ Changed
  PROVE  Received(u)' = Received(u)
BY DEF Changed, Received

\* Reviews of the users in U change behind the requests for them.
LEMMA Overtaken ==
  ASSUME ReviewsInv, NEW U \in SUBSET Rated, UNCHANGED rating,
         \A u \in Rated \ U : Received(u)' = Received(u),
         outdated' = outdated \cup U,
         review' \in [Contracts -> [Roles -> 0..5]],
         NEW D \in SUBSET Submissions,
         \A q \in D : submission[q].at \in {"idle", "saveApproved"},
         submission' = [q \in Submissions |->
                          IF q \in D THEN NoSubmission ELSE Crowded(q, U)]
  PROVE  ReviewsInv'
<1>1. /\ submission \in [Submissions -> SubmissionRecord]
      /\ AlonesKnown /\ ResultsRight /\ RatingsRight
      /\ \A q \in Submissions : Active(q) =>
           UserOf(q) \in Rated /\ submission[q].contract \in Contracts
  BY DEF ReviewsInv, ReviewsShape, Active, UserOf
<1>2. \A q \in Submissions \ D :
        /\ submission'[q].at = submission[q].at
        /\ submission'[q].user = submission[q].user
        /\ submission'[q].contract = submission[q].contract
        /\ submission'[q].role = submission[q].role
        /\ submission'[q].result = submission[q].result
        /\ submission'[q].alone =>
             submission[q].alone /\ ~(Active(q) /\ UserOf(q) \in U)
        /\ ~submission'[q].alone =>
             ~submission[q].alone \/ (Active(q) /\ UserOf(q) \in U)
        /\ submission'[q] \in SubmissionRecord
  <2> SUFFICES ASSUME NEW q \in Submissions \ D
      PROVE  /\ submission'[q].at = submission[q].at
             /\ submission'[q].user = submission[q].user
             /\ submission'[q].contract = submission[q].contract
             /\ submission'[q].role = submission[q].role
             /\ submission'[q].result = submission[q].result
             /\ submission'[q].alone =>
                  submission[q].alone /\ ~(Active(q) /\ UserOf(q) \in U)
             /\ ~submission'[q].alone =>
                  ~submission[q].alone \/ (Active(q) /\ UserOf(q) \in U)
             /\ submission'[q] \in SubmissionRecord
    OBVIOUS
  <2>1. submission'[q] = Crowded(q, U)  BY Zenon
  <2>2. submission[q] \in SubmissionRecord  BY <1>1
  <2> QED  BY <2>1, <2>2 DEF Crowded, Active, UserOf, SubmissionRecord
<1>3. ASSUME NEW q \in D PROVE submission'[q] = NoSubmission
  <2>1. q \in Submissions  OBVIOUS
  <2> QED  BY <2>1, Zenon
<1>4. NoSubmission.at = "idle" /\ NoSubmission \in SubmissionRecord
  BY NoSubmissionIsIdle
<1>5. ReviewsShape'
  BY <1>1, <1>2, <1>3, <1>4 DEF ReviewsInv, ReviewsShape, Active, UserOf
<1>6. AlonesKnown'
  <2> SUFFICES ASSUME NEW q \in Submissions, Active(q)'
               PROVE  IF submission'[q].alone
                      THEN \A p \in Submissions :
                             Active(p)' /\ UserOf(p)' = UserOf(q)' => p = q
                      ELSE UserOf(q)' \in outdated'
    BY DEF AlonesKnown
  <2>1. q \notin D /\ Active(q) /\ UserOf(q)' = UserOf(q)
    BY <1>2, <1>3, <1>4 DEF Active, UserOf
  <2>2. \A p \in Submissions : Active(p)' => Active(p) /\ UserOf(p)' = UserOf(p)
    BY <1>2, <1>3, <1>4 DEF Active, UserOf
  <2> QED  BY <1>1, <1>2, <2>1, <2>2 DEF AlonesKnown
<1>7. ResultsRight'
  <2> SUFFICES ASSUME NEW q \in Submissions, Active(q)'
      PROVE  /\ submission'[q].at = "saveReview" => UserOf(q)' =
                  Parties[submission'[q].contract][OtherRole(submission'[q].role)]
             /\ submission'[q].at = "saveRating" /\ submission'[q].alone =>
                  submission'[q].result = Aggregate(Received(UserOf(q)))'
    BY DEF ResultsRight, Active
  <2>1. q \notin D /\ Active(q) /\ UserOf(q)' = UserOf(q)
    BY <1>2, <1>3, <1>4 DEF Active, UserOf
  <2>2. submission'[q].alone => Received(UserOf(q))' = Received(UserOf(q))
    BY <1>1, <1>2, <2>1
  <2> QED  BY <1>1, <1>2, <2>1, <2>2 DEF ResultsRight, UserOf
<1>8. RatingsRight'
  <2> SUFFICES ASSUME NEW u \in Rated, u \notin outdated',
                      \A q \in Submissions : Active(q)' /\ UserOf(q)' = u =>
                        submission'[q].at = "saveApproved"
               PROVE  Agrees(u)'
    BY DEF RatingsRight
  <2>1. u \notin U /\ u \notin outdated  OBVIOUS
  <2>2. \A q \in Submissions : Active(q) /\ UserOf(q) = u =>
          submission[q].at = "saveApproved"
    BY <1>2 DEF Active, UserOf
  <2>3. Agrees(u)  BY <1>1, <2>1, <2>2 DEF RatingsRight
  <2> QED  BY <2>1, <2>3 DEF Agrees
<1> QED  BY <1>5, <1>6, <1>7, <1>8 DEF ReviewsInv

LEMMA ReviewsInvParts ==
  ReviewsInv =>
    /\ review \in [Contracts -> [Roles -> 0..5]]
    /\ rating \in [Rated -> Results]
    /\ submission \in [Submissions -> SubmissionRecord]
    /\ \A q \in Submissions : Active(q) =>
         UserOf(q) \in Rated /\ submission[q].contract \in Contracts
    /\ AlonesKnown /\ ResultsRight /\ RatingsRight
BY DEF ReviewsInv, ReviewsShape, Active, UserOf

LEMMA ChangeStatusKeepsRatings ==
  ASSUME ReviewsInv, NEW c \in Contracts, NEW to, ChangeStatus(c, to)
  PROVE  ReviewsInv'
<1>1. PICK U, D : U = Changed /\ D = {}  OBVIOUS
<1>2. U \in SUBSET Rated /\ D \in SUBSET Submissions  BY <1>1 DEF Changed
<1>3. submission' = [q \in Submissions |->
                       IF q \in D THEN NoSubmission ELSE Crowded(q, U)]
  BY <1>1 DEF ChangeStatus
<1>4. \A u \in Rated \ U : Received(u)' = Received(u)
  BY <1>1, UnchangedReceived
<1>5. /\ UNCHANGED rating
      /\ outdated' = outdated \cup U
      /\ review' \in [Contracts -> [Roles -> 0..5]]
  BY <1>1, ReviewsInvParts DEF ChangeStatus
<1>6. \A q \in D : submission[q].at \in {"idle", "saveApproved"}  BY <1>1
<1> QED  BY <1>2, <1>3, <1>4, <1>5, <1>6, Overtaken

LEMMA SaveApprovedKeepsRatings ==
  ASSUME ReviewsInv, NEW q \in Submissions, SaveApproved(q)
  PROVE  ReviewsInv'
<1>1. Changed \in SUBSET Rated  BY DEF Changed
<1>2. submission' = [p \in Submissions |->
                       IF p \in {q} THEN NoSubmission ELSE Crowded(p, Changed)]
  BY DEF SaveApproved
<1>3. \A u \in Rated \ Changed : Received(u)' = Received(u)
  BY UnchangedReceived
<1>4. /\ UNCHANGED rating
      /\ outdated' = outdated \cup Changed
      /\ submission[q].at = "saveApproved"
  BY DEF SaveApproved
<1>5. review' \in [Contracts -> [Roles -> 0..5]]
  <2>1. submission[q] \in SubmissionRecord /\ submission[q].contract \in Contracts
    BY <1>4, ReviewsInvParts DEF Active
  <2> QED
    BY <2>1, ReviewsInvParts DEF SaveApproved, SubmissionRecord, Roles
<1>6. PICK U, D : U = Changed /\ D = {q}  OBVIOUS
<1> QED  BY <1>1, <1>2, <1>3, <1>4, <1>5, <1>6, Overtaken

\* A request begins.
LEMMA BeginKeepsRatings ==
  ASSUME ReviewsInv, NEW q \in Submissions, NEW r \in SubmissionRecord,
         r.at \in {"saveReview", "readReviews"}, r.user \in Rated,
         r.contract \in Contracts,
         r.at = "saveReview" => r.user = Parties[r.contract][OtherRole(r.role)],
         BeginReview(q, r)
  PROVE  ReviewsInv'
<1>1. /\ submission \in [Submissions -> SubmissionRecord]
      /\ \A p \in Submissions : Active(p) =>
           UserOf(p) \in Rated /\ submission[p].contract \in Contracts
      /\ AlonesKnown /\ ResultsRight /\ RatingsRight
  BY ReviewsInvParts
<1>2. UNCHANGED <<status, review, rating>> /\ ~Active(q)
  BY DEF BeginReview, Active
<1>3. \A p \in Submissions \ {q} :
        /\ submission'[p].at = submission[p].at
        /\ submission'[p].user = submission[p].user
        /\ submission'[p].contract = submission[p].contract
        /\ submission'[p].role = submission[p].role
        /\ submission'[p].result = submission[p].result
        /\ submission'[p].alone =>
             submission[p].alone /\ ~(Active(p) /\ UserOf(p) = r.user)
        /\ ~submission'[p].alone =>
             ~submission[p].alone \/ (Active(p) /\ UserOf(p) = r.user)
        /\ submission'[p] \in SubmissionRecord
  <2> SUFFICES ASSUME NEW p \in Submissions \ {q}
      PROVE  /\ submission'[p].at = submission[p].at
             /\ submission'[p].user = submission[p].user
             /\ submission'[p].contract = submission[p].contract
             /\ submission'[p].role = submission[p].role
             /\ submission'[p].result = submission[p].result
             /\ submission'[p].alone =>
                  submission[p].alone /\ ~(Active(p) /\ UserOf(p) = r.user)
             /\ ~submission'[p].alone =>
                  ~submission[p].alone \/ (Active(p) /\ UserOf(p) = r.user)
             /\ submission'[p] \in SubmissionRecord
    OBVIOUS
  <2>1. submission'[p] = Crowded(p, {r.user})  BY Zenon DEF BeginReview
  <2>2. submission[p] \in SubmissionRecord  BY <1>1
  <2> QED  BY <2>1, <2>2, ZenonT(40) DEF Crowded, Active, UserOf, SubmissionRecord
<1>4. /\ submission'[q] \in SubmissionRecord
      /\ submission'[q].at = r.at /\ submission'[q].user = r.user
      /\ submission'[q].contract = r.contract /\ submission'[q].role = r.role
      /\ submission'[q].alone => Rating(r.user) = {}
      /\ ~submission'[q].alone => r.user \in outdated'
  <2>1. submission'[q] = [r EXCEPT !.alone = (Rating(r.user) = {})]
    BY Zenon DEF BeginReview
  <2>2. Rating(r.user) # {} => r.user \in outdated'
    BY DEF BeginReview
  <2> QED  BY <2>1, <2>2 DEF SubmissionRecord
<1>5. /\ outdated \subseteq outdated'
      /\ \A p \in Submissions : Active(p) /\ UserOf(p) = r.user =>
           r.user \in outdated' /\ Rating(r.user) # {}
  BY DEF BeginReview, Rating, Active, UserOf
<1>6. submission' \in [Submissions -> SubmissionRecord]
  <2>1. submission' = [p \in Submissions |-> submission'[p]]
    BY DEF BeginReview
  <2> QED  BY <1>3, <1>4, <2>1
<1>7. ReviewsShape'
  BY <1>1, <1>2, <1>3, <1>4, <1>6, ReviewsInvParts
     DEF ReviewsShape, Active, UserOf
<1>8. AlonesKnown'
  <2> SUFFICES ASSUME NEW p \in Submissions, Active(p)'
               PROVE  IF submission'[p].alone
                      THEN \A s \in Submissions :
                             Active(s)' /\ UserOf(s)' = UserOf(p)' => s = p
                      ELSE UserOf(p)' \in outdated'
    BY DEF AlonesKnown
  <2>1. CASE p = q
    BY <1>3, <1>4, <1>5, <2>1 DEF Active, UserOf
  <2>2. CASE p # q
    BY <1>1, <1>3, <1>4, <1>5, <2>2 DEF AlonesKnown, Active, UserOf
  <2> QED  BY <2>1, <2>2
<1>9. ResultsRight'
  <2>1. \A u : Received(u)' = Received(u)  BY <1>2, SameReceived
  <2> SUFFICES ASSUME NEW p \in Submissions
      PROVE  /\ submission'[p].at = "saveReview" => UserOf(p)' =
                  Parties[submission'[p].contract][OtherRole(submission'[p].role)]
             /\ submission'[p].at = "saveRating" /\ submission'[p].alone =>
                  submission'[p].result = Aggregate(Received(UserOf(p)))'
    BY DEF ResultsRight
  <2>2. CASE p = q  BY <1>4, <2>2 DEF UserOf
  <2>3. CASE p # q
    <3>1. UserOf(p)' = UserOf(p)  BY <1>3, <2>3 DEF UserOf
    <3> QED  BY <1>1, <1>3, <2>1, <2>3, <3>1 DEF ResultsRight, UserOf
  <2> QED  BY <2>2, <2>3
<1>10. RatingsRight'
  <2>1. \A u : Received(u)' = Received(u)  BY <1>2, SameReceived
  <2> SUFFICES ASSUME NEW u \in Rated, u \notin outdated',
                      \A p \in Submissions : Active(p)' /\ UserOf(p)' = u =>
                        submission'[p].at = "saveApproved"
               PROVE  Agrees(u)'
    BY DEF RatingsRight
  <2>2. \A p \in Submissions : Active(p) /\ UserOf(p) = u =>
          submission[p].at = "saveApproved"
    BY <1>2, <1>3 DEF Active, UserOf
  <2>3. Agrees(u)  BY <1>1, <1>5, <2>2 DEF RatingsRight
  <2> QED  BY <1>2, <2>1, <2>3 DEF Agrees
<1> QED  BY <1>7, <1>8, <1>9, <1>10 DEF ReviewsInv

\* A request goes on or ends: it changes what concerns its own user.
LEMMA OwnStep ==
  ASSUME ReviewsInv, NEW q \in Submissions, Active(q), NEW u0, u0 = UserOf(q),
         NEW s \in SubmissionRecord, submission' = [submission EXCEPT ![q] = s],
         s.at # "saveReview",
         s.at # "idle" =>
           /\ s.user = u0 /\ s.contract = submission[q].contract
           /\ s.alone <=> submission[q].alone,
         review' \in [Contracts -> [Roles -> 0..5]],
         rating' \in [Rated -> Results],
         \A u \in Rated \ {u0} : /\ Received(u)' = Received(u)
                                 /\ rating'[u] = rating[u]
                                 /\ u \in outdated' <=> u \in outdated,
         ~submission[q].alone => u0 \in outdated',
         s.at = "saveRating" /\ s.alone => s.result = Aggregate(Received(u0)'),
         s.at \in {"idle", "saveApproved"} => u0 \in outdated' \/ Agrees(u0)'
  PROVE  ReviewsInv'
<1>1. /\ submission \in [Submissions -> SubmissionRecord]
      /\ \A p \in Submissions : Active(p) =>
           UserOf(p) \in Rated /\ submission[p].contract \in Contracts
      /\ AlonesKnown /\ ResultsRight /\ RatingsRight
  BY ReviewsInvParts
<1>2. /\ \A p \in Submissions \ {q} : submission'[p] = submission[p]
      /\ submission'[q] = s
      /\ submission' \in [Submissions -> SubmissionRecord]
  BY <1>1
<1>3. \A p \in Submissions : Active(p)' =>
        Active(p) /\ UserOf(p)' = UserOf(p)
          /\ (submission'[p].alone <=> submission[p].alone)
  BY <1>2 DEF Active, UserOf
<1>4. ReviewsShape'
  BY <1>1, <1>2 DEF ReviewsShape, Active, UserOf
<1>5. AlonesKnown'
  <2> SUFFICES ASSUME NEW p \in Submissions, Active(p)'
               PROVE  IF submission'[p].alone
                      THEN \A t \in Submissions :
                             Active(t)' /\ UserOf(t)' = UserOf(p)' => t = p
                      ELSE UserOf(p)' \in outdated'
    BY DEF AlonesKnown
  <2>1. CASE submission'[p].alone
    BY <1>1, <1>3, <2>1 DEF AlonesKnown
  <2>2. CASE ~submission'[p].alone
    <3>1. UserOf(p)' = UserOf(p) /\ UserOf(p) \in outdated /\ UserOf(p) \in Rated
      BY <1>1, <1>3, <2>2 DEF AlonesKnown
    <3>2. UserOf(p) = u0 => ~submission[q].alone
      BY <1>1, <1>3, <2>2 DEF AlonesKnown
    <3> QED  BY <2>2, <3>1, <3>2
  <2> QED  BY <2>1, <2>2
<1>6. ResultsRight'
  <2> SUFFICES ASSUME NEW p \in Submissions
      PROVE  /\ submission'[p].at = "saveReview" => UserOf(p)' =
                  Parties[submission'[p].contract][OtherRole(submission'[p].role)]
             /\ submission'[p].at = "saveRating" /\ submission'[p].alone =>
                  submission'[p].result = Aggregate(Received(UserOf(p)))'
    BY DEF ResultsRight
  <2>1. CASE p = q  BY <1>2, <2>1 DEF UserOf
  <2>2. CASE p # q
    <3>1. submission'[p] = submission[p] /\ UserOf(p)' = UserOf(p)
      BY <1>2, <2>2 DEF UserOf
    <3>2. submission[p].at = "saveRating" /\ submission[p].alone =>
            UserOf(p) \in Rated \ {u0}
      BY <1>1, <2>2 DEF AlonesKnown, Active
    <3>3. submission[p].at = "saveRating" /\ submission[p].alone =>
            Received(UserOf(p))' = Received(UserOf(p))
      BY <3>1, <3>2
    <3> QED  BY <1>1, <3>1, <3>3 DEF ResultsRight
  <2> QED  BY <2>1, <2>2
<1>7. RatingsRight'
  <2> SUFFICES ASSUME NEW u \in Rated, u \notin outdated',
                      \A p \in Submissions : Active(p)' /\ UserOf(p)' = u =>
                        submission'[p].at = "saveApproved"
               PROVE  Agrees(u)'
    BY DEF RatingsRight
  <2>1. CASE u = u0
    BY <1>2, <2>1 DEF Active, UserOf
  <2>2. CASE u # u0
    <3>1. \A p \in Submissions : Active(p) /\ UserOf(p) = u =>
            submission[p].at = "saveApproved"
      BY <1>2, <2>2 DEF Active, UserOf
    <3>2. Agrees(u)  BY <1>1, <2>2, <3>1 DEF RatingsRight
    <3> QED  BY <2>2, <3>2 DEF Agrees
  <2> QED  BY <2>1, <2>2
<1> QED  BY <1>4, <1>5, <1>6, <1>7 DEF ReviewsInv

LEMMA SaveReviewKeepsRatings ==
  ASSUME ReviewsInv, NEW q \in Submissions, SaveReview(q)
  PROVE  ReviewsInv'
<1>1. PICK u0, s, r : /\ u0 = UserOf(q) /\ r = submission[q]
                      /\ s = [r EXCEPT !.at = "readReviews"]
  OBVIOUS
<1>2. r \in SubmissionRecord /\ Active(q) /\ r.contract \in Contracts
  BY <1>1, ReviewsInvParts DEF SaveReview, Active
<1>3. /\ s \in SubmissionRecord /\ s.at = "readReviews" /\ s.user = u0
      /\ s.contract = r.contract /\ s.alone = r.alone
  BY <1>1, <1>2 DEF SubmissionRecord, Steps, UserOf
<1>4. submission' = [submission EXCEPT ![q] = s]
  BY <1>1, <1>2, ReviewsInvParts DEF SaveReview
<1>5. /\ review' = [review EXCEPT ![r.contract][r.role] = r.stars]
      /\ UNCHANGED <<status, rating, outdated>>
      /\ u0 = Parties[r.contract][OtherRole(r.role)]
      /\ r.role \in Roles /\ r.stars \in 0..5
  BY <1>1, <1>2, ReviewsInvParts DEF SaveReview, ResultsRight, SubmissionRecord
<1>6. review' \in [Contracts -> [Roles -> 0..5]]
  BY <1>2, <1>5, ReviewsInvParts
<1>7. \A u \in Rated \ {u0} : Received(u)' = Received(u)
  BY <1>5, ReviewsInvParts, OtherReceived
<1>8. ~submission[q].alone => u0 \in outdated'
  BY <1>1, <1>2, <1>5, ReviewsInvParts DEF AlonesKnown
<1>9. rating' \in [Rated -> Results]  BY <1>5, ReviewsInvParts
<1>10. /\ s.at # "saveReview" /\ s.at # "saveRating"
       /\ s.at \notin {"idle", "saveApproved"}
       /\ s.alone <=> submission[q].alone
       /\ s.contract = submission[q].contract
       /\ s.user = u0
  BY <1>1, <1>3
<1>11. \A u \in Rated \ {u0} : /\ Received(u)' = Received(u)
                               /\ rating'[u] = rating[u]
                               /\ u \in outdated' <=> u \in outdated
  BY <1>5, <1>7
<1> QED
  BY <1>1, <1>2, <1>3, <1>4, <1>6, <1>8, <1>9, <1>10, <1>11, OwnStep

LEMMA ReadReviewsKeepsRatings ==
  ASSUME ReviewsInv, NEW q \in Submissions, ReadReviews(q)
  PROVE  ReviewsInv'
<1>1. PICK u0, s, r : /\ u0 = UserOf(q) /\ r = submission[q]
                      /\ s = [r EXCEPT !.at = "saveRating",
                                       !.result = Aggregate(Received(u0))]
  OBVIOUS
<1>2. r \in SubmissionRecord /\ Active(q)
  BY <1>1, ReviewsInvParts DEF ReadReviews, Active
<1>3. Aggregate(Received(u0)) \in Results
  BY ReviewsInvParts, ReceivedIsStars
<1>4. /\ s \in SubmissionRecord /\ s.at = "saveRating" /\ s.user = u0
      /\ s.contract = r.contract /\ s.alone = r.alone
      /\ s.result = Aggregate(Received(u0))
  BY <1>1, <1>2, <1>3 DEF SubmissionRecord, Steps, UserOf
<1>5. submission' = [submission EXCEPT ![q] = s]
  BY <1>1, <1>2, ReviewsInvParts DEF ReadReviews, UserOf
<1>6. UNCHANGED <<status, review, rating, outdated>>  BY DEF ReadReviews
<1>7. \A u : Received(u)' = Received(u)  BY <1>6, SameReceived
<1>8. ~submission[q].alone => u0 \in outdated'
  BY <1>1, <1>2, <1>6, ReviewsInvParts DEF AlonesKnown
<1>9. /\ rating' \in [Rated -> Results]
      /\ review' \in [Contracts -> [Roles -> 0..5]]
  BY <1>6, ReviewsInvParts
<1>10. /\ s.at \notin {"saveReview", "idle", "saveApproved"}
       /\ s.alone <=> submission[q].alone
       /\ s.result = Aggregate(Received(u0)')
  BY <1>1, <1>4, <1>7
<1> QED
  BY <1>1, <1>2, <1>4, <1>5, <1>6, <1>7, <1>8, <1>9, <1>10, OwnStep

LEMMA SaveRatingKeepsRatings ==
  ASSUME ReviewsInv, NEW q \in Submissions, SaveRating(q)
  PROVE  ReviewsInv'
<1> DEFINE next == IF submission[q].op = "approveWork"
                   THEN [submission[q] EXCEPT !.at = "saveApproved",
                                              !.result = NoRating]
                   ELSE NoSubmission
<1>0. PICK u0, s, r : u0 = UserOf(q) /\ r = submission[q] /\ s = next
  OBVIOUS
<1>1. /\ u0 = UserOf(q) /\ r = submission[q]
      /\ s = IF r.op = "approveWork"
             THEN [r EXCEPT !.at = "saveApproved", !.result = NoRating]
             ELSE NoSubmission
  BY <1>0
<1>2. r \in SubmissionRecord /\ Active(q) /\ u0 \in Rated
  BY <1>1, ReviewsInvParts DEF SaveRating, Active
<1>3. /\ s \in SubmissionRecord /\ s.at \in {"idle", "saveApproved"}
      /\ s.at # "idle" =>
           s.user = u0 /\ s.contract = r.contract /\ s.alone = r.alone
  <2>1. CASE r.op = "approveWork"
    BY <1>1, <1>2, <2>1, NoStars DEF SubmissionRecord, Steps, UserOf
  <2>2. CASE r.op # "approveWork"  BY <1>1, <2>2, NoSubmissionIsIdle
  <2> QED  BY <2>1, <2>2
<1>4. submission' = [submission EXCEPT ![q] = s]
  BY <1>1, <1>2, ReviewsInvParts DEF SaveRating
<1>5. UNCHANGED <<status, review>>  BY DEF SaveRating
<1>6. \A u : Received(u)' = Received(u)  BY <1>5, SameReceived
<1>7. /\ rating' = [rating EXCEPT ![u0] = r.result]
      /\ outdated' = IF r.alone THEN outdated \ {u0} ELSE outdated
  BY <1>1 DEF SaveRating, UserOf
<1>8. /\ rating' \in [Rated -> Results]
      /\ review' \in [Contracts -> [Roles -> 0..5]]
  BY <1>2, <1>5, <1>7, ReviewsInvParts DEF SubmissionRecord
<1>9. ~submission[q].alone => u0 \in outdated'
  BY <1>1, <1>2, <1>7, ReviewsInvParts DEF AlonesKnown
<1>10. r.alone => Agrees(u0)'
  <2>1. r.alone => r.result = Aggregate(Received(u0))
    BY <1>1, <1>2, ReviewsInvParts DEF SaveRating, ResultsRight
  <2>2. rating'[u0] = r.result  BY <1>2, <1>7, ReviewsInvParts
  <2> QED  BY <1>6, <2>1, <2>2 DEF Agrees
<1>11. \A u \in Rated \ {u0} : /\ Received(u)' = Received(u)
                               /\ rating'[u] = rating[u]
                               /\ u \in outdated' <=> u \in outdated
  BY <1>6, <1>7, ReviewsInvParts
<1>12. /\ s.at # "saveReview" /\ s.at # "saveRating"
       /\ s.at # "idle" =>
            /\ s.user = u0 /\ s.contract = submission[q].contract
            /\ s.alone <=> submission[q].alone
  BY <1>1, <1>3
<1>13. s.at \in {"idle", "saveApproved"} => u0 \in outdated' \/ Agrees(u0)'
  BY <1>1, <1>9, <1>10
<1> QED
  BY <1>1, <1>2, <1>3, <1>4, <1>8, <1>9, <1>11, <1>12, <1>13, OwnStep

LEMMA FailSubmissionKeepsRatings ==
  ASSUME ReviewsInv, NEW q \in Submissions, FailSubmission(q)
  PROVE  ReviewsInv'
<1>1. PICK u0, s : u0 = UserOf(q) /\ s = NoSubmission
  OBVIOUS
<1>2. Active(q)  BY DEF FailSubmission, Active
<1>3. s \in SubmissionRecord /\ s.at = "idle"  BY <1>1, NoSubmissionIsIdle
<1>4. /\ submission' = [submission EXCEPT ![q] = s]
      /\ UNCHANGED <<status, review, rating>>
      /\ outdated' = outdated \cup {u0}
  BY <1>1 DEF FailSubmission, UserOf
<1>5. \A u : Received(u)' = Received(u)  BY <1>4, SameReceived
<1>6. /\ rating' \in [Rated -> Results]
      /\ review' \in [Contracts -> [Roles -> 0..5]]
  BY <1>4, ReviewsInvParts
<1> QED  BY <1>1, <1>2, <1>3, <1>4, <1>5, <1>6, OwnStep

LEMMA StartedSubmission ==
  ASSUME ReviewsInv, NEW q \in Submissions, NEW c \in Contracts,
         NEW stars \in 1..5, NEW role \in Roles,
         SubmitReview(q, c, role, stars) \/ ApproveWork(q, c, stars)
  PROVE  ReviewsInv'
<1>1. NoSubmission \in SubmissionRecord  BY NoSubmissionIsIdle
<1>2. /\ Parties[c][OtherRole(role)] \in Rated
      /\ Parties[c].freelancer \in Rated
  BY DEF Rated, OtherRole, Roles
<1>3. CASE SubmitReview(q, c, role, stars)
  <2>1. PICK r : r = [NoSubmission EXCEPT !.op = "submitReview",
                        !.at = "saveReview", !.contract = c, !.role = role,
                        !.stars = stars, !.user = Parties[c][OtherRole(role)]]
    OBVIOUS
  <2>0. r = [op |-> "submitReview", at |-> "saveReview", contract |-> c,
             role |-> role, user |-> Parties[c][OtherRole(role)], stars |-> stars,
             result |-> NoRating, alone |-> TRUE]
    BY <2>1 DEF NoSubmission
  <2>2. /\ r \in SubmissionRecord /\ r.at = "saveReview" /\ r.contract = c
        /\ r.role = role /\ r.user = Parties[c][OtherRole(role)]
    BY <1>2, <2>0, NoStars DEF SubmissionRecord, Operations, Steps, Roles
  <2>3. BeginReview(q, r)  BY <1>3, <2>1 DEF SubmitReview
  <2> QED  BY <1>2, <2>2, <2>3, BeginKeepsRatings
<1>4. CASE ApproveWork(q, c, stars)
  <2>1. PICK r : r = [NoSubmission EXCEPT !.op = "approveWork",
                        !.at = "readReviews", !.contract = c, !.stars = stars,
                        !.user = Parties[c].freelancer]
    OBVIOUS
  <2>0. r = [op |-> "approveWork", at |-> "readReviews", contract |-> c,
             role |-> "client", user |-> Parties[c].freelancer, stars |-> stars,
             result |-> NoRating, alone |-> TRUE]
    BY <2>1 DEF NoSubmission
  <2>2. /\ r \in SubmissionRecord /\ r.at = "readReviews" /\ r.contract = c
        /\ r.user = Parties[c].freelancer
    BY <1>2, <2>0, NoStars DEF SubmissionRecord, Operations, Steps, Roles
  <2>3. BeginReview(q, r)  BY <1>4, <2>1 DEF ApproveWork
  <2> QED  BY <1>2, <2>2, <2>3, BeginKeepsRatings
<1> QED  BY <1>3, <1>4

LEMMA RecalculateKeepsRatings ==
  ASSUME ReviewsInv, NEW q \in Submissions, NEW u \in Rated,
         RecalculateRating(q, u)
  PROVE  ReviewsInv'
<1>1. PICK r : r = [NoSubmission EXCEPT !.at = "readReviews", !.user = u]
  OBVIOUS
<1>2. PICK c : c \in Contracts /\ NoSubmission.contract \in Contracts
  BY DEF Rated, NoSubmission
<1>3. /\ r \in SubmissionRecord /\ r.at = "readReviews" /\ r.user = u
      /\ r.contract \in Contracts
  BY <1>1, <1>2, NoSubmissionIsIdle DEF SubmissionRecord, Steps
<1>4. BeginReview(q, r)  BY <1>1 DEF RecalculateRating
<1> QED  BY <1>3, <1>4, BeginKeepsRatings

(* Whatever overlaps, breaks off or is decided meanwhile, a user who is    *)
(* not outdated and whose rating no request is computing carries the       *)
(* aggregate of the reviews he has received in completed contracts.        *)
THEOREM RatingsAgree == ReviewsSpec => []RatingAgrees
<1>1. ReviewsInv /\ [ReviewsNext]_reviewsVars => ReviewsInv'
  <2> SUFFICES ASSUME ReviewsInv, [ReviewsNext]_reviewsVars PROVE ReviewsInv'
    OBVIOUS
  <2>1. CASE UNCHANGED reviewsVars
    BY <2>1 DEF reviewsVars, ReviewsInv, ReviewsShape, AlonesKnown,
       ResultsRight, RatingsRight, Agrees, Active, UserOf, Received
  <2> QED
    BY <2>1, ChangeStatusKeepsRatings, StartedSubmission,
       RecalculateKeepsRatings, SaveReviewKeepsRatings,
       ReadReviewsKeepsRatings, SaveRatingKeepsRatings,
       SaveApprovedKeepsRatings, FailSubmissionKeepsRatings
       DEF ReviewsNext, Roles
<1>2. ReviewsInv => RatingAgrees
  BY DEF ReviewsInv, RatingsRight, RatingAgrees, Rating, Agrees, Active, UserOf
<1> QED  BY <1>1, <1>2, ReviewsInvInit, PTL DEF ReviewsSpec

-----------------------------------------------------------------------------
(***************************************************************************)
(* Identity cards, for any number of requests, users and uploads: whatever *)
(* overlaps, the images a card refers to are stored, except while a        *)
(* request replaces them or after one broke off there.                     *)
(*                                                                         *)
(* A deletion is of what a request uploaded or of what it read.  CardInv   *)
(* says that an upload is one request's until its document is saved, and   *)
(* that images are only ever referred to by the card of who uploaded them, *)
(* so that nothing deletes the images of a document but the request that   *)
(* is about to replace them.                                               *)
(***************************************************************************)
USE IdentityAssumption

\* The upload of such a request is in no document.
Submitting == {"uploadFront", "uploadBack", "rollbackFront", "deleteOld",
               "saveSubmitted", "rollbackSaved"}

CardsOwned ==
  \A u \in Holders : card[u].images # Absent =>
    card[u].images \in begun /\ OwnerOf[card[u].images] = u

HandlersOwned ==
  \A q \in Handlers :
    /\ handler[q].seen.images # Absent =>
         /\ handler[q].seen.images \in begun
         /\ OwnerOf[handler[q].seen.images] = handler[q].user
    /\ handler[q].upload # Absent =>
         /\ handler[q].upload \in begun
         /\ OwnerOf[handler[q].upload] = handler[q].user

UploadsOwned ==
  \A q \in Handlers : handler[q].at \in Submitting =>
    /\ handler[q].upload # Absent
    /\ \A u \in Holders : card[u].images # handler[q].upload
    /\ \A p \in Handlers :
         /\ handler[p].seen.images # handler[q].upload
         /\ p # q => handler[p].upload # handler[q].upload

UploadsStored ==
  \A q \in Handlers :
    /\ handler[q].at = "uploadBack" => <<handler[q].upload, "front">> \in stored
    /\ handler[q].at \in {"deleteOld", "saveSubmitted"} =>
         ImagesOf(handler[q].upload) \subseteq stored
    /\ handler[q].at = "rollbackSaved" =>
         handler[q].seen.images \in abandoned \cup {Absent}

\* What is to be deleted was read, what is to be recognised was uploaded.
PointsInv ==
  \A q \in Handlers :
    /\ handler[q].at \in {"deleteOld", "deleteRejected", "deleteReupload"} =>
         handler[q].seen.images # Absent
    /\ handler[q].at = "addJob" => handler[q].upload # Absent

CardInv == CardsOwned /\ HandlersOwned /\ UploadsOwned /\ UploadsStored

HandlerRecord == [at : CardSteps, user : Holders, seen : Cards,
                  upload : Uploads \cup {Absent}, number : Numbers \cup {Absent}]

LEMMA NoCardTyped == NoCard \in Cards
BY DEF NoCard, Cards, CardStatuses, ValidStatuses

-----------------------------------------------------------------------------
(* What a step makes of the request it is a step of.                        *)
Becomes(q, at, user, images, upload) ==
  /\ handler' \in [Handlers -> HandlerRecord]
  /\ handler'[q].at = at /\ handler'[q].user = user
  /\ handler'[q].seen.images = images /\ handler'[q].upload = upload
  /\ \A p \in Handlers \ {q} : handler'[p] = handler[p]

SameImages == \A u \in Holders : card'[u].images = card[u].images

LEMMA Begins ==
  ASSUME CardTypesOK, NEW q \in Handlers, NEW u \in Holders,
         NEW step \in CardSteps, NEW seen \in Cards,
         NEW upload \in Uploads \cup {Absent}, NEW number \in Numbers \cup {Absent},
         BeginCard(q, u, step, seen, upload, number)
  PROVE  Becomes(q, step, u, seen.images, upload)
BY DEF Becomes, BeginCard, HandlerRecord, CardTypesOK

LEMMA Proceeds ==
  ASSUME CardTypesOK, NEW q \in Handlers, NEW step \in CardSteps, Proceed(q, step)
  PROVE  Becomes(q, step, handler[q].user, handler[q].seen.images, handler[q].upload)
BY DEF Becomes, Proceed, HandlerRecord, CardTypesOK

LEMMA Ends ==
  ASSUME CardTypesOK, NEW q \in Handlers, EndCard(q)
  PROVE  Becomes(q, "idle", NoHandler.user, Absent, Absent)
<1>1. NoHandler \in HandlerRecord
  BY NoCardTyped DEF NoHandler, HandlerRecord, CardSteps
<1>2. NoHandler.at = "idle" /\ NoHandler.seen.images = Absent /\ NoHandler.upload = Absent
  BY DEF NoHandler, NoCard
<1> QED  BY <1>1, <1>2 DEF Becomes, EndCard, HandlerRecord, CardTypesOK

-----------------------------------------------------------------------------
(* What a step does to the cards.                                           *)
LEMMA Edits ==
  ASSUME CardTypesOK, NEW q \in Handlers, NEW new \in Cards, SaveEdit(q, new)
  PROVE  /\ card' \in [Holders -> Cards]
         /\ \A u \in Holders \ {handler[q].user} : card'[u] = card[u]
         /\ card'[handler[q].user].images =
              IF new.images = handler[q].seen.images
              THEN card[handler[q].user].images ELSE new.images
         /\ card'[handler[q].user].number =
              IF new.number = handler[q].seen.number
              THEN card[handler[q].user].number ELSE new.number
<1> DEFINE u == handler[q].user
           now == card[u]
           seen == handler[q].seen
           cardStatus == IF new.status = seen.status THEN now.status ELSE new.status
           images == IF new.images = seen.images THEN now.images ELSE new.images
           number == IF new.number = seen.number THEN now.number ELSE new.number
           ocr == IF new.ocr = seen.ocr THEN now.ocr ELSE new.ocr
           edited == [now EXCEPT !.status = cardStatus, !.images = images,
                                 !.number = number, !.ocr = ocr]
<1>1. u \in Holders /\ now \in Cards
  BY DEF CardTypesOK
<1>2. /\ cardStatus \in CardStatuses /\ images \in Uploads \cup {Absent}
      /\ number \in Numbers \cup {Absent} /\ ocr \in Numbers \cup {Absent}
  BY <1>1 DEF Cards
<1>3. card' = [card EXCEPT ![u] = edited]  BY DEF SaveEdit, SaveCard
<1> HIDE DEF cardStatus, images, number, ocr, now
<1>4. edited \in Cards /\ edited.images = images /\ edited.number = number
  BY <1>1, <1>2 DEF Cards
<1> HIDE DEF edited
<1>5. /\ card' \in [Holders -> Cards]
      /\ card'[u].images = images /\ card'[u].number = number
      /\ \A v \in Holders \ {u} : card'[v] = card[v]
  BY <1>1, <1>3, <1>4 DEF CardTypesOK
<1> QED  BY <1>5 DEF images, number, now

-----------------------------------------------------------------------------
(* The kinds of steps.  A request begins with what it reads.                *)
LEMMA BeginningKeeps ==
  ASSUME CardTypesOK, CardInv, ImagesKept, NEW q \in Handlers, NEW u \in Holders,
         NEW at \in CardSteps \ Submitting,
         Becomes(q, at, u, Absent, Absent)
           \/ Becomes(q, at, u, card[u].images, Absent),
         handler[q].at = "idle",
         UNCHANGED <<card, stored, begun, abandoned>>
  PROVE  CardInv' /\ ImagesKept'
<1> USE DEF Becomes
<1>1. CardsOwned'  BY DEF CardInv, CardsOwned
<1>2. HandlersOwned'  BY DEF CardInv, CardsOwned, HandlersOwned
<1>3. UploadsOwned'  BY DEF CardInv, UploadsOwned, Submitting
<1>4. UploadsStored'  BY DEF CardInv, UploadsStored, Submitting
<1>5. InHand(q) = {}  BY DEF InHand
<1>6. \A p \in Handlers : InHand(p) \subseteq InHand(p)'  BY <1>5 DEF InHand
<1>7. ImagesKept'  BY <1>6 DEF ImagesKept
<1> QED  BY <1>1, <1>2, <1>3, <1>4, <1>7 DEF CardInv

(* A request ends: what it leaves is abandoned or in no document, and what  *)
(* it deletes it had uploaded.                                              *)
LEMMA EndingKeeps ==
  ASSUME CardTypesOK, CardInv, ImagesKept, NEW q \in Handlers,
         Becomes(q, "idle", NoHandler.user, Absent, Absent),
         SameImages, begun' = begun, abandoned \subseteq abandoned',
         \A image \in stored \ stored' :
           handler[q].at \in Submitting /\ image \in ImagesOf(handler[q].upload),
         \A i \in InHand(q) \ (abandoned' \cup {Absent}) :
           \A u \in Holders : card[u].images # i
  PROVE  CardInv' /\ ImagesKept'
<1> USE DEF Becomes, SameImages
<1>1. CardsOwned'  BY DEF CardInv, CardsOwned
<1>2. HandlersOwned'  BY DEF CardInv, CardsOwned, HandlersOwned
<1>3. UploadsOwned'  BY DEF CardInv, UploadsOwned, Submitting
<1>4. UploadsStored'
  BY DEF CardInv, UploadsOwned, UploadsStored, Submitting, ImagesOf
<1>5. \A p \in Handlers \ {q} : InHand(p)' = InHand(p)  BY DEF InHand
<1>6. ImagesKept'
  BY <1>5 DEF ImagesKept, CardInv, UploadsOwned, ImagesOf
<1> QED  BY <1>1, <1>2, <1>3, <1>4, <1>6 DEF CardInv

(* A request goes on without changing a document: what it deletes it had    *)
(* read, what it has in hand it keeps in hand.                              *)
LEMMA MovingKeeps ==
  ASSUME CardTypesOK, CardInv, ImagesKept, NEW q \in Handlers, NEW at \in CardSteps,
         Becomes(q, at, handler[q].user, handler[q].seen.images, handler[q].upload),
         SameImages, begun' = begun, abandoned \subseteq abandoned',
         at \in Submitting <=> handler[q].at \in Submitting,
         \A image \in stored \ stored' :
           image[1] = handler[q].seen.images /\ image[1] \in abandoned' \cup InHand(q)',
         InHand(q) \subseteq InHand(q)' \cup abandoned',
         at = "uploadBack" => <<handler[q].upload, "front">> \in stored',
         at \in {"deleteOld", "saveSubmitted"} => ImagesOf(handler[q].upload) \subseteq stored',
         at = "rollbackSaved" => handler[q].seen.images \in abandoned' \cup {Absent}
  PROVE  CardInv' /\ ImagesKept'
<1> USE DEF Becomes, SameImages
<1>1. CardsOwned'  BY DEF CardInv, CardsOwned
<1>2. HandlersOwned'  BY DEF CardInv, HandlersOwned
<1>3. UploadsOwned'  BY DEF CardInv, UploadsOwned
<1>4. UploadsStored'
  BY DEF CardInv, UploadsOwned, UploadsStored, Submitting, ImagesOf
<1>5. \A p \in Handlers \ {q} : InHand(p)' = InHand(p)  BY DEF InHand
<1>6. ImagesKept'  BY <1>5 DEF ImagesKept, ImagesOf
<1> QED  BY <1>1, <1>2, <1>3, <1>4, <1>6 DEF CardInv

(* An admin's request saves the user's card, and what it has in hand is no  *)
(* longer in it.                                                            *)
LEMMA SavingKeeps ==
  ASSUME CardTypesOK, CardInv, ImagesKept, NEW q \in Handlers,
         Becomes(q, "idle", NoHandler.user, Absent, Absent),
         UNCHANGED <<stored, begun, abandoned>>,
         \A u \in Holders \ {handler[q].user} : card'[u] = card[u],
         card'[handler[q].user].images \in {Absent, card[handler[q].user].images},
         \A i \in InHand(q) : i # Absent =>
           i = handler[q].seen.images /\ card'[handler[q].user].images = Absent
  PROVE  CardInv' /\ ImagesKept'
<1> USE DEF Becomes
<1>1. CardsOwned'  BY DEF CardInv, CardsOwned
<1>2. HandlersOwned'  BY DEF CardInv, HandlersOwned
<1>3. UploadsOwned'  BY DEF CardInv, UploadsOwned, Submitting
<1>4. UploadsStored'  BY DEF CardInv, UploadsStored
<1>5. \A p \in Handlers \ {q} : InHand(p)' = InHand(p)  BY DEF InHand
<1>6. ImagesKept'
  BY <1>5 DEF ImagesKept, CardInv, CardsOwned, HandlersOwned
<1> QED  BY <1>1, <1>2, <1>3, <1>4, <1>6 DEF CardInv

-----------------------------------------------------------------------------
(* The steps.                                                               *)
Inv == CardTypesOK /\ PointsInv /\ CardInv /\ ImagesKept

LEMMA SubmitKeeps ==
  ASSUME Inv, NEW q \in Handlers, NEW i \in Uploads, SubmitCNIC(q, i)
  PROVE  Inv'
<1> DEFINE u == OwnerOf[i]
           seen == [card[u] EXCEPT !.status = NoCard.status, !.ocr = Absent]
<1>1. /\ u \in Holders /\ seen \in Cards /\ seen.images = card[u].images
      /\ "uploadFront" \in CardSteps
  BY NoCardTyped DEF Inv, CardTypesOK, Cards, CardSteps
<1>2. /\ BeginCard(q, u, "uploadFront", seen, i, Absent)
      /\ i \notin begun /\ begun' = begun \cup {i}
  BY DEF SubmitCNIC
<1> HIDE DEF u, seen
<1>3. Becomes(q, "uploadFront", u, card[u].images, i)
  BY <1>1, <1>2, Begins DEF Inv
<1>4. handler[q].at = "idle" /\ UNCHANGED <<card, stored, jobs, abandoned>>
  BY <1>2 DEF BeginCard
<1> USE DEF Becomes, Inv
<1>5. CardTypesOK' /\ PointsInv'
  BY <1>2, <1>3, <1>4 DEF CardTypesOK, PointsInv, HandlerRecord
<1>6. CardsOwned' /\ HandlersOwned'
  BY <1>1, <1>2, <1>3, <1>4 DEF CardInv, CardsOwned, HandlersOwned, u
<1>7. UploadsOwned'
  <2>1. i # Absent  OBVIOUS
  <2>2. \A v \in Holders : card[v].images # i
    BY <1>2, <2>1 DEF CardInv, CardsOwned
  <2>3. \A p \in Handlers : handler[p].seen.images # i /\ handler[p].upload # i
    BY <1>2, <2>1 DEF CardInv, HandlersOwned
  <2>4. handler'[q].seen.images # i /\ handler'[q].upload = i
    BY <1>1, <1>3, <2>2
  <2> QED
    BY <1>1, <1>3, <1>4, <2>1, <2>2, <2>3, <2>4 DEF CardInv, UploadsOwned
<1>8. UploadsStored'  BY <1>3, <1>4 DEF CardInv, UploadsStored
<1>9. \A p \in Handlers : InHand(p) \subseteq InHand(p)'
  BY <1>3, <1>4 DEF InHand
<1>10. ImagesKept'  BY <1>4, <1>9 DEF ImagesKept
<1> QED  BY <1>5, <1>6, <1>7, <1>8, <1>10 DEF CardInv

LEMMA AdminBeginsKeeps ==
  ASSUME Inv, NEW q \in Handlers, NEW u \in Holders,
         \/ \E n \in Numbers : ApproveCNIC(q, u, n)
         \/ RejectCNIC(q, u) \/ RequestReupload(q, u) \/ RunOCRExtraction(q, u)
  PROVE  Inv'
<1> DEFINE Reads(seen) == seen \in Cards /\ seen.images \in {Absent, card[u].images}
           c == card[u]
<1>1. c \in Cards  BY DEF Inv, CardTypesOK
<1>2. /\ Reads([NoCard EXCEPT !.number = c.number])
      /\ Reads([NoCard EXCEPT !.ocr = c.ocr])
  BY <1>1, NoCardTyped DEF Cards, NoCard
<1>3. /\ Reads([c EXCEPT !.number = Absent, !.today = 0])
      /\ Reads([c EXCEPT !.number = Absent, !.ocr = Absent, !.today = 0])
  BY <1>1 DEF Cards
<1>4. \E at \in CardSteps \ Submitting, seen \in Cards, n \in Numbers \cup {Absent} :
        /\ BeginCard(q, u, at, seen, Absent, n)
        /\ seen.images \in {Absent, card[u].images}
        /\ at \in {"deleteRejected", "deleteReupload"} => seen.images # Absent
        /\ at # "addJob"
        /\ begun' = begun
  <2>1. CASE \E n \in Numbers : ApproveCNIC(q, u, n)
    BY <1>2, <2>1 DEF ApproveCNIC, CardSteps, Submitting
  <2>2. CASE RejectCNIC(q, u)
    BY <1>1, <1>3, <2>2 DEF RejectCNIC, CardSteps, Submitting, Cards
  <2>3. CASE RequestReupload(q, u)
    BY <1>1, <1>3, <2>3 DEF RequestReupload, CardSteps, Submitting, Cards
  <2>4. CASE RunOCRExtraction(q, u)
    BY <1>2, <2>4 DEF RunOCRExtraction, CardSteps, Submitting
  <2> QED  BY <2>1, <2>2, <2>3, <2>4
<1>5. PICK at \in CardSteps \ Submitting, seen \in Cards, n \in Numbers \cup {Absent} :
        /\ BeginCard(q, u, at, seen, Absent, n)
        /\ seen.images \in {Absent, card[u].images}
        /\ at \in {"deleteRejected", "deleteReupload"} => seen.images # Absent
        /\ at # "addJob"
        /\ begun' = begun
  BY <1>4
<1>6. Becomes(q, at, u, seen.images, Absent)  BY <1>5, Begins DEF Inv
<1>7. handler[q].at = "idle" /\ UNCHANGED <<card, stored, jobs, begun, abandoned>>
  BY <1>5 DEF BeginCard
<1>8. CardTypesOK'  BY <1>6, <1>7 DEF Inv, CardTypesOK, Becomes, HandlerRecord
<1>9. PointsInv'  BY <1>5, <1>6 DEF Inv, PointsInv, Becomes, Submitting
<1>10. CardInv' /\ ImagesKept'  BY <1>5, <1>6, <1>7, BeginningKeeps DEF Inv
<1> QED  BY <1>8, <1>9, <1>10 DEF Inv

LEMMA UploadFrontKeeps ==
  ASSUME Inv, NEW q \in Handlers, UploadFront(q)
  PROVE  Inv'
<1> USE DEF Inv
<1>1. /\ handler[q].at = "uploadFront" /\ handler[q].upload \in Uploads
      /\ "uploadBack" \in CardSteps
  BY DEF UploadFront, CardAt, CardInv, UploadsOwned, Submitting, CardTypesOK, CardSteps
<1>2. UNCHANGED <<card, jobs, begun, abandoned>>  BY DEF UploadFront
<1>3. CASE stored' = stored \cup {<<handler[q].upload, "front">>} /\ Proceed(q, "uploadBack")
  <2>1. Becomes(q, "uploadBack", handler[q].user, handler[q].seen.images, handler[q].upload)
    BY <1>1, <1>3, Proceeds
  <2>2. CardTypesOK' /\ PointsInv'
    BY <1>1, <1>2, <1>3, <2>1
       DEF CardTypesOK, PointsInv, Becomes, HandlerRecord, Sides
  <2>3. InHand(q) = {}  BY <1>1 DEF InHand
  <2>4. CardInv' /\ ImagesKept'
    BY <1>1, <1>2, <1>3, <2>1, <2>3, MovingKeeps DEF SameImages, Submitting
  <2> QED  BY <2>2, <2>4
<1>4. CASE UNCHANGED stored /\ EndCard(q)
  <2>1. Becomes(q, "idle", NoHandler.user, Absent, Absent)  BY <1>4, Ends
  <2>2. CardTypesOK' /\ PointsInv'
    BY <1>2, <1>4, <2>1 DEF CardTypesOK, PointsInv, Becomes, HandlerRecord
  <2>3. InHand(q) = {}  BY <1>1 DEF InHand
  <2>4. CardInv' /\ ImagesKept'
    BY <1>2, <1>4, <2>1, <2>3, EndingKeeps DEF SameImages
  <2> QED  BY <2>2, <2>4
<1> QED  BY <1>3, <1>4 DEF UploadFront

LEMMA UploadBackKeeps ==
  ASSUME Inv, NEW q \in Handlers, UploadBack(q)
  PROVE  Inv'
<1> USE DEF Inv
<1> DEFINE i == handler[q].upload
<1>1. handler[q].at = "uploadBack" /\ i \in Uploads /\ <<i, "front">> \in stored
  BY DEF UploadBack, CardAt, CardInv, UploadsOwned, UploadsStored, Submitting, CardTypesOK
<1>2. PICK at \in {"saveSubmitted", "deleteOld", "rollbackFront"} :
        /\ Proceed(q, at)
        /\ at = "deleteOld" => handler[q].seen.images # Absent
        /\ \/ stored' = stored \cup {<<i, "back">>}
           \/ at = "rollbackFront" /\ stored' = stored
  BY DEF UploadBack
<1>3. UNCHANGED <<card, jobs, begun, abandoned>>  BY DEF UploadBack
<1>4. Becomes(q, at, handler[q].user, handler[q].seen.images, i)
  BY <1>2, Proceeds DEF CardSteps
<1>5. CardTypesOK' /\ PointsInv'
  BY <1>1, <1>2, <1>3, <1>4
     DEF CardTypesOK, PointsInv, Becomes, HandlerRecord, Sides
<1>6. InHand(q) = {i}  BY <1>1 DEF InHand
<1>7. i \in InHand(q)'  BY <1>4 DEF InHand, Becomes
<1>8. at # "rollbackFront" => ImagesOf(i) \subseteq stored'
  BY <1>1, <1>2 DEF ImagesOf, Sides
<1>9. CardInv' /\ ImagesKept'
  BY <1>1, <1>2, <1>3, <1>4, <1>6, <1>7, <1>8, MovingKeeps
     DEF SameImages, Submitting, CardSteps
<1> QED  BY <1>5, <1>9

LEMMA RollbackFrontKeeps ==
  ASSUME Inv, NEW q \in Handlers, RollbackFront(q)
  PROVE  Inv'
<1> USE DEF Inv
<1> DEFINE i == handler[q].upload
<1>1. handler[q].at = "rollbackFront" /\ i \in Uploads /\ \A u \in Holders : card[u].images # i
  BY DEF RollbackFront, CardAt, CardInv, UploadsOwned, Submitting, CardTypesOK
<1>2. /\ Becomes(q, "idle", NoHandler.user, Absent, Absent)
      /\ UNCHANGED <<card, jobs, begun>>
  BY Ends DEF RollbackFront
<1>3. /\ stored' \subseteq stored /\ stored \ stored' \subseteq {<<i, "front">>}
      /\ abandoned' \in {abandoned, abandoned \cup {i}}
  BY DEF RollbackFront, DeleteStored
<1>4. CardTypesOK' /\ PointsInv'
  BY <1>1, <1>2, <1>3 DEF CardTypesOK, PointsInv, Becomes, HandlerRecord
<1>5. InHand(q) = {i}  BY <1>1 DEF InHand
<1>6. CardInv' /\ ImagesKept'
  BY <1>1, <1>2, <1>3, <1>5, EndingKeeps DEF SameImages, Submitting, ImagesOf, Sides
<1> QED  BY <1>4, <1>6

LEMMA DeleteKeeps ==
  ASSUME Inv, NEW q \in Handlers, DeleteOld(q) \/ DeleteImages(q)
  PROVE  Inv'
<1> USE DEF Inv
<1> DEFINE i == handler[q].seen.images
<1>1. PICK at \in {"saveSubmitted", "saveRejected", "saveReupload"} :
        /\ Proceed(q, at)
        /\ handler[q].at = CASE at = "saveSubmitted" -> "deleteOld"
                             [] at = "saveRejected" -> "deleteRejected"
                             [] at = "saveReupload" -> "deleteReupload"
  BY DEF DeleteOld, DeleteImages, CardAt
<1>2. i \in Uploads
  BY <1>1 DEF PointsInv, CardTypesOK, Cards
<1>3. /\ UNCHANGED <<card, jobs, begun>>
      /\ stored' \subseteq stored /\ stored \ stored' \subseteq ImagesOf(i)
      /\ abandoned' \in {abandoned, abandoned \cup {i}}
  BY DEF DeleteOld, DeleteImages, DeleteStored
<1>4. Becomes(q, at, handler[q].user, i, handler[q].upload)
  BY <1>1, Proceeds DEF CardSteps
<1>5. CardTypesOK' /\ PointsInv'
  BY <1>1, <1>2, <1>3, <1>4 DEF CardTypesOK, PointsInv, Becomes, HandlerRecord
<1>6. InHand(q) \subseteq InHand(q)' /\ i \in InHand(q)'
  BY <1>1, <1>4 DEF InHand, Becomes
<1>7. at = "saveSubmitted" =>
        i # handler[q].upload /\ ImagesOf(handler[q].upload) \subseteq stored
  BY <1>1 DEF CardInv, UploadsOwned, UploadsStored, Submitting
<1>8. at = "saveSubmitted" => ImagesOf(handler[q].upload) \subseteq stored'
  BY <1>3, <1>7 DEF ImagesOf
<1>9. CardInv' /\ ImagesKept'
  BY <1>1, <1>3, <1>4, <1>6, <1>8, MovingKeeps DEF SameImages, Submitting, CardSteps, ImagesOf
<1> QED  BY <1>5, <1>9

LEMMA SaveSubmittedKeeps ==
  ASSUME Inv, NEW q \in Handlers, SaveSubmitted(q)
  PROVE  Inv'
<1> USE DEF Inv
<1> DEFINE i == handler[q].upload
           old == handler[q].seen.images
           u == handler[q].user
<1>1. /\ handler[q].at = "saveSubmitted" /\ i \in Uploads /\ u \in Holders
      /\ old \in Uploads \cup {Absent} /\ handler[q].seen \in Cards
  BY DEF SaveSubmitted, CardAt, CardInv, UploadsOwned, Submitting, CardTypesOK, Cards
<1>2. UNCHANGED <<stored, jobs, begun>>  BY DEF SaveSubmitted
<1>3. InHand(q) = {i, old}  BY <1>1 DEF InHand
<1>4. CASE /\ SaveCard(q, [handler[q].seen EXCEPT !.status = "pending", !.images = i,
                                                 !.ocr = Absent, !.today = @ + 1])
           /\ Proceed(q, "addJob") /\ UNCHANGED abandoned
  <2> DEFINE new == [handler[q].seen EXCEPT !.status = "pending", !.images = i,
                                            !.ocr = Absent, !.today = @ + 1]
  <2>1. new \in Cards /\ new.images = i
    <3>1. handler[q].seen.today + 1 \in Nat  BY <1>1 DEF Cards
    <3>2. "pending" \in CardStatuses  BY DEF CardStatuses, ValidStatuses
    <3> DEFINE seen == handler[q].seen
               n == seen.today + 1
    <3>3. seen \in Cards /\ n \in Nat  BY <1>1, <3>1
    <3>4. new = [seen EXCEPT !.status = "pending", !.images = i, !.ocr = Absent, !.today = n]
      OBVIOUS
    <3> HIDE DEF new, seen, n
    <3> QED  BY <1>1, <3>2, <3>3, <3>4 DEF Cards
  <2>2. card' = [card EXCEPT ![u] = new]  BY <1>4 DEF SaveCard
  <2> HIDE DEF new
  <2>3. /\ card' \in [Holders -> Cards] /\ card'[u].images = i
        /\ \A v \in Holders \ {u} : card'[v] = card[v]
    BY <1>1, <2>1, <2>2 DEF CardTypesOK
  <2>4. Becomes(q, "addJob", u, old, i)  BY <1>4, Proceeds DEF CardSteps
  <2>5. CardTypesOK' /\ PointsInv'
    BY <1>1, <1>2, <1>4, <2>3, <2>4 DEF CardTypesOK, PointsInv, Becomes, HandlerRecord
  <2>6. CardsOwned' /\ HandlersOwned'
    BY <1>1, <1>2, <2>3, <2>4 DEF CardInv, CardsOwned, HandlersOwned, Becomes
  <2>7. UploadsOwned'
    BY <1>1, <2>3, <2>4 DEF CardInv, UploadsOwned, Becomes, Submitting
  <2>8. UploadsStored'
    BY <1>2, <1>4, <2>4 DEF CardInv, UploadsStored, Becomes
  <2>9. \A p \in Handlers \ {q} : InHand(p)' = InHand(p)
    BY <2>4 DEF InHand, Becomes
  <2>10. \A v \in Holders \ {u} : card[v].images # Absent => card[v].images \notin {i, old}
    BY <1>1 DEF CardInv, CardsOwned, HandlersOwned
  <2>11. ImagesOf(i) \subseteq stored  BY <1>1 DEF CardInv, UploadsStored
  <2>12. ImagesKept'
    BY <1>1, <1>2, <1>3, <1>4, <2>3, <2>9, <2>10, <2>11, SMTT(30)
       DEF ImagesKept, ImagesOf
  <2> QED  BY <2>5, <2>6, <2>7, <2>8, <2>12 DEF CardInv
<1>5. CASE /\ Proceed(q, "rollbackSaved") /\ UNCHANGED card
           /\ abandoned' = abandoned \cup ({old} \ {Absent})
  <2>1. Becomes(q, "rollbackSaved", u, old, i)  BY <1>5, Proceeds DEF CardSteps
  <2>2. CardTypesOK' /\ PointsInv'
    BY <1>1, <1>2, <1>5, <2>1 DEF CardTypesOK, PointsInv, Becomes, HandlerRecord
  <2>3. InHand(q)' = {i, old}  BY <2>1 DEF InHand, Becomes
  <2>4. CardInv' /\ ImagesKept'
    BY <1>1, <1>2, <1>3, <1>5, <2>1, <2>3, MovingKeeps DEF SameImages, Submitting, CardSteps
  <2> QED  BY <2>2, <2>4
<1> QED  BY <1>4, <1>5 DEF SaveSubmitted

LEMMA RollbackSavedKeeps ==
  ASSUME Inv, NEW q \in Handlers, RollbackSaved(q)
  PROVE  Inv'
<1> USE DEF Inv
<1> DEFINE i == handler[q].upload
           old == handler[q].seen.images
<1>1. /\ handler[q].at = "rollbackSaved" /\ i \in Uploads /\ \A u \in Holders : card[u].images # i
      /\ old \in abandoned \cup {Absent}
  BY DEF RollbackSaved, CardAt, CardInv, UploadsOwned, UploadsStored, Submitting, CardTypesOK
<1>2. /\ Becomes(q, "idle", NoHandler.user, Absent, Absent)
      /\ UNCHANGED <<card, jobs, begun>>
  BY Ends DEF RollbackSaved
<1>3. /\ stored' \subseteq stored /\ stored \ stored' \subseteq ImagesOf(i)
      /\ abandoned' \in {abandoned, abandoned \cup {i}}
  BY DEF RollbackSaved, DeleteStored
<1>4. CardTypesOK' /\ PointsInv'
  BY <1>1, <1>2, <1>3 DEF CardTypesOK, PointsInv, Becomes, HandlerRecord
<1>5. InHand(q) = {i, old}  BY <1>1 DEF InHand
<1>6. CardInv' /\ ImagesKept'
  BY <1>1, <1>2, <1>3, <1>5, EndingKeeps DEF SameImages, Submitting
<1> QED  BY <1>4, <1>6

LEMMA AddOcrJobKeeps ==
  ASSUME Inv, NEW q \in Handlers, AddOcrJob(q)
  PROVE  Inv'
<1> USE DEF Inv
<1>1. /\ handler[q].at = "addJob" /\ handler[q].upload \in Uploads
  BY DEF AddOcrJob, CardAt, CardTypesOK, PointsInv
<1>2. /\ Becomes(q, "idle", NoHandler.user, Absent, Absent)
      /\ UNCHANGED <<card, stored, begun, abandoned>>
      /\ jobs' \in {jobs, jobs \cup {handler[q].upload}}
  BY Ends DEF AddOcrJob
<1>3. CardTypesOK' /\ PointsInv'
  BY <1>1, <1>2 DEF CardTypesOK, PointsInv, Becomes, HandlerRecord
<1>4. InHand(q) = {}  BY <1>1 DEF InHand
<1>5. CardInv' /\ ImagesKept'  BY <1>2, <1>4, EndingKeeps DEF SameImages
<1> QED  BY <1>3, <1>5

LEMMA FindDuplicateKeeps ==
  ASSUME Inv, NEW q \in Handlers, FindDuplicate(q)
  PROVE  Inv'
<1> USE DEF Inv
<1>1. /\ handler[q].at = "findDuplicate" /\ UNCHANGED <<card, stored, jobs, begun, abandoned>>
      /\ EndCard(q) \/ Proceed(q, "saveVerified")
  BY DEF FindDuplicate, CardAt
<1>2. InHand(q) = {}  BY <1>1 DEF InHand
<1>3. CASE EndCard(q)
  <2>1. Becomes(q, "idle", NoHandler.user, Absent, Absent)  BY <1>3, Ends
  <2>2. CardTypesOK' /\ PointsInv'
    BY <1>1, <2>1 DEF CardTypesOK, PointsInv, Becomes, HandlerRecord
  <2>3. CardInv' /\ ImagesKept'  BY <1>1, <1>2, <2>1, EndingKeeps DEF SameImages
  <2> QED  BY <2>2, <2>3
<1>4. CASE Proceed(q, "saveVerified")
  <2>1. Becomes(q, "saveVerified", handler[q].user, handler[q].seen.images, handler[q].upload)
    BY <1>4, Proceeds DEF CardSteps
  <2>2. CardTypesOK' /\ PointsInv'
    BY <1>1, <2>1 DEF CardTypesOK, PointsInv, Becomes, HandlerRecord
  <2>3. CardInv' /\ ImagesKept'
    BY <1>1, <1>2, <2>1, MovingKeeps DEF SameImages, Submitting, CardSteps
  <2> QED  BY <2>2, <2>3
<1> QED  BY <1>1, <1>3, <1>4

LEMMA AdminSavesKeep ==
  ASSUME Inv, NEW q \in Handlers,
         SaveVerified(q) \/ SaveRejected(q) \/ SaveReupload(q) \/ SaveOcr(q)
  PROVE  Inv'
<1> USE DEF Inv
<1> DEFINE seen == handler[q].seen
           u == handler[q].user
<1>1. seen \in Cards /\ u \in Holders /\ handler[q].number \in Numbers \cup {Absent}
  BY DEF CardTypesOK
<1>2. /\ Becomes(q, "idle", NoHandler.user, Absent, Absent)
      /\ UNCHANGED <<stored, jobs, begun, abandoned>>
  BY Ends DEF SaveVerified, SaveRejected, SaveReupload, SaveOcr
<1>3. PICK new \in Cards :
        /\ SaveEdit(q, new)
        /\ \/ new.images = seen.images /\ handler[q].at \in {"saveVerified", "saveOcr"}
           \/ new.images = Absent /\ handler[q].at \in {"saveRejected", "saveReupload"}
  <2>1. CASE SaveVerified(q)
    <3> DEFINE new == [seen EXCEPT !.status = "verified", !.number = handler[q].number]
    <3>1. new \in Cards /\ new.images = seen.images
      BY <1>1 DEF Cards, CardStatuses, ValidStatuses
    <3> QED  BY <2>1, <3>1 DEF SaveVerified, CardAt
  <2>2. CASE SaveRejected(q)
    <3> DEFINE new == [seen EXCEPT !.status = "rejected", !.images = Absent, !.ocr = Absent]
    <3>1. new \in Cards /\ new.images = Absent
      BY <1>1 DEF Cards, CardStatuses, ValidStatuses
    <3> QED  BY <2>2, <3>1 DEF SaveRejected, CardAt
  <2>3. CASE SaveReupload(q)
    <3> DEFINE new == [seen EXCEPT !.status = "reupload_requested", !.images = Absent]
    <3>1. new \in Cards /\ new.images = Absent
      BY <1>1 DEF Cards, CardStatuses, ValidStatuses
    <3> QED  BY <2>3, <3>1 DEF SaveReupload, CardAt
  <2>4. CASE SaveOcr(q)
    <3>1. PICK n \in Numbers \cup {Absent} : SaveEdit(q, [seen EXCEPT !.ocr = n])
      BY <2>4 DEF SaveOcr
    <3> DEFINE new == [seen EXCEPT !.ocr = n]
    <3>2. new \in Cards /\ new.images = seen.images  BY <1>1 DEF Cards
    <3> QED  BY <2>4, <3>1, <3>2 DEF SaveOcr, CardAt
  <2> QED  BY <2>1, <2>2, <2>3, <2>4
<1>4. /\ card' \in [Holders -> Cards]
      /\ \A v \in Holders \ {u} : card'[v] = card[v]
      /\ card'[u].images = IF new.images = seen.images THEN card[u].images ELSE new.images
  BY <1>3, Edits
<1>5. CardTypesOK' /\ PointsInv'
  BY <1>2, <1>4 DEF CardTypesOK, PointsInv, Becomes, HandlerRecord
<1>6. /\ handler[q].at \in {"saveVerified", "saveOcr"} => InHand(q) = {}
      /\ handler[q].at \in {"saveRejected", "saveReupload"} => InHand(q) = {seen.images}
  BY DEF InHand
<1>7. card'[u].images \in {Absent, card[u].images}  BY <1>3, <1>4
<1>8. \A i \in InHand(q) : i # Absent => i = seen.images /\ card'[u].images = Absent
  BY <1>3, <1>4, <1>6
<1>9. CardInv' /\ ImagesKept'  BY <1>2, <1>4, <1>7, <1>8, SavingKeeps
<1> QED  BY <1>5, <1>9

LEMMA BreakOffKeeps ==
  ASSUME Inv, NEW q \in Handlers, BreakOffCard(q)
  PROVE  Inv'
<1> USE DEF Inv
<1>1. /\ Becomes(q, "idle", NoHandler.user, Absent, Absent)
      /\ UNCHANGED <<card, stored, jobs, begun>>
      /\ abandoned' = abandoned \cup (InHand(q) \ {Absent})
  BY Ends DEF BreakOffCard
<1>2. InHand(q) \subseteq Uploads \cup {Absent}
  BY DEF InHand, CardTypesOK, Cards
<1>3. CardTypesOK' /\ PointsInv'
  BY <1>1, <1>2 DEF CardTypesOK, PointsInv, Becomes, HandlerRecord
<1>4. CardInv' /\ ImagesKept'  BY <1>1, EndingKeeps DEF SameImages
<1> QED  BY <1>3, <1>4

LEMMA OcrJobKeeps ==
  ASSUME Inv, NEW i \in Uploads, OcrJob(i)
  PROVE  Inv'
<1> USE DEF Inv
<1>1. UNCHANGED <<stored, handler, begun, abandoned>> /\ jobs' \subseteq jobs
  BY DEF OcrJob
<1>2. card' \in [Holders -> Cards] /\ SameImages
  <2> DEFINE u == OwnerOf[i]
             c == card[u]
  <2>1. u \in Holders /\ c \in Cards  BY DEF CardTypesOK
  <2>2. CASE UNCHANGED card  BY <2>2 DEF CardTypesOK, SameImages
  <2>3. CASE ~UNCHANGED card
    <3>1. PICK cardStatus \in {"pending_verification", "ocr_failed"} :
            card' = [card EXCEPT ![u].ocr = Absent, ![u].status = cardStatus]
      BY <2>3 DEF OcrJob
    <3>2. card' = [card EXCEPT ![u] = [c EXCEPT !.ocr = Absent, !.status = cardStatus]]
      BY <2>1, <3>1 DEF CardTypesOK, Cards
    <3>3. cardStatus \in CardStatuses  BY DEF CardStatuses
    <3> HIDE DEF u, c
    <3>4. /\ [c EXCEPT !.ocr = Absent, !.status = cardStatus] \in Cards
          /\ [c EXCEPT !.ocr = Absent, !.status = cardStatus].images = c.images
      BY <2>1, <3>3 DEF Cards
    <3> QED  BY <2>1, <3>2, <3>4 DEF CardTypesOK, SameImages, c
  <2> QED  BY <2>2, <2>3
<1>3. CardTypesOK' /\ PointsInv'  BY <1>1, <1>2 DEF CardTypesOK, PointsInv
<1>4. CardInv'
  BY <1>1, <1>2
     DEF CardInv, CardsOwned, HandlersOwned, UploadsOwned, UploadsStored, SameImages
<1>5. ImagesKept'  BY <1>1, <1>2 DEF ImagesKept, SameImages, InHand
<1> QED  BY <1>3, <1>4, <1>5

-----------------------------------------------------------------------------
LEMMA InitInv == IdentityInit => Inv
<1> SUFFICES ASSUME IdentityInit PROVE Inv
  OBVIOUS
<1>1. NoHandler \in HandlerRecord /\ NoHandler.at = "idle" /\ NoHandler.upload = Absent
      /\ NoHandler.seen.images = Absent /\ NoCard.images = Absent
  BY NoCardTyped DEF NoHandler, HandlerRecord, CardSteps, NoCard
<1>2. CardTypesOK
  BY <1>1, NoCardTyped DEF IdentityInit, CardTypesOK, HandlerRecord
<1>3. \A q \in Handlers : handler[q] = NoHandler  BY DEF IdentityInit
<1>4. \A u \in Holders : card[u].images = Absent  BY <1>1 DEF IdentityInit
<1>5. PointsInv /\ CardInv /\ ImagesKept
  BY <1>1, <1>3, <1>4 DEF PointsInv, CardInv, CardsOwned, HandlersOwned, UploadsOwned,
                          UploadsStored, Submitting, ImagesKept
<1> QED  BY <1>2, <1>5 DEF Inv

LEMMA NextInv == Inv /\ [IdentityNext]_identityVars => Inv'
<1> SUFFICES ASSUME Inv, [IdentityNext]_identityVars PROVE Inv'
  OBVIOUS
<1>1. CASE UNCHANGED identityVars
  BY <1>1 DEF identityVars, Inv, CardTypesOK, PointsInv, CardInv, CardsOwned, HandlersOwned,
              UploadsOwned, UploadsStored, ImagesKept, InHand
<1>2. ASSUME NEW i \in Uploads, OcrJob(i) PROVE Inv'  BY <1>2, OcrJobKeeps
<1>3. ASSUME NEW q \in Handlers, NEW i \in Uploads, SubmitCNIC(q, i) PROVE Inv'
  BY <1>3, SubmitKeeps
<1>4. ASSUME NEW q \in Handlers, NEW u \in Holders,
             \/ \E n \in Numbers : ApproveCNIC(q, u, n)
             \/ RejectCNIC(q, u) \/ RequestReupload(q, u) \/ RunOCRExtraction(q, u)
      PROVE Inv'
  BY <1>4, AdminBeginsKeeps
<1>5. ASSUME NEW q \in Handlers, UploadFront(q) PROVE Inv'  BY <1>5, UploadFrontKeeps
<1>6. ASSUME NEW q \in Handlers, UploadBack(q) PROVE Inv'  BY <1>6, UploadBackKeeps
<1>7. ASSUME NEW q \in Handlers, RollbackFront(q) PROVE Inv'  BY <1>7, RollbackFrontKeeps
<1>8. ASSUME NEW q \in Handlers, DeleteOld(q) \/ DeleteImages(q) PROVE Inv'
  BY <1>8, DeleteKeeps
<1>9. ASSUME NEW q \in Handlers, SaveSubmitted(q) PROVE Inv'  BY <1>9, SaveSubmittedKeeps
<1>10. ASSUME NEW q \in Handlers, RollbackSaved(q) PROVE Inv'  BY <1>10, RollbackSavedKeeps
<1>11. ASSUME NEW q \in Handlers, AddOcrJob(q) PROVE Inv'  BY <1>11, AddOcrJobKeeps
<1>12. ASSUME NEW q \in Handlers, FindDuplicate(q) PROVE Inv'  BY <1>12, FindDuplicateKeeps
<1>13. ASSUME NEW q \in Handlers,
              SaveVerified(q) \/ SaveRejected(q) \/ SaveReupload(q) \/ SaveOcr(q)
       PROVE Inv'
  BY <1>13, AdminSavesKeep
<1>14. ASSUME NEW q \in Handlers, BreakOffCard(q) PROVE Inv'  BY <1>14, BreakOffKeeps
<1> QED
  BY <1>1, <1>2, <1>3, <1>4, <1>5, <1>6, <1>7, <1>8, <1>9, <1>10, <1>11, <1>12, <1>13,
     <1>14 DEF IdentityNext, IdentityStep

\* Every reachable state of cards, requests and stored images is of its type.
THEOREM CardsTyped == IdentitySpec => []IdentityTypeOK
<1> DEFINE J == Inv /\ overlapped \in BOOLEAN
<1>1. IdentityInit => J  BY InitInv DEF IdentityInit
<1>2. J /\ [IdentityNext]_identityVars => J'
  BY NextInv DEF IdentityNext, identityVars
<1>3. J => IdentityTypeOK  BY DEF Inv, IdentityTypeOK
<1> QED  BY <1>1, <1>2, <1>3, PTL DEF IdentitySpec

\* The images a card refers to are stored, whatever submissions, decisions and
\* recognitions of the service overlap, unless a request is replacing them or
\* one broke off, or could not delete or save, while it did.
THEOREM ImagesAreKept == IdentitySpec => []ImagesKept
<1>1. Inv => ImagesKept  BY DEF Inv
<1> QED  BY <1>1, InitInv, NextInv, PTL DEF IdentitySpec
-----------------------------------------------------------------------------
(* Requests that come one after the other: SeenRight says what a request    *)
(* has read that still holds when it saves, StoredRight what is stored of   *)
(* the images it uploads and of those it replaces.  When there is one       *)
(* request, what a save drops from a document has been deleted before, and  *)
(* no number is saved but one that no other document has.                   *)
Replacing == {"deleteRejected", "saveRejected", "deleteReupload", "saveReupload"}

Gone(i) == i \in abandoned \cup {Absent} \/ ImagesOf(i) \cap stored = {}

SeenRight(q) ==
  LET r == handler[q] IN
  /\ r.at \in Submitting \cup Replacing => r.seen.images = card[r.user].images
  /\ r.at \in Submitting \cup {"findDuplicate", "saveVerified"} =>
       r.seen.number = card[r.user].number
  /\ r.at = "saveVerified" => \A v \in Holders \ {r.user} : card[v].number # r.number

StoredRight(q) ==
  LET r == handler[q] IN
  /\ r.at = "uploadFront" => ImagesOf(r.upload) \cap stored = {}
  /\ r.at \in {"uploadBack", "rollbackFront"} => <<r.upload, "back">> \notin stored
  /\ r.at \in {"saveSubmitted", "saveRejected", "saveReupload"} => Gone(r.seen.images)

NothingLeft(q) ==
  \A image \in stored :
    \/ image[1] \in abandoned \cup InHand(q)
    \/ \E u \in Holders : card[u].images = image[1]

StoredBegun == \A image \in stored : image[1] \in begun

TurnInv ==
  /\ \A q \in Handlers : SeenRight(q) /\ StoredRight(q)
  /\ StoredBegun /\ NoImageIsLeft /\ OneUserPerCard

\* Every request but q is at rest before the step and after it.
OthersRest(q) ==
  \A p \in Handlers \ {q} : handler[p].at = "idle" /\ handler'[p].at = "idle"

LEMMA TurnFrom ==
  ASSUME NEW q \in Handlers, OthersRest(q),
         SeenRight(q)', StoredRight(q)', NothingLeft(q)', StoredBegun', OneUserPerCard'
  PROVE  TurnInv'
<1>1. ASSUME NEW p \in Handlers PROVE SeenRight(p)' /\ StoredRight(p)'
  <2>1. CASE p = q  BY <2>1
  <2>2. CASE p # q
    <3>1. handler'[p].at = "idle"  BY <2>2 DEF OthersRest
    <3> QED  BY <3>1 DEF SeenRight, StoredRight, Submitting, Replacing
  <2> QED  BY <2>1, <2>2
<1>2. NoImageIsLeft'  BY DEF NothingLeft, NoImageIsLeft
<1> QED  BY <1>1, <1>2 DEF TurnInv

LEMMA NothingLeftYet ==
  ASSUME NEW q \in Handlers, OthersRest(q), NoImageIsLeft
  PROVE  NothingLeft(q)
<1>1. ASSUME NEW p \in Handlers, p # q PROVE InHand(p) = {}
  <2>1. handler[p].at = "idle"  BY <1>1 DEF OthersRest
  <2> QED  BY <2>1 DEF InHand
<1> QED  BY <1>1 DEF NothingLeft, NoImageIsLeft

(* A request begins with what the document says, and an upload is new.      *)
LEMMA BeginningInTurn ==
  ASSUME CardTypesOK, TurnInv, NEW q \in Handlers, OthersRest(q), NEW u \in Holders,
         NEW at \in CardSteps, NEW seen \in Cards,
         NEW upload \in Uploads \cup {Absent}, NEW number \in Numbers \cup {Absent},
         BeginCard(q, u, at, seen, upload, number),
         begun \subseteq begun', stored \subseteq Uploads \X Sides,
         at \in {"uploadFront"} \cup Replacing => seen.images = card[u].images,
         at \in {"uploadFront", "findDuplicate"} => seen.number = card[u].number,
         at \in Submitting => at = "uploadFront" /\ upload \notin begun,
         at \in {"saveRejected", "saveReupload"} => seen.images = Absent,
         at # "saveVerified"
  PROVE  TurnInv'
<1>1. /\ handler[q].at = "idle" /\ UNCHANGED <<card, stored, abandoned>>
      /\ handler'[q].at = at /\ handler'[q].user = u /\ handler'[q].seen = seen
      /\ handler'[q].upload = upload
  BY DEF BeginCard, CardTypesOK
<1>2. SeenRight(q)'  BY <1>1 DEF SeenRight, Submitting, Replacing
<1>3. StoredRight(q)'
  <2>1. at = "uploadFront" => ImagesOf(upload) \cap stored = {}
    BY DEF TurnInv, StoredBegun, ImagesOf, Submitting
  <2> QED  BY <1>1, <2>1 DEF StoredRight, Gone, ImagesOf, Submitting
<1>4. NothingLeft(q)'
  <2>1. InHand(q) = {} /\ NothingLeft(q)
    BY <1>1, NothingLeftYet DEF InHand, TurnInv
  <2> QED  BY <1>1, <2>1 DEF NothingLeft
<1>5. StoredBegun' /\ OneUserPerCard'
  BY <1>1 DEF TurnInv, StoredBegun, OneUserPerCard
<1> QED  BY <1>2, <1>3, <1>4, <1>5, TurnFrom

LEMMA SubmitInTurn ==
  ASSUME Inv, TurnInv, NEW q \in Handlers, OthersRest(q), NEW i \in Uploads, SubmitCNIC(q, i)
  PROVE  TurnInv'
<1> DEFINE u == OwnerOf[i]
           seen == [card[u] EXCEPT !.status = NoCard.status, !.ocr = Absent]
<1>1. /\ u \in Holders /\ seen \in Cards /\ seen.images = card[u].images
      /\ seen.number = card[u].number /\ "uploadFront" \in CardSteps
  BY NoCardTyped DEF Inv, CardTypesOK, Cards, CardSteps
<1>2. /\ BeginCard(q, u, "uploadFront", seen, i, Absent)
      /\ i \notin begun /\ begun' = begun \cup {i}
  BY DEF SubmitCNIC
<1>3. stored \subseteq Uploads \X Sides  BY DEF Inv, CardTypesOK
<1> HIDE DEF u, seen
<1> QED  BY <1>1, <1>2, <1>3, BeginningInTurn DEF Inv, Replacing

LEMMA AdminBeginsInTurn ==
  ASSUME Inv, TurnInv, NEW q \in Handlers, OthersRest(q), NEW u \in Holders,
         \/ \E n \in Numbers : ApproveCNIC(q, u, n)
         \/ RejectCNIC(q, u) \/ RequestReupload(q, u) \/ RunOCRExtraction(q, u)
  PROVE  TurnInv'
<1> DEFINE c == card[u]
           Begins2(at, seen, n) ==
             /\ BeginCard(q, u, at, seen, Absent, n)
             /\ at \in Replacing => seen.images = c.images
             /\ at = "findDuplicate" => seen.number = c.number
             /\ at \in {"saveRejected", "saveReupload"} => seen.images = Absent
             /\ at \notin Submitting \cup {"saveVerified"}
             /\ begun' = begun
<1>1. c \in Cards /\ stored \subseteq Uploads \X Sides  BY DEF Inv, CardTypesOK
<1>2. \E at \in CardSteps, seen \in Cards, n \in Numbers \cup {Absent} : Begins2(at, seen, n)
  <2>1. CASE \E n \in Numbers : ApproveCNIC(q, u, n)
    <3> DEFINE seen == [NoCard EXCEPT !.number = c.number]
    <3>1. seen \in Cards /\ seen.number = c.number
      BY <1>1, NoCardTyped DEF Cards, NoCard
    <3>2. PICK n \in Numbers : BeginCard(q, u, "findDuplicate", seen, Absent, n) /\ begun' = begun
      BY <2>1 DEF ApproveCNIC
    <3> HIDE DEF seen, c
    <3>3. Begins2("findDuplicate", seen, n)
      BY <3>1, <3>2 DEF Replacing, Submitting
    <3> QED  BY <3>1, <3>3 DEF CardSteps
  <2>2. CASE RejectCNIC(q, u)
    <3> DEFINE seen == [c EXCEPT !.number = Absent, !.today = 0]
               at == IF c.images = Absent THEN "saveRejected" ELSE "deleteRejected"
    <3>1. seen \in Cards /\ seen.images = c.images  BY <1>1 DEF Cards
    <3>2. BeginCard(q, u, at, seen, Absent, Absent) /\ begun' = begun
      BY <2>2 DEF RejectCNIC
    <3> HIDE DEF seen, c
    <3>3. Begins2(at, seen, Absent)  BY <3>1, <3>2 DEF Replacing, Submitting
    <3> QED  BY <3>1, <3>3 DEF CardSteps
  <2>3. CASE RequestReupload(q, u)
    <3> DEFINE seen == [c EXCEPT !.number = Absent, !.ocr = Absent, !.today = 0]
               at == IF c.images = Absent THEN "saveReupload" ELSE "deleteReupload"
    <3>1. seen \in Cards /\ seen.images = c.images  BY <1>1 DEF Cards
    <3>2. BeginCard(q, u, at, seen, Absent, Absent) /\ begun' = begun
      BY <2>3 DEF RequestReupload
    <3> HIDE DEF seen, c
    <3>3. Begins2(at, seen, Absent)  BY <3>1, <3>2 DEF Replacing, Submitting
    <3> QED  BY <3>1, <3>3 DEF CardSteps
  <2>4. CASE RunOCRExtraction(q, u)
    <3> DEFINE seen == [NoCard EXCEPT !.ocr = c.ocr]
    <3>1. seen \in Cards  BY <1>1, NoCardTyped DEF Cards, NoCard
    <3>2. BeginCard(q, u, "saveOcr", seen, Absent, Absent) /\ begun' = begun
      BY <2>4 DEF RunOCRExtraction
    <3> HIDE DEF seen, c
    <3>3. Begins2("saveOcr", seen, Absent)  BY <3>1, <3>2 DEF Replacing, Submitting
    <3> QED  BY <3>1, <3>3 DEF CardSteps
  <2> QED  BY <2>1, <2>2, <2>3, <2>4
<1>3. PICK at \in CardSteps, seen \in Cards, n \in Numbers \cup {Absent} : Begins2(at, seen, n)
  BY <1>2
<1> QED
  BY <1>1, <1>3, BeginningInTurn DEF Inv, Submitting

(* What a step of q keeps of the request and of the documents.              *)
LEMMA ProceedsWith ==
  ASSUME CardTypesOK, NEW q \in Handlers, NEW step \in CardSteps, Proceed(q, step)
  PROVE  /\ handler'[q].at = step /\ handler'[q].user = handler[q].user
         /\ handler'[q].seen = handler[q].seen /\ handler'[q].upload = handler[q].upload
         /\ handler'[q].number = handler[q].number
BY DEF Proceed, CardTypesOK

LEMMA EndsAtRest ==
  ASSUME CardTypesOK, NEW q \in Handlers, EndCard(q)
  PROVE  handler'[q].at = "idle" /\ InHand(q)' = {} /\ SeenRight(q)' /\ StoredRight(q)'
<1>1. handler'[q].at = "idle"  BY Ends DEF Becomes
<1> QED  BY <1>1 DEF InHand, SeenRight, StoredRight, Submitting, Replacing

(* A request ends without a save: what it leaves stored is in a document,   *)
(* or abandoned.                                                            *)
LEMMA EndingInTurn ==
  ASSUME CardTypesOK, TurnInv, NEW q \in Handlers, OthersRest(q), EndCard(q),
         UNCHANGED <<card, begun>>, stored' \subseteq stored, abandoned \subseteq abandoned',
         \A image \in stored' : image[1] \in InHand(q) =>
           image[1] \in abandoned' \/ \E u \in Holders : card[u].images = image[1]
  PROVE  TurnInv'
<1>1. InHand(q)' = {} /\ SeenRight(q)' /\ StoredRight(q)'  BY EndsAtRest
<1>2. NothingLeft(q)  BY NothingLeftYet DEF TurnInv
<1>3. NothingLeft(q)'  BY <1>2 DEF NothingLeft
<1>4. StoredBegun' /\ OneUserPerCard'  BY DEF TurnInv, StoredBegun, OneUserPerCard
<1> QED  BY <1>1, <1>3, <1>4, TurnFrom

(* A request goes on without a save: what it had in hand it still has, and  *)
(* what it adds to what is stored.                                          *)
LEMMA MovingInTurn ==
  ASSUME CardTypesOK, TurnInv, NEW q \in Handlers, OthersRest(q), NEW at \in CardSteps,
         Proceed(q, at), UNCHANGED <<card, begun>>, abandoned \subseteq abandoned',
         \A image \in stored' \ stored : image[1] \in begun /\ image[1] \in InHand(q)',
         InHand(q) \subseteq InHand(q)' \cup abandoned',
         at \in Submitting \cup Replacing => handler[q].at \in Submitting \cup Replacing,
         at \in Submitting \cup {"findDuplicate", "saveVerified"} =>
           handler[q].at \in Submitting \cup {"findDuplicate", "saveVerified"},
         at = "saveVerified" =>
           \A v \in Holders \ {handler[q].user} : card[v].number # handler[q].number,
         at # "uploadFront",
         at \in {"uploadBack", "rollbackFront"} => <<handler[q].upload, "back">> \notin stored',
         at \in {"saveSubmitted", "saveRejected", "saveReupload"} => Gone(handler[q].seen.images)'
  PROVE  TurnInv'
<1>1. /\ handler'[q].at = at /\ handler'[q].user = handler[q].user
      /\ handler'[q].seen = handler[q].seen /\ handler'[q].upload = handler[q].upload
      /\ handler'[q].number = handler[q].number
  BY ProceedsWith
<1>2. SeenRight(q) /\ NothingLeft(q)  BY NothingLeftYet DEF TurnInv
<1>3. SeenRight(q)'  BY <1>1, <1>2 DEF SeenRight
<1>4. StoredRight(q)'  BY <1>1 DEF StoredRight, Gone
<1>5. NothingLeft(q)'  BY <1>2 DEF NothingLeft
<1>6. StoredBegun' /\ OneUserPerCard'  BY DEF TurnInv, StoredBegun, OneUserPerCard
<1> QED  BY <1>3, <1>4, <1>5, <1>6, TurnFrom

LEMMA UploadFrontInTurn ==
  ASSUME Inv, TurnInv, NEW q \in Handlers, OthersRest(q), UploadFront(q)
  PROVE  TurnInv'
<1> DEFINE i == handler[q].upload
<1>1. /\ handler[q].at = "uploadFront" /\ UNCHANGED <<card, jobs, begun, abandoned>>
  BY DEF UploadFront, CardAt
<1>2. /\ InHand(q) = {} /\ i \in begun /\ ImagesOf(i) \cap stored = {}
  BY <1>1 DEF InHand, Inv, CardInv, UploadsOwned, HandlersOwned, Submitting, TurnInv, StoredRight
<1>3. CASE stored' = stored \cup {<<i, "front">>} /\ Proceed(q, "uploadBack")
  <2>1. InHand(q)' = {i}
    BY <1>3, ProceedsWith DEF InHand, CardSteps, Inv
  <2>2. <<i, "back">> \notin stored'
    BY <1>2, <1>3 DEF ImagesOf, Sides
  <2> QED
    BY <1>1, <1>2, <1>3, <2>1, <2>2, MovingInTurn DEF Inv, CardSteps, Submitting, Replacing
<1>4. CASE UNCHANGED stored /\ EndCard(q)
  BY <1>1, <1>2, <1>4, EndingInTurn DEF Inv
<1> QED  BY <1>3, <1>4 DEF UploadFront

LEMMA UploadBackInTurn ==
  ASSUME Inv, TurnInv, NEW q \in Handlers, OthersRest(q), UploadBack(q)
  PROVE  TurnInv'
<1> DEFINE i == handler[q].upload
           old == handler[q].seen.images
<1>1. handler[q].at = "uploadBack" /\ UNCHANGED <<card, jobs, begun, abandoned>>
  BY DEF UploadBack, CardAt
<1>2. InHand(q) = {i} /\ i \in begun /\ <<i, "back">> \notin stored
  BY <1>1 DEF InHand, Inv, CardInv, UploadsOwned, HandlersOwned, Submitting, TurnInv, StoredRight
<1>3. CASE stored' = stored \cup {<<i, "back">>} /\ old = Absent /\ Proceed(q, "saveSubmitted")
  <2>1. i \in InHand(q)'
    BY <1>3, ProceedsWith DEF InHand, CardSteps, Inv
  <2>2. Gone(old)'
    <3>1. handler'[q].seen.images = Absent  BY <1>3, ProceedsWith DEF CardSteps, Inv
    <3> QED  BY <3>1 DEF Gone
  <2> QED
    BY <1>1, <1>2, <1>3, <2>1, <2>2, MovingInTurn DEF Inv, CardSteps, Submitting, Replacing
<1>4. CASE stored' = stored \cup {<<i, "back">>} /\ Proceed(q, "deleteOld")
  <2>1. InHand(q)' = {i}
    BY <1>4, ProceedsWith DEF InHand, CardSteps, Inv
  <2> QED
    BY <1>1, <1>2, <1>4, <2>1, MovingInTurn DEF Inv, CardSteps, Submitting, Replacing
<1>5. CASE UNCHANGED stored /\ Proceed(q, "rollbackFront")
  <2>1. InHand(q)' = {i}
    BY <1>5, ProceedsWith DEF InHand, CardSteps, Inv
  <2> QED
    BY <1>1, <1>2, <1>5, <2>1, MovingInTurn DEF Inv, CardSteps, Submitting, Replacing
<1> QED  BY <1>3, <1>4, <1>5 DEF UploadBack

LEMMA RollbackFrontInTurn ==
  ASSUME Inv, TurnInv, NEW q \in Handlers, OthersRest(q), RollbackFront(q)
  PROVE  TurnInv'
<1> DEFINE i == handler[q].upload
<1>1. /\ handler[q].at = "rollbackFront" /\ EndCard(q) /\ UNCHANGED <<card, jobs, begun>>
      /\ DeleteStored(i, {<<i, "front">>})
  BY DEF RollbackFront, CardAt
<1>2. InHand(q) = {i} /\ <<i, "back">> \notin stored
  BY <1>1 DEF InHand, TurnInv, StoredRight
<1>3. stored \subseteq Uploads \X Sides  BY DEF Inv, CardTypesOK
<1>4. \A image \in stored' : image[1] = i => image[1] \in abandoned'
  <2> SUFFICES ASSUME NEW image \in stored', image[1] = i, i \notin abandoned' PROVE FALSE
    OBVIOUS
  <2>1. stored' = stored \ {<<i, "front">>}  BY <1>1 DEF DeleteStored
  <2>2. image = <<i, "front">> \/ image = <<i, "back">>  BY <1>3, <2>1 DEF Sides
  <2> QED  BY <1>2, <2>1, <2>2
<1>5. stored' \subseteq stored /\ abandoned \subseteq abandoned'  BY <1>1 DEF DeleteStored
<1> QED  BY <1>1, <1>2, <1>4, <1>5, EndingInTurn DEF Inv

LEMMA DeleteInTurn ==
  ASSUME Inv, TurnInv, NEW q \in Handlers, OthersRest(q), DeleteOld(q) \/ DeleteImages(q)
  PROVE  TurnInv'
<1> DEFINE i == handler[q].upload
           old == handler[q].seen.images
<1>1. PICK at \in {"saveSubmitted", "saveRejected", "saveReupload"} :
        /\ Proceed(q, at)
        /\ at = "saveSubmitted" => handler[q].at = "deleteOld"
        /\ at # "saveSubmitted" => handler[q].at \in {"deleteRejected", "deleteReupload"}
  BY DEF DeleteOld, DeleteImages, CardAt
<1>2. DeleteStored(old, ImagesOf(old)) /\ UNCHANGED <<card, jobs, begun>>
  BY DEF DeleteOld, DeleteImages
<1>3. at \in CardSteps  BY <1>1 DEF CardSteps
<1>4. /\ handler'[q].at = at /\ handler'[q].seen = handler[q].seen
      /\ handler'[q].upload = i
  BY <1>1, <1>3, ProceedsWith DEF Inv
<1>5. /\ at = "saveSubmitted" => InHand(q) = {i} /\ InHand(q)' = {i, old}
      /\ at # "saveSubmitted" => InHand(q) = {}
  BY <1>1, <1>4 DEF InHand
<1>6. Gone(handler[q].seen.images)'
  BY <1>2, <1>4 DEF Gone, DeleteStored, ImagesOf
<1>7. stored' \subseteq stored /\ abandoned \subseteq abandoned'  BY <1>2 DEF DeleteStored
<1> QED
  BY <1>1, <1>2, <1>3, <1>5, <1>6, <1>7, MovingInTurn DEF Inv, Submitting, Replacing

LEMMA RollbackSavedInTurn ==
  ASSUME Inv, TurnInv, NEW q \in Handlers, OthersRest(q), RollbackSaved(q)
  PROVE  TurnInv'
<1> DEFINE i == handler[q].upload
           old == handler[q].seen.images
<1>1. /\ handler[q].at = "rollbackSaved" /\ EndCard(q) /\ UNCHANGED <<card, jobs, begun>>
      /\ DeleteStored(i, ImagesOf(i))
  BY DEF RollbackSaved, CardAt
<1>2. InHand(q) = {i, old} /\ old \in abandoned \cup {Absent}
  BY <1>1 DEF InHand, Inv, CardInv, UploadsStored
<1>3. stored \subseteq Uploads \X Sides  BY DEF Inv, CardTypesOK
<1>4. stored' \subseteq stored /\ abandoned \subseteq abandoned'  BY <1>1 DEF DeleteStored
<1>5. \A image \in stored' : image[1] \in {i, old} => image[1] \in abandoned'
  <2> SUFFICES ASSUME NEW image \in stored', image[1] \in {i, old} PROVE image[1] \in abandoned'
    OBVIOUS
  <2>1. image[1] \in Uploads /\ image \in ImagesOf(image[1])
    BY <1>3, <1>4 DEF ImagesOf
  <2>2. CASE image[1] = old  BY <1>2, <1>4, <2>1, <2>2
  <2>3. CASE image[1] = i  BY <1>1, <2>1, <2>3 DEF DeleteStored
  <2> QED  BY <2>2, <2>3
<1> QED  BY <1>1, <1>2, <1>4, <1>5, EndingInTurn DEF Inv

LEMMA RestingInTurn ==
  ASSUME Inv, TurnInv, NEW q \in Handlers, OthersRest(q), AddOcrJob(q) \/ FindDuplicate(q)
  PROVE  TurnInv'
<1>1. /\ handler[q].at \in {"addJob", "findDuplicate"} /\ UNCHANGED <<card, stored, begun, abandoned>>
      /\ \/ EndCard(q)
         \/ /\ handler[q].at = "findDuplicate" /\ Proceed(q, "saveVerified")
            /\ \A v \in Holders \ {handler[q].user} : card[v].number # handler[q].number
  BY DEF AddOcrJob, FindDuplicate, CardAt
<1>2. InHand(q) = {}  BY <1>1 DEF InHand
<1>3. CASE EndCard(q)  BY <1>1, <1>2, <1>3, EndingInTurn DEF Inv
<1>4. CASE /\ handler[q].at = "findDuplicate" /\ Proceed(q, "saveVerified")
           /\ \A v \in Holders \ {handler[q].user} : card[v].number # handler[q].number
  BY <1>1, <1>2, <1>4, MovingInTurn DEF Inv, CardSteps, Submitting, Replacing
<1> QED  BY <1>1, <1>3, <1>4

LEMMA BreakOffInTurn ==
  ASSUME Inv, TurnInv, NEW q \in Handlers, OthersRest(q), BreakOffCard(q)
  PROVE  TurnInv'
<1>1. /\ EndCard(q) /\ UNCHANGED <<card, stored, begun>>
      /\ abandoned' = abandoned \cup (InHand(q) \ {Absent})
  BY DEF BreakOffCard
<1>2. stored \subseteq Uploads \X Sides  BY DEF Inv, CardTypesOK
<1>3. \A image \in stored : image[1] # Absent  BY <1>2
<1> QED  BY <1>1, <1>3, EndingInTurn DEF Inv

-----------------------------------------------------------------------------
(* The steps that change a document: what its images were is gone, and no   *)
(* other document has the number it gets.                                   *)
LEMMA SavedInTurn ==
  ASSUME TurnInv, NEW q \in Handlers, OthersRest(q), NEW u \in Holders,
         NothingLeft(q), SeenRight(q)', StoredRight(q)', UNCHANGED <<stored, begun>>,
         abandoned \subseteq abandoned',
         \A v \in Holders \ {u} : card'[v] = card[v],
         \A image \in stored :
           image[1] \in InHand(q) \cup {card[u].images} =>
             image[1] \in abandoned' \cup InHand(q)' \cup {card'[u].images},
         \/ card'[u].number = card[u].number
         \/ \A v \in Holders \ {u} : card[v].number # card'[u].number
  PROVE  TurnInv'
<1>1. NothingLeft(q)'
  <2> SUFFICES ASSUME NEW image \in stored
               PROVE  \/ image[1] \in abandoned' \cup InHand(q)'
                      \/ \E v \in Holders : card'[v].images = image[1]
    BY DEF NothingLeft
  <2>1. CASE image[1] \in InHand(q) \cup {card[u].images}  BY <2>1
  <2>2. CASE image[1] \notin InHand(q) \cup {card[u].images}
    BY <2>2 DEF NothingLeft
  <2> QED  BY <2>1, <2>2
<1>2. OneUserPerCard'  BY DEF TurnInv, OneUserPerCard
<1>3. StoredBegun'  BY DEF TurnInv, StoredBegun
<1> QED  BY <1>1, <1>2, <1>3, TurnFrom

LEMMA SaveSubmittedInTurn ==
  ASSUME Inv, TurnInv, NEW q \in Handlers, OthersRest(q), SaveSubmitted(q)
  PROVE  TurnInv'
<1> DEFINE i == handler[q].upload
           old == handler[q].seen.images
           u == handler[q].user
           new == [handler[q].seen EXCEPT !.status = "pending", !.images = i,
                                          !.ocr = Absent, !.today = @ + 1]
<1>1. /\ handler[q].at = "saveSubmitted" /\ UNCHANGED <<stored, jobs, begun>>
      /\ u \in Holders /\ handler[q].seen \in Cards /\ stored \subseteq Uploads \X Sides
  BY DEF SaveSubmitted, CardAt, Inv, CardTypesOK
<1>2. /\ InHand(q) = {i, old} /\ old = card[u].images
      /\ handler[q].seen.number = card[u].number /\ Gone(old)
  BY <1>1 DEF InHand, TurnInv, SeenRight, StoredRight, Submitting
<1>3. NothingLeft(q)  BY NothingLeftYet DEF TurnInv
<1>4. \A image \in stored : image[1] = old => image[1] \in abandoned
  BY <1>1, <1>2 DEF Gone, ImagesOf
<1>5. CASE SaveCard(q, new) /\ Proceed(q, "addJob") /\ UNCHANGED abandoned
  <2>1. new.images = i /\ new.number = handler[q].seen.number
    BY <1>1 DEF Cards
  <2>2. card' = [card EXCEPT ![u] = new]  BY <1>5 DEF SaveCard
  <2> HIDE DEF new
  <2>3. /\ card'[u].images = i /\ card'[u].number = card[u].number
        /\ \A v \in Holders \ {u} : card'[v] = card[v]
    BY <1>1, <1>2, <2>1, <2>2 DEF Inv, CardTypesOK
  <2>4. SeenRight(q)' /\ StoredRight(q)'
    <3>1. handler'[q].at = "addJob"  BY <1>5, ProceedsWith DEF Inv, CardSteps
    <3> QED  BY <3>1 DEF SeenRight, StoredRight, Submitting, Replacing
  <2>5. \A image \in stored :
          image[1] \in InHand(q) \cup {card[u].images} =>
            image[1] \in abandoned' \cup InHand(q)' \cup {card'[u].images}
    BY <1>2, <1>4, <1>5, <2>3
  <2> HIDE DEF i, old, u
  <2>6. UNCHANGED <<stored, begun>> /\ abandoned \subseteq abandoned'  BY <1>1, <1>5
  <2> QED  BY <1>1, <1>3, <2>3, <2>4, <2>5, <2>6, SavedInTurn
<1>6. CASE /\ Proceed(q, "rollbackSaved") /\ UNCHANGED card
           /\ abandoned' = abandoned \cup ({old} \ {Absent})
  <2>1. InHand(q)' = {i, old}  BY <1>6, ProceedsWith DEF InHand, CardSteps, Inv
  <2> QED
    BY <1>1, <1>2, <1>6, <2>1, MovingInTurn DEF Inv, CardSteps, Submitting, Replacing
<1> QED  BY <1>5, <1>6 DEF SaveSubmitted

LEMMA AdminSavesInTurn ==
  ASSUME Inv, TurnInv, NEW q \in Handlers, OthersRest(q),
         SaveVerified(q) \/ SaveRejected(q) \/ SaveReupload(q) \/ SaveOcr(q)
  PROVE  TurnInv'
<1> DEFINE seen == handler[q].seen
           u == handler[q].user
           n == handler[q].number
           Saves(new) ==
             /\ SaveEdit(q, new)
             /\ \/ /\ new.images = seen.images /\ handler[q].at \in {"saveVerified", "saveOcr"}
                \/ /\ new.images = Absent /\ handler[q].at \in {"saveRejected", "saveReupload"}
             /\ \/ new.number = seen.number
                \/ new.number = n /\ handler[q].at = "saveVerified"
<1>1. seen \in Cards /\ u \in Holders /\ n \in Numbers \cup {Absent}
      /\ stored \subseteq Uploads \X Sides
  BY DEF Inv, CardTypesOK
<1>2. EndCard(q) /\ UNCHANGED <<stored, jobs, begun, abandoned>>
  BY DEF SaveVerified, SaveRejected, SaveReupload, SaveOcr
<1>3. PICK new \in Cards : Saves(new)
  <2>1. CASE SaveVerified(q)
    <3> DEFINE new == [seen EXCEPT !.status = "verified", !.number = n]
    <3>1. new \in Cards /\ new.images = seen.images /\ new.number = n
      BY <1>1 DEF Cards, CardStatuses, ValidStatuses
    <3> QED  BY <2>1, <3>1 DEF SaveVerified, CardAt
  <2>2. CASE SaveRejected(q)
    <3> DEFINE new == [seen EXCEPT !.status = "rejected", !.images = Absent, !.ocr = Absent]
    <3>1. new \in Cards /\ new.images = Absent /\ new.number = seen.number
      BY <1>1 DEF Cards, CardStatuses, ValidStatuses
    <3> QED  BY <2>2, <3>1 DEF SaveRejected, CardAt
  <2>3. CASE SaveReupload(q)
    <3> DEFINE new == [seen EXCEPT !.status = "reupload_requested", !.images = Absent]
    <3>1. new \in Cards /\ new.images = Absent /\ new.number = seen.number
      BY <1>1 DEF Cards, CardStatuses, ValidStatuses
    <3> QED  BY <2>3, <3>1 DEF SaveReupload, CardAt
  <2>4. CASE SaveOcr(q)
    <3>1. PICK m \in Numbers \cup {Absent} : SaveEdit(q, [seen EXCEPT !.ocr = m])
      BY <2>4 DEF SaveOcr
    <3> DEFINE new == [seen EXCEPT !.ocr = m]
    <3>2. new \in Cards /\ new.images = seen.images /\ new.number = seen.number
      BY <1>1 DEF Cards
    <3> QED  BY <2>4, <3>1, <3>2 DEF SaveOcr, CardAt
  <2> QED  BY <2>1, <2>2, <2>3, <2>4
<1>4. /\ \A v \in Holders \ {u} : card'[v] = card[v]
      /\ card'[u].images = IF new.images = seen.images THEN card[u].images ELSE new.images
      /\ card'[u].number = IF new.number = seen.number THEN card[u].number ELSE new.number
  BY <1>3, Edits DEF Inv
<1>5. SeenRight(q)' /\ StoredRight(q)'  BY <1>2, EndsAtRest DEF Inv
<1>6. NothingLeft(q)  BY NothingLeftYet DEF TurnInv
<1>7. \/ card'[u].number = card[u].number
      \/ \A v \in Holders \ {u} : card[v].number # card'[u].number
  BY <1>3, <1>4 DEF TurnInv, SeenRight
<1>8. \A image \in stored :
        image[1] \in InHand(q) \cup {card[u].images} =>
          image[1] \in abandoned \cup {card'[u].images}
  <2>1. CASE handler[q].at \in {"saveVerified", "saveOcr"}
    <3>1. InHand(q) = {}  BY <2>1 DEF InHand
    <3> QED  BY <1>3, <1>4, <2>1, <3>1
  <2>2. CASE handler[q].at \in {"saveRejected", "saveReupload"}
    <3>1. InHand(q) = {seen.images}  BY <2>2 DEF InHand
    <3>2. seen.images = card[u].images /\ Gone(seen.images)
      BY <2>2 DEF TurnInv, SeenRight, StoredRight, Replacing
    <3>3. \A image \in stored : image[1] = seen.images => image[1] \in abandoned
      BY <1>1, <3>2 DEF Gone, ImagesOf
    <3> QED  BY <3>1, <3>2, <3>3
  <2> QED  BY <1>3, <2>1, <2>2
<1> HIDE DEF seen, u, n
<1> QED  BY <1>1, <1>2, <1>4, <1>5, <1>6, <1>7, <1>8, SavedInTurn

(* The recognition's job changes neither images nor number.                 *)
LEMMA OcrJobInTurn ==
  ASSUME Inv, TurnInv, NEW i \in Uploads, OcrJob(i)
  PROVE  TurnInv'
<1>1. UNCHANGED <<stored, handler, begun, abandoned>>  BY DEF OcrJob
<1>2. \A u \in Holders : card'[u].images = card[u].images /\ card'[u].number = card[u].number
  <2> DEFINE u == OwnerOf[i]
             c == card[u]
  <2>1. u \in Holders /\ c \in Cards  BY DEF Inv, CardTypesOK
  <2>2. CASE UNCHANGED card  BY <2>2
  <2>3. CASE ~UNCHANGED card
    <3>1. PICK cardStatus \in {"pending_verification", "ocr_failed"} :
            card' = [card EXCEPT ![u].ocr = Absent, ![u].status = cardStatus]
      BY <2>3 DEF OcrJob
    <3> DEFINE new == [c EXCEPT !.ocr = Absent, !.status = cardStatus]
    <3>2. card' = [card EXCEPT ![u] = new]
      BY <2>1, <3>1 DEF Inv, CardTypesOK, Cards
    <3>3. new.images = c.images /\ new.number = c.number  BY <2>1 DEF Cards
    <3> HIDE DEF new, u
    <3> QED  BY <2>1, <3>2, <3>3 DEF Inv, CardTypesOK
  <2> QED  BY <2>2, <2>3
<1>3. \A q \in Handlers : handler[q].user \in Holders  BY DEF Inv, CardTypesOK
<1>4. \A q \in Handlers : SeenRight(q)' /\ StoredRight(q)'
  BY <1>1, <1>2, <1>3 DEF TurnInv, SeenRight, StoredRight, Gone
<1>5. StoredBegun'  BY <1>1 DEF TurnInv, StoredBegun
<1>6. NoImageIsLeft'
  <2>1. \A q \in Handlers : InHand(q)' = InHand(q)  BY <1>1 DEF InHand
  <2> QED  BY <1>1, <1>2, <2>1 DEF TurnInv, NoImageIsLeft
<1>7. OneUserPerCard'  BY <1>2 DEF TurnInv, OneUserPerCard
<1> QED  BY <1>4, <1>5, <1>6, <1>7 DEF TurnInv

-----------------------------------------------------------------------------
LEMMA TurnInvInit == IdentityInit => TurnInv
<1> SUFFICES ASSUME IdentityInit PROVE TurnInv
  OBVIOUS
<1>1. \A q \in Handlers : handler[q].at = "idle"  BY DEF IdentityInit, NoHandler
<1>2. \A u \in Holders : card[u].number = Absent  BY DEF IdentityInit, NoCard
<1>3. stored = {}  BY DEF IdentityInit
<1>4. \A q \in Handlers : SeenRight(q) /\ StoredRight(q)
  BY <1>1 DEF SeenRight, StoredRight, Submitting, Replacing
<1> QED
  BY <1>2, <1>3, <1>4 DEF TurnInv, StoredBegun, NoImageIsLeft, OneUserPerCard

\* Whoever takes a step is in flight before it or after it.
LEMMA OthersAreAtRest ==
  ASSUME CardTypesOK, NEW q \in Handlers, ~Overlap, ~Overlap',
         handler[q].at # "idle" \/ handler'[q].at # "idle",
         \A p \in Handlers \ {q} : handler'[p] = handler[p]
  PROVE  OthersRest(q)
BY DEF Overlap, OthersRest

LEMMA BeginningIsTaken ==
  ASSUME CardTypesOK, NEW q \in Handlers, NEW u, NEW step, NEW seen, NEW upload, NEW number,
         BeginCard(q, u, step, seen, upload, number)
  PROVE  /\ handler'[q].at = step
         /\ \A p \in Handlers \ {q} : handler'[p] = handler[p]
BY DEF BeginCard, CardTypesOK

LEMMA StepsAreTaken ==
  ASSUME CardTypesOK, NEW q \in Handlers,
         \/ \E i \in Uploads : SubmitCNIC(q, i)
         \/ \E u \in Holders : \/ \E n \in Numbers : ApproveCNIC(q, u, n)
                               \/ RejectCNIC(q, u) \/ RequestReupload(q, u)
                               \/ RunOCRExtraction(q, u)
         \/ UploadFront(q) \/ UploadBack(q) \/ RollbackFront(q) \/ DeleteOld(q)
         \/ SaveSubmitted(q) \/ RollbackSaved(q) \/ AddOcrJob(q)
         \/ FindDuplicate(q) \/ SaveVerified(q)
         \/ DeleteImages(q) \/ SaveRejected(q) \/ SaveReupload(q) \/ SaveOcr(q)
         \/ BreakOffCard(q)
  PROVE  /\ handler[q].at # "idle" \/ handler'[q].at # "idle"
         /\ \A p \in Handlers \ {q} : handler'[p] = handler[p]
<1>1. CASE \E i \in Uploads : SubmitCNIC(q, i)
  <2>1. PICK i \in Uploads : SubmitCNIC(q, i)  BY <1>1
  <2> DEFINE seen == [card[OwnerOf[i]] EXCEPT !.status = NoCard.status, !.ocr = Absent]
  <2>2. BeginCard(q, OwnerOf[i], "uploadFront", seen, i, Absent)  BY <2>1 DEF SubmitCNIC
  <2> HIDE DEF seen
  <2> QED  BY <2>2, BeginningIsTaken
<1>2. ASSUME NEW u \in Holders,
             \/ \E n \in Numbers : ApproveCNIC(q, u, n)
             \/ RejectCNIC(q, u) \/ RequestReupload(q, u) \/ RunOCRExtraction(q, u)
      PROVE  /\ handler'[q].at # "idle"
             /\ \A p \in Handlers \ {q} : handler'[p] = handler[p]
  <2>1. CASE \E n \in Numbers : ApproveCNIC(q, u, n)
    BY <2>1, BeginningIsTaken DEF ApproveCNIC
  <2>2. CASE RejectCNIC(q, u)
    <3>1. handler'[q].at \in {"saveRejected", "deleteRejected"}
      BY <2>2, BeginningIsTaken DEF RejectCNIC
    <3> QED  BY <2>2, <3>1, BeginningIsTaken DEF RejectCNIC
  <2>3. CASE RequestReupload(q, u)
    <3>1. handler'[q].at \in {"saveReupload", "deleteReupload"}
      BY <2>3, BeginningIsTaken DEF RequestReupload
    <3> QED  BY <2>3, <3>1, BeginningIsTaken DEF RequestReupload
  <2>4. CASE RunOCRExtraction(q, u)
    BY <2>4, BeginningIsTaken DEF RunOCRExtraction
  <2> QED  BY <1>2, <2>1, <2>2, <2>3, <2>4
<1>3. CASE \/ UploadFront(q) \/ UploadBack(q) \/ RollbackFront(q) \/ DeleteOld(q)
           \/ SaveSubmitted(q) \/ RollbackSaved(q) \/ AddOcrJob(q)
           \/ FindDuplicate(q) \/ SaveVerified(q)
           \/ DeleteImages(q) \/ SaveRejected(q) \/ SaveReupload(q) \/ SaveOcr(q)
           \/ BreakOffCard(q)
  <2>1. handler[q].at # "idle"
    BY <1>3 DEF UploadFront, UploadBack, RollbackFront, DeleteOld, SaveSubmitted, RollbackSaved,
       AddOcrJob, FindDuplicate, SaveVerified, DeleteImages, SaveRejected, SaveReupload, SaveOcr,
       BreakOffCard, CardAt
  <2>2. EndCard(q) \/ \E at \in CardSteps : Proceed(q, at)
    <3>1. CASE \/ RollbackFront(q) \/ RollbackSaved(q) \/ AddOcrJob(q) \/ SaveVerified(q)
               \/ SaveRejected(q) \/ SaveReupload(q) \/ SaveOcr(q) \/ BreakOffCard(q)
      BY <3>1 DEF RollbackFront, RollbackSaved, AddOcrJob, SaveVerified, SaveRejected,
         SaveReupload, SaveOcr, BreakOffCard
    <3>2. CASE \/ UploadFront(q) \/ UploadBack(q) \/ DeleteOld(q) \/ SaveSubmitted(q)
               \/ FindDuplicate(q) \/ DeleteImages(q)
      BY <3>2 DEF UploadFront, UploadBack, DeleteOld, SaveSubmitted, FindDuplicate,
         DeleteImages, CardSteps
    <3> QED  BY <1>3, <3>1, <3>2
  <2>3. CASE EndCard(q)  BY <2>1, <2>3 DEF EndCard, CardTypesOK
  <2>4. CASE \E at \in CardSteps : Proceed(q, at)
    <3>1. PICK at \in CardSteps : Proceed(q, at)  BY <2>4
    <3> QED  BY <2>1, <3>1 DEF Proceed, CardTypesOK
  <2> QED  BY <2>2, <2>3, <2>4
<1> QED  BY <1>1, <1>2, <1>3

LEMMA StepInTurn ==
  ASSUME Inv, TurnInv, IdentityStep, ~Overlap, ~Overlap'
  PROVE  TurnInv'
<1>1. CASE \E i \in Uploads : OcrJob(i)  BY <1>1, OcrJobInTurn
<1>2. ASSUME NEW q \in Handlers,
             \/ \E i \in Uploads : SubmitCNIC(q, i)
             \/ \E u \in Holders : \/ \E n \in Numbers : ApproveCNIC(q, u, n)
                                   \/ RejectCNIC(q, u) \/ RequestReupload(q, u)
                                   \/ RunOCRExtraction(q, u)
             \/ UploadFront(q) \/ UploadBack(q) \/ RollbackFront(q) \/ DeleteOld(q)
             \/ SaveSubmitted(q) \/ RollbackSaved(q) \/ AddOcrJob(q)
             \/ FindDuplicate(q) \/ SaveVerified(q)
             \/ DeleteImages(q) \/ SaveRejected(q) \/ SaveReupload(q) \/ SaveOcr(q)
             \/ BreakOffCard(q)
      PROVE  TurnInv'
  <2>1. OthersRest(q)  BY <1>2, StepsAreTaken, OthersAreAtRest DEF Inv
  <2> QED
    BY <1>2, <2>1, SubmitInTurn, AdminBeginsInTurn, UploadFrontInTurn, UploadBackInTurn,
       RollbackFrontInTurn, DeleteInTurn, SaveSubmittedInTurn, RollbackSavedInTurn,
       RestingInTurn, AdminSavesInTurn, BreakOffInTurn
<1> QED  BY <1>1, <1>2 DEF IdentityStep

\* Requests overlap from the step on that begins the second.
OverlapKnown == overlapped \in BOOLEAN /\ (~overlapped => ~Overlap /\ TurnInv)

LEMMA OverlapKnownInit == IdentityInit => OverlapKnown
<1> SUFFICES ASSUME IdentityInit PROVE OverlapKnown
  OBVIOUS
<1>1. ~Overlap  BY DEF IdentityInit, NoHandler, Overlap
<1> QED  BY <1>1, TurnInvInit DEF IdentityInit, OverlapKnown

LEMMA OverlapKnownNext ==
  Inv /\ OverlapKnown /\ [IdentityNext]_identityVars => OverlapKnown'
<1> SUFFICES ASSUME Inv, OverlapKnown, [IdentityNext]_identityVars PROVE OverlapKnown'
  OBVIOUS
<1>1. CASE IdentityNext
  <2>1. IdentityStep /\ overlapped' = (overlapped \/ Overlap')  BY <1>1 DEF IdentityNext
  <2>2. overlapped' \in BOOLEAN  BY <2>1
  <2>3. ASSUME ~overlapped' PROVE ~Overlap' /\ TurnInv'
    BY <2>1, <2>3, StepInTurn DEF OverlapKnown
  <2> QED  BY <2>2, <2>3 DEF OverlapKnown
<1>2. CASE UNCHANGED identityVars
  <2>1. Overlap' = Overlap  BY <1>2 DEF identityVars, Overlap
  <2>2. TurnInv => TurnInv'
    BY <1>2 DEF identityVars, TurnInv, SeenRight, StoredRight, Gone, StoredBegun,
                NoImageIsLeft, OneUserPerCard, InHand
  <2>3. overlapped' = overlapped  BY <1>2 DEF identityVars
  <2> QED  BY <2>1, <2>2, <2>3 DEF OverlapKnown
<1> QED  BY <1>1, <1>2

\* As long as no two requests have been in flight together, for any number of
\* users and uploads and whatever uploads, saves and deletions fail, no image
\* is stored that no card refers to, but those that could not be deleted or
\* that a request left when it broke off or its save failed.
THEOREM NoImageIsLeftBehind == IdentitySpec => []NoImageIsLeftInTurn
<1>1. OverlapKnown => NoImageIsLeftInTurn  BY DEF OverlapKnown, TurnInv, NoImageIsLeftInTurn
<1> QED
  BY <1>1, InitInv, NextInv, OverlapKnownInit, OverlapKnownNext, PTL DEF IdentitySpec

\* As long as no two requests have been in flight together, no number is on two
\* cards, although the test is made before the save that it is for.
THEOREM NumbersAreApart == IdentitySpec => []OneUserPerCardInTurn
<1>1. OverlapKnown => OneUserPerCardInTurn
  BY DEF OverlapKnown, TurnInv, OneUserPerCardInTurn
<1> QED
  BY <1>1, InitInv, NextInv, OverlapKnownInit, OverlapKnownNext, PTL DEF IdentitySpec
-----------------------------------------------------------------------------
(***************************************************************************)
(* The AI gateway, for any number of requests and users and any limits:    *)
(* the circuit breaker implements the abstract one, a limit is exceeded by *)
(* at most the requests in flight, and a counter keeps a time to live.     *)
(*                                                                         *)
(* GatewayPoints says what a request has done at each point.  Overuse is   *)
(* an argument about the requests that have passed a limit and are not yet *)
(* counted (Toward, Drawing): a step adds to their number, adds to the     *)
(* counter while it takes one of them away, or does neither.               *)
(***************************************************************************)
USE GatewayAssumption

GatewayPoints ==
  \A w \in Workers :
    /\ task[w].expire # {} => At(w, "counting")
    /\ task[w].usage # "no" => At(w, "counting")
    /\ At(w, "incr") => task[w].counted
    /\ task[w].pc \in {"idle", "checkGlobal", "checkUser"} => ~task[w].counted

LEMMA IdleIsTyped == Idle \in TaskRecord
BY DEF Idle, AnyUser, TaskRecord, Points

LEMMA GatewayStarts == Init => TypeOK /\ GatewayPoints
<1> SUFFICES ASSUME Init PROVE TypeOK /\ GatewayPoints
  OBVIOUS
<1>1. BreakerTypeOK  BY DEF Init, BreakerInit, BreakerTypeOK
<1>2. redis \in [Keys -> [count : Nat, ttl : BOOLEAN]]  BY DEF Init
<1>3. quota \in [Users -> [used : Nat, window : Windows]]  BY DEF Init, Windows
<1>4. task \in [Workers -> TaskRecord]  BY IdleIsTyped DEF Init
<1>5. GatewayPoints  BY DEF Init, GatewayPoints, Idle, At
<1> QED  BY <1>1, <1>2, <1>3, <1>4, <1>5 DEF TypeOK, Init

-----------------------------------------------------------------------------
(* What a step makes of the request it is a step of.                       *)
RequestBecomes(w, pc, u, counted, expire, usage) ==
  /\ task' \in [Workers -> TaskRecord]
  /\ task'[w].pc = pc /\ task'[w].user = u /\ task'[w].counted = counted
  /\ task'[w].expire = expire /\ task'[w].usage = usage
  /\ \A v \in Workers \ {w} : task'[v] = task[v]

LEMMA Becoming ==
  ASSUME task \in [Workers -> TaskRecord], NEW w \in Workers,
         NEW t \in TaskRecord, task' = [task EXCEPT ![w] = t]
  PROVE  RequestBecomes(w, t.pc, t.user, t.counted, t.expire, t.usage)
BY DEF RequestBecomes

LEMMA DoneBecomes ==
  ASSUME task \in [Workers -> TaskRecord], NEW w \in Workers, Done(w)
  PROVE  RequestBecomes(w, "idle", AnyUser, FALSE, {}, "no")
<1>1. task' = [task EXCEPT ![w] = Idle]  BY DEF Done
<1>2. RequestBecomes(w, Idle.pc, Idle.user, Idle.counted, Idle.expire, Idle.usage)
  BY <1>1, IdleIsTyped, Becoming
<1> QED  BY <1>2 DEF Idle

(* The fields that an update of task[w] names change, the others do not.   *)
LEMMA FieldsBecome ==
  ASSUME task \in [Workers -> TaskRecord], NEW w \in Workers,
         NEW pc \in Points, NEW counted \in BOOLEAN,
         NEW expire \in SUBSET Keys, NEW usage \in {"no", "read", "add", "start"}
  PROVE  /\ task' = [task EXCEPT ![w].pc = pc, ![w].counted = counted]
            => RequestBecomes(w, pc, User(w), counted, task[w].expire, task[w].usage)
         /\ Go(w, pc)
            => RequestBecomes(w, pc, User(w), task[w].counted, task[w].expire, task[w].usage)
         /\ task' = [task EXCEPT ![w].pc = pc, ![w].usage = usage, ![w].expire = expire]
            => RequestBecomes(w, pc, User(w), task[w].counted, expire, usage)
         /\ task' = [task EXCEPT ![w].expire = expire]
            => RequestBecomes(w, task[w].pc, User(w), task[w].counted, expire, task[w].usage)
         /\ task' = [task EXCEPT ![w].usage = usage]
            => RequestBecomes(w, task[w].pc, User(w), task[w].counted, task[w].expire, usage)
<1>0. task[w] \in TaskRecord  OBVIOUS
<1>1. ASSUME task' = [task EXCEPT ![w].pc = pc, ![w].counted = counted]
      PROVE  RequestBecomes(w, pc, User(w), counted, task[w].expire, task[w].usage)
  BY <1>0, <1>1 DEF RequestBecomes, TaskRecord, User
<1>2. ASSUME Go(w, pc)
      PROVE  RequestBecomes(w, pc, User(w), task[w].counted, task[w].expire, task[w].usage)
  BY <1>0, <1>2 DEF RequestBecomes, TaskRecord, User, Go
<1>3. ASSUME task' = [task EXCEPT ![w].pc = pc, ![w].usage = usage, ![w].expire = expire]
      PROVE  RequestBecomes(w, pc, User(w), task[w].counted, expire, usage)
  BY <1>0, <1>3 DEF RequestBecomes, TaskRecord, User
<1>4. ASSUME task' = [task EXCEPT ![w].expire = expire]
      PROVE  RequestBecomes(w, task[w].pc, User(w), task[w].counted, expire, task[w].usage)
  BY <1>0, <1>4 DEF RequestBecomes, TaskRecord, User
<1>5. ASSUME task' = [task EXCEPT ![w].usage = usage]
      PROVE  RequestBecomes(w, task[w].pc, User(w), task[w].counted, task[w].expire, usage)
  BY <1>0, <1>5 DEF RequestBecomes, TaskRecord, User
<1> QED  BY <1>1, <1>2, <1>3, <1>4, <1>5
-----------------------------------------------------------------------------
(* Every step, as far as the counters are concerned.                       *)
Settled == UNCHANGED <<redis, quota, crashes>>

\* A request passes the quota's limit, or the limit of a key.
Arrives(w, u) ==
  /\ At(w, "idle") /\ Used(u) < PlanLimit[u]
  /\ RequestBecomes(w, "checkGlobal", u, FALSE, {}, "no")
  /\ Settled
Passes(w, key, here, pc, counted) ==
  /\ At(w, here) /\ redis[key].count < HourlyLimit[key]
  /\ RequestBecomes(w, pc, User(w), counted, task[w].expire, task[w].usage)
  /\ Settled
\* It goes on without passing one, or ends.
MovesOn(w, pc) ==
  /\ task[w].pc \in {"checkGlobal", "checkUser", "execute", "calling"}
  /\ pc = "incr" => ~At(w, "checkGlobal") /\ ~At(w, "checkUser") /\ task[w].counted
  /\ RequestBecomes(w, pc, User(w), task[w].counted, task[w].expire, task[w].usage)
  /\ Settled
Leaves(w) ==
  /\ task[w].expire = {} /\ task[w].usage = "no"
  /\ RequestBecomes(w, "idle", AnyUser, FALSE, {}, "no")
  /\ Settled
\* It is counted.
Counts(w) ==
  /\ At(w, "incr")
  /\ redis' = [k \in Keys |->
       [count |-> redis[k].count + IF k \in {User(w), Global} THEN 1 ELSE 0,
        ttl |-> redis[k].ttl]]
  /\ RequestBecomes(w, "counting", User(w), task[w].counted,
             ToExpire(User(w)) \cup ToExpire(Global), "read")
  /\ UNCHANGED <<quota, crashes>>
Refreshes(w, key) ==
  /\ key \in task[w].expire
  /\ redis' = [redis EXCEPT ![key].ttl = redis[key].count > 0]
  /\ RequestBecomes(w, task[w].pc, User(w), task[w].counted, task[w].expire \ {key}, task[w].usage)
  /\ UNCHANGED <<quota, crashes>>
Reads(w, usage) ==
  /\ task[w].usage = "read" /\ usage \in {"add", "start"}
  /\ RequestBecomes(w, task[w].pc, User(w), task[w].counted, task[w].expire, usage)
  /\ Settled
Draws(w) ==
  /\ \/ /\ task[w].usage = "start"
        /\ quota' = [quota EXCEPT ![User(w)] = [used |-> 1, window |-> "running"]]
     \/ /\ task[w].usage = "add"
        /\ quota' = [quota EXCEPT ![User(w)].used = @ + 1]
  /\ RequestBecomes(w, task[w].pc, User(w), task[w].counted, task[w].expire, "no")
  /\ UNCHANGED <<redis, crashes>>
\* The server stops, or time and administrators lower the counters.
Stops ==
  /\ task' = [w \in Workers |-> Idle] /\ crashes' = crashes + 1
  /\ UNCHANGED <<redis, quota>>
Lowers ==
  /\ UNCHANGED <<task, crashes>>
  /\ redis' \in [Keys -> [count : Nat, ttl : BOOLEAN]]
  /\ \A k \in Keys : redis'[k] = redis[k] \/ redis'[k].count = 0
  /\ quota' \in [Users -> [used : Nat, window : Windows]]
  /\ \A u \in Users : Used(u)' <= Used(u)

RequestEffect(w) ==
  \/ \E u \in Users : Arrives(w, u)
  \/ Passes(w, Global, "checkGlobal", "checkUser", FALSE)
  \/ Passes(w, User(w), "checkUser", "execute", TRUE)
  \/ \E pc \in {"execute", "calling", "incr"} : MovesOn(w, pc)
  \/ Leaves(w) \/ Counts(w)
  \/ \E key \in Keys : Refreshes(w, key)
  \/ \E usage \in {"add", "start"} : Reads(w, usage)
  \/ Draws(w)

LEMMA RequestSteps ==
  ASSUME TypeOK, GatewayPoints, NEW w \in Workers,
         WorkerStep(w) \/ \E u \in Users : CheckPlanLimit(w, u)
  PROVE  RequestEffect(w)
<1>0. /\ task \in [Workers -> TaskRecord] /\ task[w] \in TaskRecord
      /\ task[w].pc \in Points /\ User(w) \in Users /\ User(w) \in Keys
      /\ task[w].counted \in BOOLEAN /\ task[w].expire \in SUBSET Keys
      /\ task[w].usage \in {"no", "read", "add", "start"}
      /\ Global \in Keys
  BY DEF TypeOK, TaskRecord, User, Keys
<1>1. ASSUME NEW pc \in Points, NEW counted \in BOOLEAN,
             task' = [task EXCEPT ![w].pc = pc, ![w].counted = counted]
      PROVE  RequestBecomes(w, pc, User(w), counted, task[w].expire, task[w].usage)
  BY <1>0, <1>1 DEF RequestBecomes, TaskRecord, User
<1>2. ASSUME NEW pc \in Points, Go(w, pc)
      PROVE  RequestBecomes(w, pc, User(w), task[w].counted, task[w].expire, task[w].usage)
  BY <1>0, <1>2, FieldsBecome
<1>3. Done(w) => RequestBecomes(w, "idle", AnyUser, FALSE, {}, "no")
  BY <1>0, DoneBecomes
<1>4. ~At(w, "counting") => task[w].expire = {} /\ task[w].usage = "no"
  BY DEF GatewayPoints
<1>5. ASSUME NEW u \in Users, CheckPlanLimit(w, u) PROVE Arrives(w, u)
  <2>1. task' = [task EXCEPT ![w].pc = "checkGlobal", ![w].user = u] /\ At(w, "idle")
    BY <1>5 DEF CheckPlanLimit
  <2>2. RequestBecomes(w, "checkGlobal", u, task[w].counted, task[w].expire, task[w].usage)
    BY <1>0, <2>1 DEF RequestBecomes, TaskRecord, Points
  <2>3. ~task[w].counted  BY <2>1 DEF GatewayPoints, At
  <2>4. RequestBecomes(w, "checkGlobal", u, FALSE, {}, "no")
    BY <1>0, <1>4, <2>1, <2>2, <2>3 DEF At
  <2> QED  BY <1>5, <2>4 DEF Arrives, CheckPlanLimit, Allowed, Settled, gatewayVars
<1>6. ASSUME CheckGlobal(w), UNCHANGED bounds PROVE RequestEffect(w)
  <2>1. /\ At(w, "checkGlobal") /\ Settled
        /\ \/ /\ redis[Global].count < HourlyLimit[Global]
              /\ task' = [task EXCEPT ![w].pc = "checkUser", ![w].counted = FALSE]
           \/ Done(w) \/ Go(w, "execute")
    BY <1>6 DEF CheckGlobal, Check, Allowed, Settled, gatewayVars, bounds
  <2>2. "checkUser" \in Points /\ "execute" \in Points  BY DEF Points
  <2> QED
    BY <1>1, <1>2, <1>3, <1>4, <2>1, <2>2 DEF RequestEffect, Passes, MovesOn, Leaves, At
<1>7. ASSUME CheckUser(w), UNCHANGED bounds PROVE RequestEffect(w)
  <2>1. /\ At(w, "checkUser") /\ Settled
        /\ \/ /\ redis[User(w)].count < HourlyLimit[User(w)]
              /\ task' = [task EXCEPT ![w].pc = "execute", ![w].counted = TRUE]
           \/ Done(w) \/ Go(w, "execute")
    BY <1>7 DEF CheckUser, Check, Allowed, Settled, gatewayVars, bounds
  <2>2. "execute" \in Points  BY DEF Points
  <2> QED
    BY <1>1, <1>2, <1>3, <1>4, <2>1, <2>2 DEF RequestEffect, Passes, MovesOn, Leaves, At
<1>8. ASSUME Execute(w) \/ Answered(w), UNCHANGED bounds PROVE RequestEffect(w)
  <2>1. /\ At(w, "execute") \/ At(w, "calling")
        /\ Settled
        /\ \/ Go(w, "calling")
           \/ task[w].counted /\ Go(w, "incr")
           \/ Done(w)
    BY <1>8 DEF Execute, Answered, Respond, Settled, gatewayVars, bounds
  <2>2. "calling" \in Points /\ "incr" \in Points  BY DEF Points
  <2> QED
    BY <1>2, <1>3, <1>4, <2>1, <2>2 DEF RequestEffect, MovesOn, Leaves, At
<1>9. ASSUME Incr(w), UNCHANGED bounds PROVE Counts(w)
  <2>1. /\ "counting" \in Points
        /\ ToExpire(User(w)) \cup ToExpire(Global) \in SUBSET Keys
    BY <1>0 DEF Points, ToExpire
  <2>2. RequestBecomes(w, "counting", User(w), task[w].counted,
                ToExpire(User(w)) \cup ToExpire(Global), "read")
    BY <1>0, <1>9, <2>1, FieldsBecome DEF Incr
  <2> QED  BY <1>9, <2>2 DEF Incr, Counts, bounds
<1>10. ASSUME Expire(w), UNCHANGED bounds PROVE RequestEffect(w)
  <2>1. PICK key \in task[w].expire :
          /\ redis' = [redis EXCEPT ![key].ttl = redis[key].count > 0]
          /\ task' = [task EXCEPT ![w].expire = @ \ {key}]
    BY <1>10 DEF Expire
  <2>2. task' = [task EXCEPT ![w].expire = task[w].expire \ {key}]
    BY <1>0, <2>1
  <2>3. key \in Keys /\ task[w].expire \ {key} \in SUBSET Keys
    BY <1>0
  <2>4. RequestBecomes(w, task[w].pc, User(w), task[w].counted, task[w].expire \ {key},
                task[w].usage)
    BY <1>0, <2>2, <2>3, FieldsBecome
  <2> QED  BY <1>10, <2>1, <2>3, <2>4 DEF Expire, RequestEffect, Refreshes, bounds
<1>11. ASSUME ReadWindow(w), UNCHANGED bounds PROVE RequestEffect(w)
  <2>1. PICK usage \in {"add", "start"} : task' = [task EXCEPT ![w].usage = usage]
    BY <1>11 DEF ReadWindow
  <2>2. RequestBecomes(w, task[w].pc, User(w), task[w].counted, task[w].expire, usage)
    BY <1>0, <2>1, FieldsBecome
  <2> QED
    BY <1>11, <2>2 DEF ReadWindow, RequestEffect, Reads, Settled, gatewayVars, bounds
<1>12. ASSUME AddUsage(w), UNCHANGED bounds PROVE Draws(w)
  <2>1. RequestBecomes(w, task[w].pc, User(w), task[w].counted, task[w].expire, "no")
    BY <1>0, <1>12, FieldsBecome DEF AddUsage
  <2> QED  BY <1>12, <2>1 DEF AddUsage, Draws, bounds
<1>13. ASSUME AllCounted(w), UNCHANGED bounds PROVE Leaves(w)
  BY <1>3, <1>13 DEF AllCounted, Leaves, Settled, gatewayVars, bounds
<1> QED
  BY <1>5, <1>6, <1>7, <1>8, <1>9, <1>10, <1>11, <1>12, <1>13
  DEF WorkerStep, Advance, RequestEffect

LEMMA OtherSteps ==
  ASSUME TypeOK, [Next]_vars,
         ~ \E w \in Workers : WorkerStep(w) \/ \E u \in Users : CheckPlanLimit(w, u)
  PROVE  Stops \/ Lowers
<1>0. /\ redis \in [Keys -> [count : Nat, ttl : BOOLEAN]]
      /\ quota \in [Users -> [used : Nat, window : Windows]]
      /\ \A u \in Users : Used(u) \in Nat
  BY DEF TypeOK, Used
<1>1. ASSUME UNCHANGED quota
      PROVE  /\ quota' \in [Users -> [used : Nat, window : Windows]]
             /\ \A u \in Users : Used(u)' <= Used(u)
  BY <1>0, <1>1 DEF Used, windowExpired
<1>2. ASSUME NEW key \in Keys, DropKey(key) PROVE Lowers
  BY <1>0, <1>1, <1>2 DEF DropKey, Lowers, bounds
<1>3. ASSUME NEW key \in Keys, ResetLimits({key}) PROVE Lowers
  BY <1>0, <1>1, <1>3 DEF ResetLimits, Lowers, bounds
<1>4. ASSUME ResetBreaker \/ BreakerTime PROVE Lowers
  BY <1>0, <1>1, <1>4 DEF ResetBreaker, BreakerTime, Lowers, gatewayVars, bounds
<1>5. ASSUME Crash PROVE Stops
  BY <1>5 DEF Crash, Stops, gatewayVars
<1>6. ASSUME NEW u \in Users, WeekPasses(u) PROVE Lowers
  <2>1. PICK win \in {"running", "over"} :
          /\ quota' = [quota EXCEPT ![u].window = win]
          /\ win = "running" => quota[u].window = "ahead"
    BY <1>6 DEF WeekPasses
  <2>2. quota' \in [Users -> [used : Nat, window : Windows]]
    BY <1>0, <2>1 DEF Windows
  <2>3. \A v \in Users : Used(v)' <= Used(v)
    BY <1>0, <2>1 DEF Used, windowExpired
  <2> QED  BY <1>0, <1>6, <2>2, <2>3 DEF WeekPasses, Lowers, bounds
<1>7. ASSUME NEW u \in Users, ResetFreeUserAI(u) PROVE Lowers
  <2>1. quota' \in [Users -> [used : Nat, window : Windows]]
    BY <1>0, <1>7 DEF ResetFreeUserAI, Windows
  <2>2. \A v \in Users : Used(v)' <= Used(v)
    BY <1>0, <1>7 DEF ResetFreeUserAI, Used, windowExpired
  <2> QED  BY <1>0, <1>7, <2>1, <2>2 DEF ResetFreeUserAI, Lowers, bounds
<1>8. ASSUME UNCHANGED vars PROVE Lowers
  BY <1>0, <1>1, <1>8 DEF vars, gatewayVars, bounds, Lowers
<1> QED  BY <1>2, <1>3, <1>4, <1>5, <1>6, <1>7, <1>8 DEF Next

LEMMA GatewaySteps ==
  ASSUME TypeOK, GatewayPoints, [Next]_vars
  PROVE  (\E w \in Workers : RequestEffect(w)) \/ Stops \/ Lowers
BY RequestSteps, OtherSteps
-----------------------------------------------------------------------------
LEMMA BreakerStep ==
  ASSUME BreakerTypeOK, [Next]_vars PROVE BreakerTypeOK'
<1>1. \/ Enter \/ Refuse \/ onSuccess \/ onFailure \/ reset
      \/ WindowPasses \/ RecoveryPasses \/ UNCHANGED breakerVars
  BY DEF Next, WorkerStep, Advance, CheckPlanLimit, CheckGlobal, CheckUser, Check,
         Execute, Answered, Incr, Expire, ReadWindow, AddUsage, AllCounted, DropKey,
         ResetLimits, ResetBreaker, BreakerTime, Crash, WeekPasses, ResetFreeUserAI, vars
<1>2. CASE Enter \/ Refuse
  <2>1. InWindow(failureCount) \in Nat /\ InWindow(totalRequests) \in Nat
    BY DEF BreakerTypeOK, InWindow
  <2>2. failureCount' \in Nat /\ totalRequests' \in Nat
    BY <1>2, <2>1 DEF Enter, Refuse
  <2>3. state' \in {"CLOSED", "OPEN", "HALF_OPEN"}
    BY <1>2 DEF BreakerTypeOK, Enter, Refuse
  <2>4. windowOver' \in BOOLEAN /\ recoveryOver' \in BOOLEAN
    BY <1>2, Zenon DEF BreakerTypeOK, Enter, Refuse
  <2> QED  BY <2>2, <2>3, <2>4 DEF BreakerTypeOK
<1>3. CASE onSuccess  BY <1>3 DEF BreakerTypeOK, onSuccess
<1>4. CASE onFailure
  <2>1. failureCount' \in Nat /\ totalRequests' \in Nat
    BY <1>4 DEF BreakerTypeOK, onFailure
  <2>2. state' \in {"CLOSED", "OPEN", "HALF_OPEN"}
    BY <1>4 DEF BreakerTypeOK, onFailure
  <2>3. windowOver' \in BOOLEAN /\ recoveryOver' \in BOOLEAN
    BY <1>4, Zenon DEF BreakerTypeOK, onFailure
  <2> QED  BY <2>1, <2>2, <2>3 DEF BreakerTypeOK
<1>5. CASE reset  BY <1>5 DEF BreakerTypeOK, reset
<1>6. CASE WindowPasses \/ RecoveryPasses \/ UNCHANGED breakerVars
  BY <1>6 DEF BreakerTypeOK, WindowPasses, RecoveryPasses, breakerVars
<1> QED  BY <1>1, <1>2, <1>3, <1>4, <1>5, <1>6

LEMMA BoundsStep ==
  ASSUME TypeOK, [Next]_vars
  PROVE  requests' \in 0..MaxRequests /\ crashes' \in 0..MaxCrashes
<1>1. \/ UNCHANGED bounds
      \/ requests < MaxRequests /\ requests' = requests + 1 /\ UNCHANGED crashes
      \/ crashes < MaxCrashes /\ crashes' = crashes + 1 /\ UNCHANGED requests
  BY DEF Next, WorkerStep, CheckPlanLimit, DropKey, ResetLimits, ResetBreaker,
         BreakerTime, Crash, WeekPasses, ResetFreeUserAI, vars, bounds
<1> QED  BY <1>1 DEF TypeOK, bounds

LEMMA CountersStep ==
  ASSUME TypeOK, (\E w \in Workers : RequestEffect(w)) \/ Stops \/ Lowers
  PROVE  /\ redis' \in [Keys -> [count : Nat, ttl : BOOLEAN]]
         /\ quota' \in [Users -> [used : Nat, window : Windows]]
         /\ task' \in [Workers -> TaskRecord]
<1>0. /\ redis \in [Keys -> [count : Nat, ttl : BOOLEAN]]
      /\ quota \in [Users -> [used : Nat, window : Windows]]
      /\ task \in [Workers -> TaskRecord]
  BY DEF TypeOK
<1>1. ASSUME NEW w \in Workers, Settled, NEW pc, NEW u, NEW counted, NEW expire, NEW usage,
             RequestBecomes(w, pc, u, counted, expire, usage)
      PROVE  /\ redis' \in [Keys -> [count : Nat, ttl : BOOLEAN]]
             /\ quota' \in [Users -> [used : Nat, window : Windows]]
             /\ task' \in [Workers -> TaskRecord]
  BY <1>0, <1>1 DEF Settled, RequestBecomes
<1>2. ASSUME NEW w \in Workers, Counts(w)
      PROVE  redis' \in [Keys -> [count : Nat, ttl : BOOLEAN]]
  BY <1>0, <1>2 DEF Counts
<1>3. ASSUME NEW w \in Workers, NEW key \in Keys, Refreshes(w, key)
      PROVE  redis' \in [Keys -> [count : Nat, ttl : BOOLEAN]]
  <2>1. \E ttl \in BOOLEAN : redis' = [redis EXCEPT ![key].ttl = ttl]
    <3>1. (redis[key].count > 0) \in BOOLEAN  OBVIOUS
    <3>2. redis' = [redis EXCEPT ![key].ttl = redis[key].count > 0]
      BY <1>3 DEF Refreshes
    <3> QED  BY <3>1, <3>2, Zenon
  <2> QED  BY <1>0, <2>1
<1>4. ASSUME NEW w \in Workers, Draws(w)
      PROVE  quota' \in [Users -> [used : Nat, window : Windows]]
  <2>1. User(w) \in Users  BY <1>0 DEF User, TaskRecord
  <2>2. CASE task[w].usage = "start"  BY <1>0, <1>4, <2>1, <2>2 DEF Draws, Windows
  <2>3. CASE task[w].usage = "add"  BY <1>0, <1>4, <2>1, <2>3 DEF Draws
  <2> QED  BY <1>4, <2>2, <2>3 DEF Draws
<1>5. CASE Stops  BY <1>0, <1>5, IdleIsTyped DEF Stops
<1>6. CASE Lowers  BY <1>0, <1>6 DEF Lowers
<1>7. ASSUME NEW w \in Workers, RequestEffect(w)
      PROVE  /\ redis' \in [Keys -> [count : Nat, ttl : BOOLEAN]]
             /\ quota' \in [Users -> [used : Nat, window : Windows]]
             /\ task' \in [Workers -> TaskRecord]
  <2>1. CASE Counts(w)  BY <1>0, <1>2, <2>1 DEF Counts, RequestBecomes
  <2>2. CASE \E key \in Keys : Refreshes(w, key)
    BY <1>0, <1>3, <2>2 DEF Refreshes, RequestBecomes
  <2>3. CASE Draws(w)  BY <1>0, <1>4, <2>3 DEF Draws, RequestBecomes
  <2> QED
    BY <1>1, <1>7, <2>1, <2>2, <2>3
    DEF RequestEffect, Arrives, Passes, MovesOn, Leaves, Reads
<1> QED  BY <1>5, <1>6, <1>7

LEMMA PointsStep ==
  ASSUME TypeOK, GatewayPoints, (\E w \in Workers : RequestEffect(w)) \/ Stops \/ Lowers
  PROVE  GatewayPoints'
<1>1. ASSUME NEW w \in Workers, RequestEffect(w) PROVE GatewayPoints'
  <2>1. \A v \in Workers \ {w} : task'[v] = task[v]
    BY <1>1 DEF RequestEffect, Arrives, Passes, MovesOn, Leaves, Counts, Refreshes,
                Reads, Draws, RequestBecomes
  <2>2. /\ task'[w].expire # {} => task'[w].pc = "counting"
        /\ task'[w].usage # "no" => task'[w].pc = "counting"
        /\ task'[w].pc = "incr" => task'[w].counted
        /\ task'[w].pc \in {"idle", "checkGlobal", "checkUser"} => ~task'[w].counted
    BY <1>1 DEF GatewayPoints, At, RequestEffect, Arrives, Passes, MovesOn, Leaves, Counts,
                Refreshes, Reads, Draws, RequestBecomes
  <2> QED  BY <2>1, <2>2 DEF GatewayPoints, At
<1>2. CASE Stops  BY <1>2 DEF Stops, GatewayPoints, Idle, At
<1>3. CASE Lowers  BY <1>3 DEF Lowers, GatewayPoints, At
<1> QED  BY <1>1, <1>2, <1>3

LEMMA Inductive ==
  ASSUME TypeOK, GatewayPoints, [Next]_vars PROVE TypeOK' /\ GatewayPoints'
<1>1. (\E w \in Workers : RequestEffect(w)) \/ Stops \/ Lowers  BY GatewaySteps
<1>2. BreakerTypeOK'  BY BreakerStep DEF TypeOK
<1> QED  BY <1>1, <1>2, BoundsStep, CountersStep, PointsStep DEF TypeOK

(* The gateway's state is well-formed, and what a request has done so far   *)
(* is what its place in the pipeline says (aiRateLimit).                    *)
THEOREM GatewayTypeSafe == Spec => [](TypeOK /\ GatewayPoints)
<1>1. Init => TypeOK /\ GatewayPoints  BY GatewayStarts
<1>2. TypeOK /\ GatewayPoints /\ [Next]_vars => (TypeOK /\ GatewayPoints)'  BY Inductive
<1> QED  BY <1>1, <1>2, PTL DEF Spec
-----------------------------------------------------------------------------
(* The breaker implements the abstract one.                                *)
Calling == {w \in Workers : At(w, "calling")}

LEMMA CallingStep ==
  ASSUME NEW w \in Workers, \A v \in Workers \ {w} : task'[v] = task[v]
  PROVE  /\ task'[w].pc = "calling" => Calling' = Calling \cup {w}
         /\ task'[w].pc # "calling" => Calling' = Calling \ {w}
BY DEF Calling, At

LEMMA CircuitStep ==
  ASSUME TypeOK, GatewayPoints, [Next]_vars
  PROVE  [Circuit!Next]_<<state, Calling, recoveryOver>>
<1> DEFINE CircuitMoves == [Circuit!Next]_<<state, Calling, recoveryOver>>
<1>0. task \in [Workers -> TaskRecord]  BY DEF TypeOK
<1>1. ASSUME NEW w \in Workers, NEW pc \in Points, Go(w, pc)
      PROVE  task'[w].pc = pc /\ \A v \in Workers \ {w} : task'[v] = task[v]
  BY <1>0, <1>1, FieldsBecome DEF RequestBecomes, TaskRecord
<1>2. ASSUME NEW w \in Workers, Done(w)
      PROVE  task'[w].pc = "idle" /\ \A v \in Workers \ {w} : task'[v] = task[v]
  BY <1>0, <1>2, DoneBecomes DEF RequestBecomes
<1>3. ASSUME NEW w \in Workers, NEW ok \in BOOLEAN, Respond(w, ok)
      PROVE  Calling' = Calling \ {w}
  <2>1. "incr" \in Points  BY DEF Points
  <2> QED  BY <1>1, <1>2, <1>3, <2>1, CallingStep DEF Respond
<1>4. ASSUME NEW w \in Workers, Execute(w) PROVE CircuitMoves
  <2>1. w \notin Calling  BY <1>4 DEF Execute, Calling, At
  <2>2. CASE Enter /\ Go(w, "calling")
    <3>1. Calling' = Calling \cup {w}
      BY <1>1, <2>2, CallingStep DEF Points
    <3>2. Circuit!Admit(w)  BY <2>1, <2>2, <3>1 DEF Enter, isOpen, Circuit!Admit, Calling
    <3> QED  BY <3>2 DEF Circuit!Next
  <2>3. CASE Refuse /\ \E ok \in BOOLEAN : Respond(w, ok)
    <3>1. Calling' = Calling \ {w}  BY <1>3, <2>3, Zenon
    <3>2. Calling' = Calling  BY <2>1, <3>1
    <3> QED  BY <2>3, <3>2 DEF Refuse
  <2> QED  BY <1>4, <2>2, <2>3 DEF Execute
<1>5. ASSUME NEW w \in Workers, Answered(w) PROVE CircuitMoves
  <2>1. w \in Calling  BY <1>5 DEF Answered, Calling
  <2>2. Calling' = Calling \ {w}  BY <1>3, <1>5 DEF Answered
  <2>3. CASE onSuccess
    <3>1. Circuit!Succeed(w)  BY <2>1, <2>2, <2>3 DEF onSuccess, Circuit!Succeed, Calling
    <3> QED  BY <3>1 DEF Circuit!Next
  <2>4. CASE onFailure
    <3>1. state \in {"CLOSED", "OPEN", "HALF_OPEN"}  BY DEF TypeOK, BreakerTypeOK
    <3>2. Circuit!Fail(w)
      BY <2>1, <2>2, <2>4, <3>1 DEF onFailure, Circuit!Fail, Calling
    <3> QED  BY <3>2 DEF Circuit!Next
  <2> QED  BY <1>5, <2>3, <2>4 DEF Answered
<1>6. CASE ResetBreaker \/ BreakerTime
  <2>1. Calling' = Calling
    BY <1>6 DEF ResetBreaker, BreakerTime, Calling, At
  <2> QED  BY <1>6, <2>1 DEF ResetBreaker, BreakerTime, reset, WindowPasses, RecoveryPasses,
                            Circuit!Next, Circuit!Reset, Circuit!Recover, Calling
<1>7. CASE Crash
  <2>1. Calling' = {}  BY <1>7 DEF Crash, Idle, Calling, At
  <2> QED  BY <1>7, <2>1 DEF Crash, reset, Circuit!Next, Circuit!Restart, Calling
<1>8. ASSUME UNCHANGED breakerVars, Calling' = Calling PROVE CircuitMoves
  BY <1>8 DEF breakerVars
<1>9. ASSUME NEW w \in Workers, task[w].pc # "calling", task'[w].pc # "calling",
             \A v \in Workers \ {w} : task'[v] = task[v]
      PROVE  Calling' = Calling
  BY <1>9, CallingStep DEF Calling, At
<1>10. ASSUME NEW w \in Workers, NEW u \in Users, CheckPlanLimit(w, u) PROVE CircuitMoves
  <2>1. task' = [task EXCEPT ![w].pc = "checkGlobal", ![w].user = u] /\ At(w, "idle")
    BY <1>10 DEF CheckPlanLimit
  <2>2. Calling' = Calling  BY <1>0, <1>9, <2>1 DEF At, TaskRecord
  <2> QED  BY <1>8, <1>10, <2>2 DEF CheckPlanLimit
<1>11. ASSUME NEW w \in Workers, CheckGlobal(w) \/ CheckUser(w) PROVE CircuitMoves
  <2>1. task[w].pc # "calling" /\ UNCHANGED breakerVars
    BY <1>11 DEF CheckGlobal, CheckUser, Check, At
  <2>2. \/ \E pc \in {"checkUser", "execute"}, counted \in BOOLEAN :
             task' = [task EXCEPT ![w].pc = pc, ![w].counted = counted]
        \/ Done(w) \/ Go(w, "execute")
    BY <1>11 DEF CheckGlobal, CheckUser, Check
  <2>3. task'[w].pc # "calling" /\ \A v \in Workers \ {w} : task'[v] = task[v]
    BY <1>0, <1>1, <1>2, <2>2 DEF Points, TaskRecord
  <2> QED  BY <1>8, <1>9, <2>1, <2>3
<1>12. ASSUME NEW w \in Workers,
              Incr(w) \/ Expire(w) \/ ReadWindow(w) \/ AddUsage(w) \/ AllCounted(w)
       PROVE  CircuitMoves
  <2>1. /\ task[w].pc # "calling" /\ UNCHANGED breakerVars
    BY <1>12 DEF Incr, Expire, ReadWindow, AddUsage, AllCounted, GatewayPoints, At
  <2>2. task'[w].pc # "calling" /\ \A v \in Workers \ {w} : task'[v] = task[v]
    <3>1. CASE Incr(w)  BY <1>0, <3>1 DEF Incr, TaskRecord
    <3>2. CASE Expire(w)  BY <1>0, <2>1, <3>2 DEF Expire, TaskRecord
    <3>3. CASE ReadWindow(w) \/ AddUsage(w)
      <4>1. PICK usage : task' = [task EXCEPT ![w].usage = usage]
        BY <3>3 DEF ReadWindow, AddUsage
      <4> QED  BY <1>0, <2>1, <4>1 DEF TaskRecord
    <3>4. CASE AllCounted(w)  BY <1>2, <3>4 DEF AllCounted
    <3> QED  BY <1>12, <3>1, <3>2, <3>3, <3>4
  <2> QED  BY <1>8, <1>9, <2>1, <2>2
<1>13. ASSUME NEW key \in Keys, DropKey(key) \/ ResetLimits({key}) PROVE CircuitMoves
  BY <1>8, <1>13 DEF DropKey, ResetLimits, Calling, At
<1>14. ASSUME NEW u \in Users, WeekPasses(u) \/ ResetFreeUserAI(u) PROVE CircuitMoves
  BY <1>8, <1>14 DEF WeekPasses, ResetFreeUserAI, Calling, At
<1>15. CASE UNCHANGED vars  BY <1>8, <1>15 DEF vars, Calling, At
<1>16. ASSUME NEW w \in Workers, WorkerStep(w) PROVE CircuitMoves
  BY <1>4, <1>5, <1>11, <1>12, <1>16 DEF WorkerStep, Advance
<1> QED
  BY <1>6, <1>7, <1>10, <1>13, <1>14, <1>15, <1>16 DEF Next

(* The circuit breaker never calls the provider while it is open, whatever *)
(* the late answers, the resets and the restarts do: every behaviour of    *)
(* the gateway is one of the abstract breaker (circuit-breaker.js).        *)
THEOREM BreakerImplemented == Spec => BreakerSpec
<1>1. Init => Circuit!Init
  BY DEF Init, BreakerInit, Idle, At, Circuit!Init
<1>2. TypeOK /\ GatewayPoints /\ [Next]_vars
        => [Circuit!Next]_<<state, {w \in Workers : At(w, "calling")}, recoveryOver>>
  BY CircuitStep DEF Calling
<1> QED  BY <1>1, <1>2, GatewayTypeSafe, PTL DEF Spec, BreakerSpec, Circuit!Spec
-----------------------------------------------------------------------------
(* Time to live.                                                           *)
LEMMA ExpireStep ==
  ASSUME TypeOK, GatewayPoints, CountersExpire,
         (\E w \in Workers : RequestEffect(w)) \/ Stops \/ Lowers
  PROVE  CountersExpire'
<1>0. /\ redis \in [Keys -> [count : Nat, ttl : BOOLEAN]] /\ crashes \in Nat
  BY DEF TypeOK
<1>1. ASSUME NEW w \in Workers, Settled, task'[w].expire = task[w].expire,
             \A v \in Workers \ {w} : task'[v] = task[v]
      PROVE  CountersExpire'
  BY <1>1 DEF Settled, CountersExpire
<1>2. ASSUME NEW w \in Workers, NEW u \in Users, Arrives(w, u) PROVE CountersExpire'
  <2>1. task[w].expire = {}  BY <1>2 DEF Arrives, GatewayPoints, At
  <2> QED  BY <1>1, <1>2, <2>1 DEF Arrives, RequestBecomes
<1>3. ASSUME NEW w \in Workers, Leaves(w) PROVE CountersExpire'
  BY <1>1, <1>3 DEF Leaves, RequestBecomes
<1>4. ASSUME NEW w \in Workers, Counts(w) PROVE CountersExpire'
  <2>1. task[w].expire = {}  BY <1>4 DEF Counts, GatewayPoints, At
  <2>2. crashes' = crashes  BY <1>4 DEF Counts
  <2>3. ASSUME NEW k \in Keys, redis'[k].count > 0
        PROVE  redis'[k].ttl \/ crashes > 0 \/ \E v \in Workers : k \in task'[v].expire
    <3>1. redis'[k].ttl = redis[k].ttl  BY <1>4 DEF Counts
    <3>2. CASE redis[k].count > 0
      BY <1>4, <2>1, <3>1, <3>2 DEF Counts, RequestBecomes, CountersExpire
    <3>3. CASE redis[k].count = 0
      <4>1. k \in {User(w), Global}  BY <1>0, <1>4, <2>3, <3>3 DEF Counts
      <4>2. k \in task'[w].expire  BY <1>4, <3>3, <4>1 DEF Counts, RequestBecomes, ToExpire
      <4> QED  BY <4>2
    <3> QED  BY <1>0, <3>2, <3>3
  <2> QED  BY <2>2, <2>3 DEF CountersExpire
<1>5. ASSUME NEW w \in Workers, NEW key \in Keys, Refreshes(w, key) PROVE CountersExpire'
  <2>1. crashes' = crashes  BY <1>5 DEF Refreshes
  <2>2. ASSUME NEW k \in Keys, redis'[k].count > 0
        PROVE  redis'[k].ttl \/ crashes > 0 \/ \E v \in Workers : k \in task'[v].expire
    <3>1. redis'[k].count = redis[k].count  BY <1>0, <1>5 DEF Refreshes
    <3>2. CASE k = key
      <4> DEFINE b == redis[k].count > 0
      <4>1. redis' = [redis EXCEPT ![k].ttl = b]  BY <1>5, <3>2, Zenon DEF Refreshes
      <4> HIDE DEF b
      <4>2. redis'[k].ttl = b  BY <1>0, <4>1, Zenon
      <4> QED  BY <2>2, <3>1, <4>2 DEF b
    <3>3. CASE k # key
      <4>1. redis'[k] = redis[k]  BY <1>0, <1>5, <3>3 DEF Refreshes
      <4>2. \A v \in Workers : k \in task[v].expire => k \in task'[v].expire
        BY <1>5, <3>3 DEF Refreshes, RequestBecomes
      <4> QED  BY <2>2, <4>1, <4>2 DEF CountersExpire
    <3> QED  BY <3>2, <3>3
  <2> QED  BY <2>1, <2>2 DEF CountersExpire
<1>6. CASE Stops  BY <1>0, <1>6 DEF Stops, CountersExpire
<1>7. CASE Lowers  BY <1>0, <1>7 DEF Lowers, CountersExpire
<1>8. ASSUME NEW w \in Workers, RequestEffect(w) PROVE CountersExpire'
  BY <1>1, <1>2, <1>3, <1>4, <1>5, <1>8
  DEF RequestEffect, Passes, MovesOn, Reads, Draws, RequestBecomes, Settled, CountersExpire
<1> QED  BY <1>6, <1>7, <1>8

(* However resets, expiries and requests interleave, a counter that is not *)
(* 0 has a time to live or will be given one, unless the server stopped    *)
(* between INCR and EXPIRE (redisIncr).                                    *)
THEOREM LimitsEnd == Spec => []CountersExpire
<1>1. Init => CountersExpire  BY DEF Init, CountersExpire
<1>2. TypeOK /\ GatewayPoints /\ CountersExpire /\ [Next]_vars => CountersExpire'
  BY GatewaySteps, ExpireStep
<1> QED  BY <1>1, <1>2, GatewayTypeSafe, PTL DEF Spec
-----------------------------------------------------------------------------
(* Overuse: who is past the limit of a key, or of a quota, and not counted *)
(* yet.                                                                    *)
Toward(k) ==
  {w \in Workers :
     \/ k = Global /\ At(w, "checkUser")
     \/ /\ k \in {Global, User(w)} /\ task[w].counted
        /\ task[w].pc \in {"execute", "calling", "incr"}}
Drawing(u) ==
  {w \in Workers :
     /\ User(w) = u
     /\ \/ task[w].pc \in {"checkGlobal", "checkUser", "execute", "calling", "incr"}
        \/ task[w].usage # "no"}

N == Cardinality(Workers)
KeysInv == \A k \in Keys : redis[k].count + Cardinality(Toward(k)) <= HourlyLimit[k] + N - 1
QuotasInv == \A u \in Users : Used(u) + Cardinality(Drawing(u)) <= PlanLimit[u] + N - 1

LEMMA Sizes ==
  /\ N \in Nat /\ N >= 1
  /\ \A S \in SUBSET Workers : Cardinality(S) \in Nat /\ Cardinality(S) <= N
<1>1. \A S \in SUBSET Workers : IsFiniteSet(S) /\ Cardinality(S) <= N
  BY FS_Subset DEF N
<1>2. \A S \in SUBSET Workers : Cardinality(S) \in Nat  BY <1>1, FS_CardinalityType
<1>3. N # 0  BY FS_EmptySet DEF N
<1> QED  BY <1>1, <1>2, <1>3 DEF N

(* c is a counter and S those on their way to it, d and T after a step: the *)
(* step brings none, or brings some below the limit, or counts one of them. *)
Moved(c, S, d, T, limit) ==
  \/ d <= c /\ T \subseteq S
  \/ d <= c /\ c < limit
  \/ d <= c + 1 /\ \E w \in S : T \subseteq S \ {w}

LEMMA Tally ==
  ASSUME NEW limit \in Nat, NEW c \in Nat, NEW d \in Nat,
         NEW S \in SUBSET Workers, NEW T \in SUBSET Workers,
         c + Cardinality(S) <= limit + N - 1, Moved(c, S, d, T, limit)
  PROVE  d + Cardinality(T) <= limit + N - 1
<1>0. /\ N \in Nat /\ Cardinality(T) \in Nat /\ Cardinality(S) \in Nat
      /\ Cardinality(T) <= N
  BY Sizes
<1>1. IsFiniteSet(S) /\ IsFiniteSet(T)  BY FS_Subset
<1>2. CASE d <= c /\ T \subseteq S
  <2>1. Cardinality(T) <= Cardinality(S)  BY <1>1, <1>2, FS_Subset
  <2> QED  BY <1>0, <1>2, <2>1
<1>3. CASE d <= c /\ c < limit  BY <1>0, <1>3
<1>4. CASE d <= c + 1 /\ \E w \in S : T \subseteq S \ {w}
  <2>1. PICK w \in S : T \subseteq S \ {w}  BY <1>4
  <2>2. IsFiniteSet(S \ {w}) /\ Cardinality(S \ {w}) = Cardinality(S) - 1
    BY <1>1, FS_RemoveElement
  <2>3. Cardinality(T) <= Cardinality(S \ {w})  BY <2>1, <2>2, FS_Subset
  <2> QED  BY <1>0, <1>4, <2>2, <2>3
<1> QED  BY <1>2, <1>3, <1>4 DEF Moved

LEMMA KeyMoves ==
  ASSUME TypeOK, GatewayPoints, NEW k \in Keys,
         (\E w \in Workers : RequestEffect(w)) \/ Stops \/ Lowers
  PROVE  Moved(redis[k].count, Toward(k), redis'[k].count, Toward(k)', HourlyLimit[k])
<1>0. /\ redis \in [Keys -> [count : Nat, ttl : BOOLEAN]]
      /\ redis[k].count \in Nat
  BY DEF TypeOK
<1> USE DEF Moved
<1>1. ASSUME NEW w \in Workers, redis' = redis, w \in Toward(k)' => w \in Toward(k),
             \A v \in Workers \ {w} : task'[v] = task[v]
      PROVE  Moved(redis[k].count, Toward(k), redis'[k].count, Toward(k)', HourlyLimit[k])
  <2>1. Toward(k)' \subseteq Toward(k)  BY <1>1 DEF Toward, At, User
  <2> QED  BY <1>0, <1>1, <2>1
<1>2. ASSUME NEW w \in Workers, NEW key, NEW here, NEW pc, NEW counted,
             Passes(w, key, here, pc, counted),
             key # k => (w \in Toward(k)' => w \in Toward(k))
      PROVE  Moved(redis[k].count, Toward(k), redis'[k].count, Toward(k)', HourlyLimit[k])
  <2>1. CASE key = k  BY <1>0, <1>2, <2>1 DEF Passes, Settled
  <2>2. CASE key # k  BY <1>1, <1>2, <2>2 DEF Passes, Settled, RequestBecomes
  <2> QED  BY <2>1, <2>2
<1>3. ASSUME NEW w \in Workers, Counts(w)
      PROVE  Moved(redis[k].count, Toward(k), redis'[k].count, Toward(k)', HourlyLimit[k])
  <2>1. Toward(k)' \subseteq Toward(k) \ {w}
    BY <1>3 DEF Counts, RequestBecomes, Toward, At, User
  <2>2. CASE k \in {User(w), Global}
    <3>1. redis'[k].count = redis[k].count + 1  BY <1>3, <2>2 DEF Counts
    <3>2. w \in Toward(k)
      BY <1>3, <2>2 DEF Counts, GatewayPoints, Toward, At
    <3> QED  BY <1>0, <2>1, <3>1, <3>2
  <2>3. CASE k \notin {User(w), Global}
    <3>1. redis'[k].count = redis[k].count  BY <1>0, <1>3, <2>3 DEF Counts
    <3> QED  BY <1>0, <2>1, <3>1
  <2> QED  BY <2>2, <2>3
<1>4. ASSUME NEW w \in Workers, NEW key \in Keys, Refreshes(w, key)
      PROVE  Moved(redis[k].count, Toward(k), redis'[k].count, Toward(k)', HourlyLimit[k])
  <2>1. redis'[k].count = redis[k].count  BY <1>0, <1>4 DEF Refreshes
  <2>2. Toward(k)' \subseteq Toward(k)
    BY <1>4 DEF Refreshes, RequestBecomes, Toward, At, User
  <2> QED  BY <1>0, <2>1, <2>2
<1>5. CASE Stops
  <2>1. Toward(k)' = {}  BY <1>5 DEF Stops, Toward, Idle, At
  <2> QED  BY <1>0, <1>5, <2>1 DEF Stops
<1>6. CASE Lowers
  <2>1. Toward(k)' = Toward(k)  BY <1>6 DEF Lowers, Toward, At, User
  <2>2. redis'[k].count <= redis[k].count  BY <1>0, <1>6 DEF Lowers
  <2> QED  BY <2>1, <2>2
<1>7. ASSUME NEW w \in Workers, RequestEffect(w)
      PROVE  Moved(redis[k].count, Toward(k), redis'[k].count, Toward(k)', HourlyLimit[k])
  <2>1. CASE \E u \in Users : Arrives(w, u)
    BY <1>1, <2>1 DEF Arrives, RequestBecomes, Settled, Toward, At
  <2>2. CASE Passes(w, Global, "checkGlobal", "checkUser", FALSE)
    <3>1. k # Global => w \notin Toward(k)'
      BY <2>2 DEF Passes, RequestBecomes, Toward, At
    <3> QED  BY <1>2, <2>2, <3>1
  <2>3. CASE Passes(w, User(w), "checkUser", "execute", TRUE)
    <3>1. k # User(w) => (w \in Toward(k)' => w \in Toward(k))
      BY <2>3 DEF Passes, RequestBecomes, Toward, At, User
    <3> QED  BY <1>2, <2>3, <3>1
  <2>4. CASE \E pc \in {"execute", "calling", "incr"} : MovesOn(w, pc)
    <3>1. w \in Toward(k)' => w \in Toward(k)
      BY <2>4 DEF MovesOn, RequestBecomes, Toward, At, User, GatewayPoints
    <3> QED  BY <1>1, <2>4, <3>1 DEF MovesOn, RequestBecomes, Settled
  <2>5. CASE Leaves(w)  BY <1>1, <2>5 DEF Leaves, RequestBecomes, Settled, Toward, At
  <2>6. CASE (\E usage \in {"add", "start"} : Reads(w, usage)) \/ Draws(w)
    BY <1>1, <2>6 DEF Reads, Draws, RequestBecomes, Settled, Toward, At, User
  <2> QED  BY <1>3, <1>4, <1>7, <2>1, <2>2, <2>3, <2>4, <2>5, <2>6 DEF RequestEffect
<1> QED  BY <1>5, <1>6, <1>7

LEMMA QuotaMoves ==
  ASSUME TypeOK, GatewayPoints, NEW u \in Users,
         (\E w \in Workers : RequestEffect(w)) \/ Stops \/ Lowers
  PROVE  Moved(Used(u), Drawing(u), Used(u)', Drawing(u)', PlanLimit[u])
<1>0. /\ quota \in [Users -> [used : Nat, window : Windows]]
      /\ quota[u].used \in Nat /\ Used(u) \in Nat
      /\ \A w \in Workers : User(w) \in Users
  BY DEF TypeOK, Used, TaskRecord, User
<1> USE DEF Moved
<1>1. quota' = quota => Used(u)' = Used(u)  BY DEF Used, windowExpired
<1>2. ASSUME NEW w \in Workers, quota' = quota, w \in Drawing(u)' => w \in Drawing(u),
             \A v \in Workers \ {w} : task'[v] = task[v]
      PROVE  Moved(Used(u), Drawing(u), Used(u)', Drawing(u)', PlanLimit[u])
  <2>1. Drawing(u)' \subseteq Drawing(u)  BY <1>2 DEF Drawing, User
  <2> QED  BY <1>0, <1>1, <1>2, <2>1
<1>3. ASSUME NEW w \in Workers, NEW v \in Users, Arrives(w, v)
      PROVE  Moved(Used(u), Drawing(u), Used(u)', Drawing(u)', PlanLimit[u])
  <2>1. CASE v = u  BY <1>0, <1>1, <1>3, <2>1 DEF Arrives, Settled
  <2>2. CASE v # u
    <3>1. w \notin Drawing(u)'  BY <1>3, <2>2 DEF Arrives, RequestBecomes, Drawing, User
    <3> QED  BY <1>2, <1>3, <3>1 DEF Arrives, RequestBecomes, Settled
  <2> QED  BY <2>1, <2>2
<1>4. ASSUME NEW w \in Workers, Draws(w)
      PROVE  Moved(Used(u), Drawing(u), Used(u)', Drawing(u)', PlanLimit[u])
  <2>1. Drawing(u)' \subseteq Drawing(u) \ {w}
    BY <1>4 DEF Draws, RequestBecomes, Drawing, User, GatewayPoints, At
  <2>2. CASE User(w) = u
    <3>1. w \in Drawing(u)  BY <1>4, <2>2 DEF Draws, Drawing
    <3>2. Used(u)' <= Used(u) + 1
      <4>1. CASE task[w].usage = "start"
        BY <1>0, <1>4, <2>2, <4>1 DEF Draws, Used, windowExpired
      <4>2. CASE task[w].usage = "add"
        <5>1. /\ quota'[u].window = quota[u].window
              /\ quota'[u].used = quota[u].used + 1
          BY <1>0, <1>4, <2>2, <4>2 DEF Draws
        <5> QED  BY <1>0, <5>1 DEF Used, windowExpired
      <4> QED  BY <1>4, <4>1, <4>2 DEF Draws
    <3> QED  BY <2>1, <3>1, <3>2
  <2>3. CASE User(w) # u
    <3>1. quota'[u] = quota[u]  BY <1>0, <1>4, <2>3 DEF Draws
    <3>2. Used(u)' = Used(u)  BY <3>1 DEF Used, windowExpired
    <3> QED  BY <1>0, <2>1, <3>2
  <2> QED  BY <2>2, <2>3
<1>5. CASE Stops
  <2>1. Drawing(u)' = {}  BY <1>5 DEF Stops, Drawing, Idle
  <2> QED  BY <1>0, <1>1, <1>5, <2>1 DEF Stops
<1>6. CASE Lowers
  <2>1. Drawing(u)' = Drawing(u)  BY <1>6 DEF Lowers, Drawing, User
  <2> QED  BY <1>6, <2>1 DEF Lowers
<1>7. ASSUME NEW w \in Workers, RequestEffect(w)
      PROVE  Moved(Used(u), Drawing(u), Used(u)', Drawing(u)', PlanLimit[u])
  <2>1. CASE \/ Passes(w, Global, "checkGlobal", "checkUser", FALSE)
             \/ Passes(w, User(w), "checkUser", "execute", TRUE)
             \/ \E pc \in {"execute", "calling", "incr"} : MovesOn(w, pc)
    <3>1. w \in Drawing(u)' => w \in Drawing(u)
      BY <2>1 DEF Passes, MovesOn, RequestBecomes, Drawing, At, User
    <3> QED  BY <1>2, <2>1, <3>1 DEF Passes, MovesOn, RequestBecomes, Settled
  <2>2. CASE Leaves(w)
    BY <1>2, <2>2 DEF Leaves, RequestBecomes, Settled, Drawing
  <2>3. CASE Counts(w)
    BY <1>2, <2>3 DEF Counts, RequestBecomes, Drawing, User, At
  <2>4. CASE \E usage \in {"add", "start"} : Reads(w, usage)
    BY <1>2, <2>4 DEF Reads, RequestBecomes, Settled, Drawing, User
  <2>5. CASE \E key \in Keys : Refreshes(w, key)
    BY <1>2, <2>5 DEF Refreshes, RequestBecomes, Drawing, User
  <2> QED  BY <1>3, <1>4, <1>7, <2>1, <2>2, <2>3, <2>4, <2>5 DEF RequestEffect
<1> QED  BY <1>5, <1>6, <1>7

LEMMA OveruseStep ==
  ASSUME TypeOK, GatewayPoints, KeysInv, QuotasInv, [Next]_vars
  PROVE  KeysInv' /\ QuotasInv'
<1>0. (\E w \in Workers : RequestEffect(w)) \/ Stops \/ Lowers  BY GatewaySteps
<1>1. TypeOK'  BY Inductive
<1>2. ASSUME NEW k \in Keys
      PROVE  redis'[k].count + Cardinality(Toward(k)') <= HourlyLimit[k] + N - 1
  <2>1. /\ HourlyLimit[k] \in Nat /\ redis[k].count \in Nat /\ redis'[k].count \in Nat
        /\ Toward(k) \in SUBSET Workers /\ Toward(k)' \in SUBSET Workers
    BY <1>1 DEF TypeOK, Toward
  <2>2. Moved(redis[k].count, Toward(k), redis'[k].count, Toward(k)', HourlyLimit[k])
    BY <1>0, KeyMoves
  <2> QED  BY <2>1, <2>2, Tally DEF KeysInv
<1>3. ASSUME NEW u \in Users
      PROVE  Used(u)' + Cardinality(Drawing(u)') <= PlanLimit[u] + N - 1
  <2>1. /\ PlanLimit[u] \in Nat /\ Used(u) \in Nat /\ Used(u)' \in Nat
        /\ Drawing(u) \in SUBSET Workers /\ Drawing(u)' \in SUBSET Workers
    BY <1>1 DEF TypeOK, Drawing, Used
  <2>2. Moved(Used(u), Drawing(u), Used(u)', Drawing(u)', PlanLimit[u])
    BY <1>0, QuotaMoves
  <2> QED  BY <2>1, <2>2, Tally DEF QuotasInv
<1> QED  BY <1>2, <1>3 DEF KeysInv, QuotasInv, N

(* For any number of requests in flight, users and limits: a counter, and  *)
(* what was used of a quota, exceeds its limit by fewer than the requests  *)
(* in flight (aiRateLimit, checkPlanLimit).                                *)
THEOREM OveruseIsBounded == Spec => []OveruseBounded
<1>1. Init => KeysInv /\ QuotasInv
  <2> SUFFICES ASSUME Init PROVE KeysInv /\ QuotasInv
    OBVIOUS
  <2>1. \A k \in Keys : Toward(k) = {}  BY DEF Init, Toward, Idle, At
  <2>2. \A u \in Users : Drawing(u) = {}  BY DEF Init, Drawing, Idle
  <2>4. \A u \in Users : Used(u) = 0  BY DEF Init, Used, windowExpired
  <2>3. \A k \in Keys : redis[k].count = 0  BY DEF Init
  <2>5. Cardinality({}) = 0  BY FS_EmptySet
  <2>6. ASSUME NEW l \in Nat PROVE 0 + 0 <= l + N - 1
    BY Sizes
  <2>7. ASSUME NEW k \in Keys
        PROVE  redis[k].count + Cardinality(Toward(k)) <= HourlyLimit[k] + N - 1
    <3>1. HourlyLimit[k] \in Nat /\ redis[k].count = 0 /\ Cardinality(Toward(k)) = 0
      BY <2>1, <2>3, <2>5
    <3> QED  BY <2>6, <3>1
  <2>8. ASSUME NEW u \in Users
        PROVE  Used(u) + Cardinality(Drawing(u)) <= PlanLimit[u] + N - 1
    <3>1. PlanLimit[u] \in Nat /\ Used(u) = 0 /\ Cardinality(Drawing(u)) = 0
      BY <2>2, <2>4, <2>5
    <3> QED  BY <2>6, <3>1
  <2> QED  BY <2>7, <2>8 DEF KeysInv, QuotasInv
<1>2. TypeOK /\ GatewayPoints /\ KeysInv /\ QuotasInv /\ [Next]_vars
        => KeysInv' /\ QuotasInv'
  BY OveruseStep
<1>3. KeysInv /\ QuotasInv /\ TypeOK => OveruseBounded
  <2> SUFFICES ASSUME KeysInv, QuotasInv, TypeOK PROVE OveruseBounded
    OBVIOUS
  <2>1. /\ \A k \in Keys : redis[k].count \in Nat /\ HourlyLimit[k] \in Nat
        /\ \A u \in Users : Used(u) \in Nat /\ PlanLimit[u] \in Nat
    BY DEF TypeOK, Used
  <2>2. /\ \A k \in Keys : Cardinality(Toward(k)) \in Nat
        /\ \A u \in Users : Cardinality(Drawing(u)) \in Nat
    BY Sizes DEF Toward, Drawing
  <2> QED  BY <2>1, <2>2, Sizes DEF KeysInv, QuotasInv, OveruseBounded, N
<1> QED  BY <1>1, <1>2, <1>3, GatewayTypeSafe, PTL DEF Spec
=============================================================================
