------------------------------ MODULE Identity ------------------------------
(***************************************************************************)
(* Identity cards (CNIC): src/modules/cnic/cnic.service.cloudinary.js, the *)
(* job of src/workers/ocr.worker.js and the calls of                       *)
(* src/config/cloudinary.js they are made of.                              *)
(*                                                                         *)
(* The card is a part of the User document; its images are stored at       *)
(* Cloudinary, which is external.  Every request reads the document, calls *)
(* Cloudinary or the text recognition, and saves: a submission saves the   *)
(* whole card it has read with its changes, an admin's decision and the    *)
(* recognition the fields they changed.  One action is one awaited call.   *)
(***************************************************************************)
EXTENDS Naturals

CONSTANTS
  Holders,
  Handlers,   \* requests that may be in flight together
  Uploads,    \* bound: the pairs of images that are uploaded
  OwnerOf,    \* upload -> the user who submits it
  Numbers,    \* numbers on cards
  Absent,       \* no images, no number
  MAX_SUBMISSIONS_PER_DAY

ASSUME IdentityAssumption ==
  /\ Holders # {}
  /\ OwnerOf \in [Uploads -> Holders]
  /\ Absent \notin Uploads \cup Numbers
  /\ MAX_SUBMISSIONS_PER_DAY \in Nat

VARIABLES
  card,      \* user -> what the User document says of his card
  stored,    \* the images that are stored, <<upload, side>>
  handler,   \* request in flight -> what it remembers
  jobs,      \* uploads with a recognition job in the queue
  begun,     \* history: uploads whose submission has begun
  abandoned, \* history: uploads a request was at work on when it broke off,
             \* when its save failed or when Cloudinary did not delete
  overlapped \* history: two requests have been in flight together

identityVars == <<card, stored, handler, jobs, begun, abandoned, overlapped>>

Sides == {"front", "back"}
ValidStatuses == {"not_submitted", "pending", "under_review", "verified",
                  "rejected", "reupload_requested"}
\* The job sets two more, which are not in the enumeration of the User model.
CardStatuses == ValidStatuses \cup {"pending_verification", "ocr_failed"}
\* today: entries of submissionHistory.  ocr: the number that was recognised.
Cards == [status : CardStatuses, images : Uploads \cup {Absent},
          number : Numbers \cup {Absent}, ocr : Numbers \cup {Absent}, today : Nat]
NoCard == [status |-> "not_submitted", images |-> Absent, number |-> Absent,
           ocr |-> Absent, today |-> 0]
NoHandler == [at |-> "idle", user |-> CHOOSE u \in Holders : TRUE, seen |-> NoCard,
              upload |-> Absent, number |-> Absent]
CardSteps == {"idle", "uploadFront", "uploadBack", "rollbackFront", "deleteOld",
                 "saveSubmitted", "rollbackSaved", "addJob", "findDuplicate",
                 "saveVerified", "deleteRejected", "saveRejected",
                 "deleteReupload", "saveReupload", "saveOcr"}

IdentityInit ==
  /\ card = [u \in Holders |-> NoCard]
  /\ stored = {}
  /\ handler = [q \in Handlers |-> NoHandler]
  /\ jobs = {}
  /\ begun = {} /\ abandoned = {} /\ overlapped = FALSE

ImagesOf(i) == {i} \X Sides

\* The uploads q is at work on: not yet in the document, or no longer to be.
InHand(q) ==
  LET r == handler[q] IN
  CASE r.at \in {"uploadBack", "rollbackFront", "deleteOld"} -> {r.upload}
    [] r.at \in {"saveSubmitted", "rollbackSaved"} -> {r.upload, r.seen.images}
    [] r.at \in {"saveRejected", "saveReupload"} -> {r.seen.images}
    [] OTHER -> {}

-----------------------------------------------------------------------------
(* A request begins by reading the document; seen is what it uses of that   *)
(* later on: what it saves unchanged, or changes if it was not so already.  *)
BeginCard(q, u, step, seen, upload, number) ==
  /\ handler[q].at = "idle"
  /\ handler' = [handler EXCEPT ![q] = [at |-> step, user |-> u, seen |-> seen,
                                        upload |-> upload, number |-> number]]
  /\ UNCHANGED <<card, stored, jobs, abandoned>>

CardAt(q, step) == handler[q].at = step
Proceed(q, step) == handler' = [handler EXCEPT ![q].at = step]
EndCard(q) == handler' = [handler EXCEPT ![q] = NoHandler]
SaveCard(q, new) == card' = [card EXCEPT ![handler[q].user] = new]
\* save() writes the fields that differ from what was read.
SaveEdit(q, new) ==
  LET r == handler[q]
      now == card[r.user]
      saved(field) == IF new[field] = r.seen[field] THEN now[field] ELSE new[field]
  IN  SaveCard(q, [now EXCEPT !.status = saved("status"), !.images = saved("images"),
                              !.number = saved("number"), !.ocr = saved("ocr")])

SubmitCNIC(q, i) ==
  LET u == OwnerOf[i] IN
  /\ i \notin begun
  /\ card[u].status \notin {"verified", "pending", "under_review"}
  /\ card[u].today < MAX_SUBMISSIONS_PER_DAY
  /\ BeginCard(q, u, "uploadFront",
               [card[u] EXCEPT !.status = NoCard.status, !.ocr = Absent], i, Absent)
  /\ begun' = begun \cup {i}

\* An upload that fails ends the request, after what it uploaded is deleted.
UploadFront(q) ==
  /\ CardAt(q, "uploadFront")
  /\ \/ stored' = stored \cup {<<handler[q].upload, "front">>} /\ Proceed(q, "uploadBack")
     \/ UNCHANGED stored /\ EndCard(q)
  /\ UNCHANGED <<card, jobs, begun, abandoned>>

\* Mutant: the front is left when the back is refused.
UploadBackAlone(q) ==
  /\ CardAt(q, "uploadBack")
  /\ \/ /\ stored' = stored \cup {<<handler[q].upload, "back">>}
        /\ Proceed(q, IF handler[q].seen.images = Absent THEN "saveSubmitted" ELSE "deleteOld")
     \/ UNCHANGED stored /\ EndCard(q)
  /\ UNCHANGED <<card, jobs, begun, abandoned>>

UploadBack(q) ==
  /\ CardAt(q, "uploadBack")
  /\ \/ /\ stored' = stored \cup {<<handler[q].upload, "back">>}
        /\ Proceed(q, IF handler[q].seen.images = Absent THEN "saveSubmitted" ELSE "deleteOld")
     \/ UNCHANGED stored /\ Proceed(q, "rollbackFront")
  /\ UNCHANGED <<card, jobs, begun, abandoned>>

\* Deleting never throws: images that are not deleted stay without a word.
DeleteStored(i, images) ==
  \/ stored' = stored \ images /\ UNCHANGED abandoned
  \/ UNCHANGED stored /\ abandoned' = abandoned \cup {i}

RollbackFront(q) ==
  /\ CardAt(q, "rollbackFront")
  /\ DeleteStored(handler[q].upload, {<<handler[q].upload, "front">>})
  /\ EndCard(q)
  /\ UNCHANGED <<card, jobs, begun>>

DeleteOld(q) ==
  /\ CardAt(q, "deleteOld")
  /\ DeleteStored(handler[q].seen.images, ImagesOf(handler[q].seen.images))
  /\ Proceed(q, "saveSubmitted")
  /\ UNCHANGED <<card, jobs, begun>>

\* The whole card is written, as it was read but for what is submitted.
SaveSubmitted(q) ==
  LET r == handler[q] IN
  /\ CardAt(q, "saveSubmitted")
  /\ \/ /\ SaveCard(q, [r.seen EXCEPT !.status = "pending", !.images = r.upload,
                                  !.ocr = Absent, !.today = @ + 1])
        /\ Proceed(q, "addJob") /\ UNCHANGED abandoned
     \/ /\ Proceed(q, "rollbackSaved") /\ UNCHANGED card
        /\ abandoned' = abandoned \cup ({r.seen.images} \ {Absent})
  /\ UNCHANGED <<stored, jobs, begun>>

RollbackSaved(q) ==
  /\ CardAt(q, "rollbackSaved")
  /\ DeleteStored(handler[q].upload, ImagesOf(handler[q].upload))
  /\ EndCard(q)
  /\ UNCHANGED <<card, jobs, begun>>

\* Without Redis, or when the queue refuses, there is no job.
AddOcrJob(q) ==
  /\ CardAt(q, "addJob")
  /\ jobs' = jobs \cup {handler[q].upload} \/ UNCHANGED jobs
  /\ EndCard(q)
  /\ UNCHANGED <<card, stored, begun, abandoned>>

-----------------------------------------------------------------------------
(* Decisions of the admins *)
ApproveCNIC(q, u, n) ==
  /\ card[u].status \notin {"not_submitted", "verified"}
  /\ BeginCard(q, u, "findDuplicate",
               [NoCard EXCEPT !.number = card[u].number], Absent, n)
  /\ UNCHANGED begun

\* Mutant: only the cards that are verified now are searched.
FindVerified(q) ==
  /\ CardAt(q, "findDuplicate")
  /\ IF \E v \in Holders \ {handler[q].user} :
          card[v].status = "verified" /\ card[v].number = handler[q].number
     THEN EndCard(q) ELSE Proceed(q, "saveVerified")
  /\ UNCHANGED <<card, stored, jobs, begun, abandoned>>

FindDuplicate(q) ==
  /\ CardAt(q, "findDuplicate")
  /\ IF \E v \in Holders \ {handler[q].user} :
          handler[q].number \in {card[v].number, card[v].ocr}
     THEN EndCard(q) ELSE Proceed(q, "saveVerified")
  /\ UNCHANGED <<card, stored, jobs, begun, abandoned>>

SaveVerified(q) ==
  /\ CardAt(q, "saveVerified")
  /\ SaveEdit(q, [handler[q].seen EXCEPT !.status = "verified", !.number = handler[q].number])
  /\ EndCard(q)
  /\ UNCHANGED <<stored, jobs, begun, abandoned>>

RejectCNIC(q, u) ==
  /\ card[u].status # "not_submitted"
  /\ BeginCard(q, u, IF card[u].images = Absent THEN "saveRejected" ELSE "deleteRejected",
               [card[u] EXCEPT !.number = Absent, !.today = 0], Absent, Absent)
  /\ UNCHANGED begun

RequestReupload(q, u) ==
  /\ card[u].status # "not_submitted"
  /\ BeginCard(q, u, IF card[u].images = Absent THEN "saveReupload" ELSE "deleteReupload",
               [card[u] EXCEPT !.number = Absent, !.ocr = Absent, !.today = 0], Absent, Absent)
  /\ UNCHANGED begun

DeleteImages(q) ==
  /\ \/ CardAt(q, "deleteRejected") /\ Proceed(q, "saveRejected")
     \/ CardAt(q, "deleteReupload") /\ Proceed(q, "saveReupload")
  /\ DeleteStored(handler[q].seen.images, ImagesOf(handler[q].seen.images))
  /\ UNCHANGED <<card, jobs, begun>>

SaveRejected(q) ==
  /\ CardAt(q, "saveRejected")
  /\ SaveEdit(q, [handler[q].seen EXCEPT !.status = "rejected", !.images = Absent, !.ocr = Absent])
  /\ EndCard(q)
  /\ UNCHANGED <<stored, jobs, begun, abandoned>>

\* Mutant: the document keeps the images that were deleted.
SaveReuploadKeepingImages(q) ==
  /\ CardAt(q, "saveReupload")
  /\ SaveEdit(q, [handler[q].seen EXCEPT !.status = "reupload_requested"])
  /\ EndCard(q)
  /\ UNCHANGED <<stored, jobs, begun, abandoned>>

SaveReupload(q) ==
  /\ CardAt(q, "saveReupload")
  /\ SaveEdit(q, [handler[q].seen EXCEPT !.status = "reupload_requested", !.images = Absent])
  /\ EndCard(q)
  /\ UNCHANGED <<stored, jobs, begun, abandoned>>

-----------------------------------------------------------------------------
(* Recognition, at an admin's request and as a job.  The document cannot be *)
(* saved with the status the job sets: save() validates what it has read.   *)
RunOCRExtraction(q, u) ==
  /\ card[u].images # Absent
  /\ card[u].status \in ValidStatuses
  /\ BeginCard(q, u, "saveOcr", [NoCard EXCEPT !.ocr = card[u].ocr], Absent, Absent)
  /\ UNCHANGED begun

\* What is recognised in the images, if anything.
SaveOcr(q) ==
  /\ CardAt(q, "saveOcr")
  /\ \E n \in Numbers \cup {Absent} : SaveEdit(q, [handler[q].seen EXCEPT !.ocr = n])
  /\ EndCard(q)
  /\ UNCHANGED <<stored, jobs, begun, abandoned>>

(* The worker sets the status too, and without the document's validation.   *)
(* When a number was recognised it names it twice in one update, which the  *)
(* database refuses.  A job that throws is tried again, which changes       *)
(* nothing, until its last try has failed.                                  *)
OcrJob(i) ==
  /\ i \in jobs /\ jobs' = jobs \ {i}
  /\ \/ \E status \in {"pending_verification", "ocr_failed"} :
          card' = [card EXCEPT ![OwnerOf[i]].ocr = Absent, ![OwnerOf[i]].status = status]
     \/ UNCHANGED card
  /\ UNCHANGED <<stored, handler, begun, abandoned>>

\* The server stops, or a call that is not expected to fail throws.
BreakOffCard(q) ==
  /\ handler[q].at # "idle"
  /\ EndCard(q)
  /\ abandoned' = abandoned \cup (InHand(q) \ {Absent})
  /\ UNCHANGED <<card, stored, jobs, begun>>

IdentityStep ==
  \/ \E q \in Handlers :
       \/ \E i \in Uploads : SubmitCNIC(q, i)
       \/ \E u \in Holders : \/ \E n \in Numbers : ApproveCNIC(q, u, n)
                           \/ RejectCNIC(q, u) \/ RequestReupload(q, u)
                           \/ RunOCRExtraction(q, u)
       \/ UploadFront(q) \/ UploadBack(q) \/ RollbackFront(q) \/ DeleteOld(q)
       \/ SaveSubmitted(q) \/ RollbackSaved(q) \/ AddOcrJob(q)
       \/ FindDuplicate(q) \/ SaveVerified(q)
       \/ DeleteImages(q) \/ SaveRejected(q) \/ SaveReupload(q) \/ SaveOcr(q)
       \/ BreakOffCard(q)
  \/ \E i \in Uploads : OcrJob(i)

Overlap ==
  \E p, q \in Handlers : p # q /\ handler[p].at # "idle" /\ handler[q].at # "idle"
IdentityNext == IdentityStep /\ overlapped' = (overlapped \/ Overlap')

IdentitySpec == IdentityInit /\ [][IdentityNext]_identityVars

-----------------------------------------------------------------------------
CardTypesOK ==
  /\ card \in [Holders -> Cards]
  /\ stored \subseteq Uploads \X Sides
  /\ handler \in [Handlers -> [at : CardSteps, user : Holders, seen : Cards,
                               upload : Uploads \cup {Absent},
                               number : Numbers \cup {Absent}]]
  /\ jobs \subseteq Uploads
  /\ begun \subseteq Uploads
  /\ abandoned \subseteq Uploads

IdentityTypeOK == CardTypesOK /\ overlapped \in BOOLEAN

\* Whatever overlaps, the images a card refers to are stored, except while a
\* request is replacing them or after one broke off there: the documents are
\* saved after the images have been deleted.
ImagesKept ==
  \A u \in Holders :
    LET i == card[u].images IN
    i \notin {Absent} \cup abandoned \cup UNION {InHand(q) : q \in Handlers}
      => ImagesOf(i) \subseteq stored

NoImageIsLeft ==
  \A image \in stored :
    \/ image[1] \in abandoned
    \/ \E q \in Handlers : image[1] \in InHand(q)
    \/ \E u \in Holders : card[u].images = image[1]

OneUserPerCard ==
  \A u, v \in Holders : card[u].number # Absent /\ card[u].number = card[v].number => u = v

\* As long as no two requests have been in flight together, images that no card
\* refers to are not kept: submitCNIC rolls its uploads back.
NoImageIsLeftInTurn == ~overlapped => NoImageIsLeft

(* "This CNIC number is already registered to another user" (line 454): no  *)
(* two cards have the same number, as long as no two requests have been in  *)
(* flight together.                                                         *)
OneUserPerCardInTurn == ~overlapped => OneUserPerCard

-----------------------------------------------------------------------------
(* A claim of the code that does not hold.                                  *)

\* "OCR is assistive only, not authoritative; Admin makes final verification
\* decision" (lines 25 and 26): a decision stands until the next request.
DecisionStands ==
  [][\A u \in Holders : card[u].status = "verified" /\ card'[u].status # "verified"
       => \E q \in Handlers : handler'[q] # handler[q]]_identityVars
=============================================================================
