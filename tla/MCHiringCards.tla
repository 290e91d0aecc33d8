--------------------------- MODULE MCHiringCards ---------------------------
(* Two services that share no state, one of which moves: the requests about *)
(* jobs and proposals, also the admins', one after the other, or those      *)
(* about the identity cards of two users, which overlap when they are about *)
(* dan's.                                                                   *)
EXTENDS MCContract, Moderation, Identity

CONSTANTS cli, dan, eve, i1, i2, i3, h1, h2

VARIABLE service

marketVars == <<vars, moderationVars>>

MCClientOf == j1 :> cli
MCAdminRequests ==
  {"approveJob", "rejectJob", "flagJob", "adminDelete", "suspend", "activate"}
MCModerationRequests == MCHiringRequests \cup MCAdminRequests

MCOwnerOf == i1 :> dan @@ i2 :> dan @@ i3 :> eve

\* Requests that overlap find no number in dan's images.  Of requests in turn,
\* those about eve may break off.
Racing ==
  /\ card'[eve] = NoCard /\ card'[dan].ocr = Absent
  /\ \A q \in Handlers : handler'[q].at # "idle" => handler'[q].user = dan
InTurn == ~overlapped' /\ abandoned' \in {{}, {i3}}

\* With moderation nothing is viewed or edited.
Unmoderated ==
  UNCHANGED moderationVars /\ \A w \in Workers : task'[w].op \notin MCAdminRequests
Unviewed == \A p \in Proposals : ~proposal'[p].viewed /\ ~proposal'[p].edited

HiringCardsInit ==
  Init /\ ModerationInit /\ IdentityInit /\ service \in {"hiring", "moderation", "cards racing", "cards in turn"}

HiringCardsNext ==
  \/ service = "hiring" /\ ModerationNext /\ Unmoderated
     /\ UNCHANGED <<contractVars, identityVars, service>>
  \/ service = "moderation" /\ ModerationNext /\ Unviewed
     /\ UNCHANGED <<contractVars, identityVars, service>>
  \/ service = "cards racing" /\ IdentityNext /\ Racing /\ UNCHANGED <<marketVars, service>>
  \/ service = "cards in turn" /\ IdentityNext /\ InTurn /\ UNCHANGED <<marketVars, service>>

HiringCardsSpec ==
  HiringCardsInit /\ [][HiringCardsNext]_<<marketVars, identityVars, service>>

HiringCardsSymmetry == Permutations({h1, h2}) \cup Permutations({i1, i2})
=============================================================================
