----------------------------- MODULE MCServices -----------------------------
(* Three services that share no state, each with its own behaviours: which  *)
(* one moves is chosen at the start.                                        *)
EXTENDS Campaign, Messaging, Reviews, TLC

CONSTANTS c1, c2, ann, bob, cid

VARIABLE service

servicesVars == <<campaignVars, messagingVars, reviewsVars, service>>

\* bob is reviewed as a freelancer and as a client.
MCParties == c1 :> [client |-> ann, freelancer |-> bob] @@ c2 :> [client |-> bob, freelancer |-> cid]

MCRatings ==
  c1 :> [client |-> {5}, freelancer |-> {}] @@ c2 :> [client |-> {}, freelancer |-> {4}]

Services == {"campaign", "messaging", "reviews"}

ServicesInit ==
  CampaignInit /\ MessagingInit /\ ReviewsInit /\ service \in Services

ServicesNext ==
  \/ service = "campaign" /\ CampaignNext /\ UNCHANGED <<messagingVars, reviewsVars, service>>
  \/ service = "messaging" /\ MessagingNext /\ UNCHANGED <<campaignVars, reviewsVars, service>>
  \/ service = "reviews" /\ ReviewsNext /\ UNCHANGED <<campaignVars, messagingVars, service>>

ServicesSpec == ServicesInit /\ [][ServicesNext]_servicesVars /\ CampaignFairness
=============================================================================
