--------------------------- MODULE MCSubscription ---------------------------
(* One user, two plans that cost 1 and 2, one request and the cron.        *)
EXTENDS Subscription

MCPrice == <<1, 2>>
MCRequests == {"purchase", "upgrade", "callback", "cancel", "reactivate",
               "scheduleDowngrade", "cancelDowngrade", "grant", "deposit"}
=============================================================================
