---------------------------- MODULE MCWithdrawal ----------------------------
(* One owner, whose requests and escrows share a wallet.  Either two        *)
(* workers race for requests of his, or several requests are made and       *)
(* handled in turn, by a gateway that loses no answer and with no escrows.   *)
EXTENDS Withdrawal, TLC

CONSTANTS
  owner,
  Raced     \* the requests that the two workers race for

ASSUME MCAssumption == 1 \in Workers

VARIABLE mode

MCUsers == {owner}
MCOwnerOf == [r \in Withdrawals |-> owner]

Racing ==
  /\ mode = "racing"
  /\ \A r \in Withdrawals \ Raced : request'[r] = request[r]
  /\ wallet'[owner].deposited <= 3
OneByOne ==
  /\ mode = "in turn" /\ InTurn(1)
  /\ \A r, s \in Withdrawals :
       r < s /\ request'[r].status = "none" => request'[s].status = "none"

MCInit == Init /\ mode \in {"racing", "in turn"}
MCNext == Next /\ (Racing \/ OneByOne) /\ UNCHANGED mode
MCFairness == \A w \in Workers : WF_vars(Continue(w))
MCSpec == MCInit /\ [][MCNext]_<<vars, mode>> /\ MCFairness

(* SettledAsSaid of the requests that are handled in turn. *)
SettledInTurn == mode = "in turn" => SettledAsSaid
=============================================================================
