-------------------------------- MODULE Fees --------------------------------
(***************************************************************************)
(* The platform fee (src/config/payment.config.js).  Amounts are whole     *)
(* rupees.  JavaScript's Math.round(x) is floor(x + 1/2), written here     *)
(* with integer division; the rounded percentage is then clamped, first    *)
(* from below and then from above, in the order of the code.               *)
(***************************************************************************)
EXTENDS Integers

CONSTANTS
  FeePercentage,   \* PLATFORM_FEE.percentage (5)
  MinimumFee,      \* PLATFORM_FEE.minimumFee (50)
  MaximumFee       \* PLATFORM_FEE.maximumFee (100000)

ASSUME FeeAssumption ==
  /\ FeePercentage \in 0..100
  /\ MinimumFee \in Nat
  /\ MaximumFee \in Nat
  /\ MinimumFee <= MaximumFee

\* Math.round((amount * percentage) / 100)
RoundedPercentage(amount, percentage) == (amount * percentage + 50) \div 100

CalculatePlatformFee(amount) ==
  LET rounded == RoundedPercentage(amount, FeePercentage)
      raised  == IF rounded < MinimumFee THEN MinimumFee ELSE rounded
  IN  IF raised > MaximumFee THEN MaximumFee ELSE raised

\* What is left for the freelancer; not positive when the minimum fee
\* reaches the amount.
CalculateFreelancerAmount(amount) == amount - CalculatePlatformFee(amount)
=============================================================================
