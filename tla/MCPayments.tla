----------------------------- MODULE MCPayments -----------------------------
(* Small instances of Payments for TLC.                                    *)
EXTENDS Payments, TLC

CONSTANTS a1, a2, k1, r1, r2

\* One student whose card works and one whose card is declined; the second
\* student's lesson has no coach on the platform.
MCCards == (a1 :> "good") @@ (a2 :> "declined")
MCCoachOf == (a1 :> k1) @@ (a2 :> None)

\* Both cards work, one coach teaches both.
MCGoodCards == [a \in Apps |-> "good"]
MCOneCoach == [a \in Apps |-> k1]
============================================================================
