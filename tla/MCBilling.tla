------------------------------ MODULE MCBilling ------------------------------
(***************************************************************************)
(* Instances of Billing for TLC.                                           *)
(***************************************************************************)
EXTENDS Billing

(* "Single idempotent write path for a paid Razorpay order" and "Renew     *)
(* payment to restore full access": a captured payment is applied.  The    *)
(* row of an earlier failed attempt holds the order's place in the unique  *)
(* index of payment_transactions, so the application fails for ever.       *)
CapturedIsAlwaysApplied ==
  \A o \in Orders : CapturedFor(o) # {} ~> history.invoices[o] > 0

=============================================================================
