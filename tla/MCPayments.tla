----------------------------- MODULE MCPayments -----------------------------
(***************************************************************************)
(* Small instances of Payments for TLC.                                    *)
(***************************************************************************)
EXTENDS Payments

\* A handler that fails after the credits were granted has them granted again.
CreditFirst == <<"credit", "mail">>
=============================================================================
