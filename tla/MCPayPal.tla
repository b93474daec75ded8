----------------------------- MODULE MCPayPal -----------------------------
(***************************************************************************)
(* Small instances of PayPal for TLC.                                      *)
(***************************************************************************)
EXTENDS PayPal, TLC

CONSTANTS order, cancel, event

\* An order to capture, a subscription to cancel, and a webhook event that
\* PayPal never sent.
Asked == [r \in {order, cancel, event} |->
            CASE r = order  -> "capture_order"
              [] r = cancel -> "cancel_subscription"
              [] OTHER      -> "verify_webhook_signature"]
=============================================================================
