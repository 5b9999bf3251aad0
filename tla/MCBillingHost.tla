---------------------------- MODULE MCBillingHost ----------------------------
(* A small instance of BillingHost for TLC. *)
EXTENDS BillingHost

OneRung == <<1>>
=============================================================================
