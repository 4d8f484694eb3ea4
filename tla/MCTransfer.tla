------------------------------- MODULE MCTransfer -------------------------------
(* Amounts for Transfer: one that the opened account covers once and not      *)
(* twice, and a negative one, as the signed field of the request allows.      *)
EXTENDS Transfer

Amounts == {2, -1}
================================================================================
