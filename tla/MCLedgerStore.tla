--------------------------- MODULE MCLedgerStore ---------------------------
(* Instances of LedgerStore for TLC: every constant is a bound or a switch. *)
EXTENDS LedgerStore
=============================================================================
