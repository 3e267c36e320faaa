------------------------------ MODULE MCLedger ------------------------------
(* Small instances of LedgerDevices for TLC. *)
EXTENDS LedgerDevices

CONSTANTS x, y
=============================================================================
