------------------------------ MODULE MCLedger ------------------------------
(* The instance of Ledger for TLC. *)
EXTENDS Ledger

\* Orders one after the other with restarts, and a page that is saved while
\* the core thread makes an entry.
MCScenarios ==
  { [tests |-> 3, saves |-> 1, crashes |-> 2, begun |-> TRUE, overlap |-> FALSE],
    [tests |-> 1, saves |-> 2, crashes |-> 0, begun |-> FALSE, overlap |-> TRUE] }
=============================================================================
