-------------------------- MODULE MCProgressList --------------------------
(* The instance of ProgressList for TLC. *)
EXTENDS ProgressList

\* The core thread alone; the same ended early and started again across an
\* item; both threads, started across an item of the UDP thread.
MCScenarios ==
  { [threads |-> {"core"}, items |-> 4, inits |-> 2, overlap |-> FALSE],
    [threads |-> {"core"}, items |-> 2, inits |-> 2, overlap |-> TRUE],
    [threads |-> {"core", "udp"}, items |-> 2, inits |-> 1, overlap |-> TRUE] }
=============================================================================
