---------------------------- MODULE MCSnmpClient ----------------------------
(* Instances of SnmpClient for TLC: callers with longer walks or with one job *)
(* more; the client with set commands and repeated datagrams or with one job  *)
(* more.                                                                      *)
EXTENDS SnmpClient

MCCallers ==
  [client |-> FALSE, jobs |-> MaxJobs, values |-> MaxValues, oids |-> 0, sets |-> 0,
   again |-> TRUE]
MCClient == [MCCallers EXCEPT !.client = TRUE, !.values = 1, !.oids = 2]

MCScenarios ==
  { [MCCallers EXCEPT !.jobs = 2],
    [MCCallers EXCEPT !.values = 1],
    [MCClient EXCEPT !.jobs = 2, !.sets = 1],
    [MCClient EXCEPT !.jobs = 3, !.again = FALSE] }
=============================================================================
