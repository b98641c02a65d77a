----------------------------- MODULE SnmpClient -----------------------------
(***************************************************************************)
(* SnmpClient above its session.  A caller's thread puts its OIDs into a   *)
(* shared list and polls a shared list of values for a second; the event   *)
(* loop of the client's thread makes one job at a time of the OIDs and     *)
(* appends what any job returns.  The session waits two seconds, so that   *)
(* the answer to a question that was given up meets the next question.     *)
(*                                                                         *)
(* The session is that of SnmpSession, every step of it included.  "env"   *)
(* tells who uses it and how hard: the client, or callers that isBusy does *)
(* not hold back, which is what the session itself has to cope with.       *)
(***************************************************************************)
EXTENDS SnmpSession

CONSTANTS Scenarios

\* The client or others; bounds on jobs, on the values of a walk, on the OIDs
\* of a question and on set commands; may a datagram come again?
ASSUME ClientAssumption ==
  Scenarios \subseteq [client : BOOLEAN, jobs : 0..MaxJobs, values : 0..MaxValues,
                       oids : Nat, sets : Nat, again : BOOLEAN]

VARIABLES
  env,          \* the scenario
  mOids,        \* number of OIDs still to be asked for
  mSetCmdList,  \* number of set commands still to be sent
  sets,         \* bound: set commands given
  mValues, isErr,
  asking,       \* where the caller is in requestValue
  question      \* history: [size, before, inflight] of the present question

shared == <<mOids, mSetCmdList, sets>>
client == <<env, shared, mValues, isErr, asking, question>>
all    == <<vars, client>>

NoQuestion == [size |-> 0, before |-> 0, inflight |-> 0]

ClientInit ==
  /\ Init
  /\ env \in Scenarios
  /\ mOids = 0 /\ mSetCmdList = 0 /\ sets = 0
  /\ mValues = <<>> /\ isErr = FALSE
  /\ asking = "no"
  /\ question = NoQuestion

-----------------------------------------------------------------------------
(* The event loop *)

\* onResponseReceived and onRequestFailed, called from within the session's
\* step for every job that ends in it, whoever asked for it.  Only the first of
\* them can have been answered: those that follow it failed to be sent.
slots ==
  LET new == SubSeq(ended', Len(ended) + 1, Len(ended')) IN
  /\ mValues' = mValues \o (IF new = <<>> THEN <<>> ELSE Head(new).values)
  /\ isErr' = (isErr \/ \E i \in 1..Len(new) : ~new[i].ok)

isBusy == m_current_work # NoJob \/ m_work_queue # <<>>

setValue ==
  /\ mSetCmdList > 0 /\ ~isBusy
  /\ addWork("set")
  /\ mSetCmdList' = mSetCmdList - 1
  /\ UNCHANGED <<mOids, sets>>

\* Mutant: the next OID is handed over while a job is under way.
makeSubRequest_Queues ==
  /\ mOids > 0
  /\ addWork("sub")
  /\ mOids' = mOids - 1
  /\ UNCHANGED <<mSetCmdList, sets>>

makeSubRequest ==
  /\ mOids > 0 /\ ~isBusy
  /\ addWork("sub")
  /\ mOids' = mOids - 1
  /\ UNCHANGED <<mSetCmdList, sets>>

\* A set command goes before the OIDs.
timeoutDone ==
  /\ jobs < env.jobs
  /\ \/ setValue
     \/ mSetCmdList = 0 /\ makeSubRequest
  /\ slots
  /\ UNCHANGED <<env, asking, question>>

sessionEvent ==
  /\ \/ \E r \in responses, again \in {FALSE, env.again} : onReadyRead(r, again)
     \/ \E d \in requests, kind \in Kinds :
          /\ kind = "below" => d.at < env.values
          /\ agentAnswers(d, kind)
     \/ ~env.client /\ setAgentAddress
     \/ networkLoses
  /\ slots
  /\ UNCHANGED <<env, shared, asking, question>>

sessionTimeout ==
  /\ onResponseTimeExpired
  /\ slots
  /\ UNCHANGED <<env, shared, asking, question>>

\* requestValues, requestSubValues and setValue of any other user.
callerAsks ==
  /\ ~env.client /\ jobs < env.jobs
  /\ \E kind \in {"values", "sub", "set"} : addWork(kind)
  /\ slots
  /\ UNCHANGED <<env, shared, asking, question>>

-----------------------------------------------------------------------------
(* The caller's thread *)

setCommand ==
  /\ env.client
  /\ sets < env.sets
  /\ sets' = sets + 1
  /\ mSetCmdList' = mSetCmdList + 1
  /\ UNCHANGED <<vars, env, mOids, mValues, isErr, asking, question>>

\* The list of the question before is replaced, asked for or not.
requestValue(n) ==
  /\ env.client
  /\ asking = "no"
  /\ asking' = "begun"
  /\ mOids' = n
  /\ question' = [size |-> n, before |-> jobs, inflight |-> m_current_work.id]
  /\ UNCHANGED <<vars, env, mSetCmdList, sets, mValues, isErr>>

\* The OIDs are on their way already when the values are cleared.
waitForRespond ==
  /\ asking = "begun"
  /\ asking' = "waiting"
  /\ isErr' = FALSE
  /\ mValues' = <<>>
  /\ UNCHANGED <<vars, env, shared, question>>

\* Enough values, an error, or a second of waiting.
Enough == Len(mValues) >= question.size \/ isErr

respondReturns(gaveUp) ==
  /\ asking = "waiting"
  /\ Enough \/ gaveUp
  /\ asking' = "no"
  /\ question' = NoQuestion
  /\ UNCHANGED <<vars, env, shared, mValues, isErr>>

-----------------------------------------------------------------------------
ClientNext ==
  \/ timeoutDone
  \/ sessionEvent
  \/ sessionTimeout
  \/ callerAsks
  \/ setCommand
  \/ \E n \in 1..env.oids : requestValue(n)
  \/ waitForRespond
  \/ \E gaveUp \in BOOLEAN : respondReturns(gaveUp)

\* The session's timer fires once it runs; neither the agent nor the network
\* owes an answer, and no caller a question.
ClientSpec == ClientInit /\ [][ClientNext]_all /\ WF_all(sessionTimeout)

-----------------------------------------------------------------------------
\* A question that is being answered mixes in no more than one stale job: its
\* values are of jobs made since it was asked, or of the one job that was under
\* way at that moment, and the stale ones come first.
OneStaleJob ==
  asking = "waiting" =>
    /\ \A i \in 1..Len(mValues) :
         mValues[i][1] > question.before \/ mValues[i][1] = question.inflight
    /\ \A i, k \in 1..Len(mValues) : i < k => mValues[i][1] <= mValues[k][1]
=============================================================================
