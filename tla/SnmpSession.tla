---------------------------- MODULE SnmpSession ----------------------------
(***************************************************************************)
(* The SNMP session of snmplib: a queue of jobs of which one is current,   *)
(* one request awaited by its id and a timer, all run by the event loop of *)
(* one thread, against an agent behind a network that may lose, reorder    *)
(* and duplicate datagrams.                                                *)
(*                                                                         *)
(* A value is named by the request that asked for it, <<job, at>>: "at" is *)
(* the number of values the walk had found when it asked.  Request ids are *)
(* random in the code and taken to be distinct here.                       *)
(***************************************************************************)
EXTENDS Integers, Sequences, SequencesExt

CONSTANTS
  MaxJobs,     \* bound on the requests of the application
  MaxValues,   \* bound on the values below the OID of a walk
  QueueLimit,  \* queue_limit, 10 in the code
  Errors       \* may the agent answer with an error or a broken packet?

ASSUME SessionAssumption ==
  /\ MaxJobs \in Nat /\ MaxValues \in Nat
  /\ QueueLimit \in Nat \ {0}
  /\ Errors \in BOOLEAN

NoJob == [id |-> 0, kind |-> "none"]
Jobs == [id : 1..MaxJobs, kind : {"values", "sub", "set"}]
Datagrams == [rid : Nat, job : Nat, at : Nat]
Kinds == {"below", "other", "error", "broken"}

VARIABLES
  m_work_queue,
  m_current_work,
  m_found,       \* of the current job, if it is a walk
  m_request_id,  \* -1: no answer is awaited
  timerActive,   \* m_response_wait_timer
  m_last_request_datagram,
  issued,        \* request ids used so far
  accepted,      \* history: ids of the jobs put into the queue
  ended,         \* history: [job, ok, values] per responseReceived and requestFailed
  jobs,          \* bound: work ids created
  erred,       \* history: the agent has sent an error or a broken packet
  requests, responses  \* datagrams in the network

request == <<m_request_id, timerActive, m_last_request_datagram, issued>>
work    == <<m_work_queue, m_current_work, m_found, ended>>
net     == <<requests, responses>>
vars    == <<request, work, accepted, jobs, erred, net>>

Init ==
  /\ m_work_queue = <<>> /\ m_current_work = NoJob /\ m_found = <<>>
  /\ m_request_id = -1 /\ timerActive = FALSE
  /\ m_last_request_datagram = [rid |-> 0, job |-> 0, at |-> 0]
  /\ issued = 0
  /\ accepted = <<>> /\ ended = <<>> /\ jobs = 0 /\ erred = FALSE
  /\ requests = {} /\ responses = {}

Completed(job, values) == [job |-> job.id, ok |-> TRUE, values |-> values]
Failed(job) == [job |-> job.id, ok |-> FALSE, values |-> <<>>]

-----------------------------------------------------------------------------
(* Sending *)

\* Mutant: the datagram goes out and the timer is not started.
sendDatagram_NoTimer(job, at) ==
  LET d == [rid |-> issued + 1, job |-> job.id, at |-> at] IN
  /\ m_request_id' = d.rid
  /\ issued' = d.rid
  /\ m_last_request_datagram' = d
  /\ requests' = requests \cup {d}
  /\ UNCHANGED timerActive

\* updateRequestId and a sendDatagram that succeeds.
sendDatagram(job, at) ==
  LET d == [rid |-> issued + 1, job |-> job.id, at |-> at] IN
  /\ m_request_id' = d.rid
  /\ issued' = d.rid
  /\ m_last_request_datagram' = d
  /\ requests' = requests \cup {d}
  /\ timerActive' = TRUE

\* startNextWork without a current job.  Each job whose datagram cannot be
\* written is cancelled at once and the next one is started: k of them.
startNextWork(queue, results) ==
  \E k \in 0..Len(queue) :
    /\ ended' = results \o [i \in 1..k |-> Failed(queue[i])]
    /\ m_found' = <<>>
    /\ IF k = Len(queue)
       THEN /\ m_work_queue' = <<>>
            /\ m_current_work' = NoJob
            /\ m_request_id' = -1
            /\ timerActive' = FALSE
            /\ UNCHANGED <<m_last_request_datagram, issued, requests>>
       ELSE /\ m_work_queue' = SubSeq(queue, k + 2, Len(queue))
            /\ m_current_work' = queue[k + 1]
            /\ sendDatagram(queue[k + 1], 0)

\* Mutant: the failed job is dropped without a word.
cancelWork_Silent == startNextWork(m_work_queue, ended)

cancelWork == startNextWork(m_work_queue, Append(ended, Failed(m_current_work)))

completeWork(values) ==
  startNextWork(m_work_queue, Append(ended, Completed(m_current_work, values)))

-----------------------------------------------------------------------------
(* Calls of the application *)

\* Mutant: a full queue takes one more.
addWork_OneMore(kind) ==
  /\ jobs < MaxJobs
  /\ jobs' = jobs + 1
  /\ LET queue == Append(m_work_queue, [id |-> jobs + 1, kind |-> kind]) IN
     IF Len(m_work_queue) <= QueueLimit
     THEN /\ accepted' = Append(accepted, jobs + 1)
          /\ IF m_current_work = NoJob
             THEN startNextWork(queue, ended)
             ELSE /\ m_work_queue' = queue
                  /\ UNCHANGED <<m_current_work, m_found, ended, request, requests>>
     ELSE UNCHANGED <<accepted, work, request, requests>>
  /\ UNCHANGED <<responses, erred>>

\* requestValues, requestSubValues and setValue; a full queue drops the job,
\* although the caller is given its id.
addWork(kind) ==
  /\ jobs < MaxJobs
  /\ jobs' = jobs + 1
  /\ LET queue == Append(m_work_queue, [id |-> jobs + 1, kind |-> kind]) IN
     IF Len(m_work_queue) < QueueLimit
     THEN /\ accepted' = Append(accepted, jobs + 1)
          /\ IF m_current_work = NoJob
             THEN startNextWork(queue, ended)
             ELSE /\ m_work_queue' = queue
                  /\ UNCHANGED <<m_current_work, m_found, ended, request, requests>>
     ELSE UNCHANGED <<accepted, work, request, requests>>
  /\ UNCHANGED <<responses, erred>>

\* The socket is bound anew: what is under way comes back to the old port.
setAgentAddress ==
  /\ requests' = {}
  /\ responses' = {}
  /\ UNCHANGED <<request, work, accepted, jobs, erred>>

-----------------------------------------------------------------------------
(* Events *)

\* Mutant: the timeout ends the wait and leaves the job where it is.
onResponseTimeExpired_KeepsJob ==
  /\ timerActive
  /\ timerActive' = FALSE
  /\ UNCHANGED <<m_request_id, m_last_request_datagram, issued, work, accepted, jobs, net, erred>>

onResponseTimeExpired ==
  /\ timerActive
  /\ cancelWork
  /\ UNCHANGED <<accepted, jobs, responses, erred>>

\* A walk keeps the value and asks on; writing the next request may fail.
processSubValue(value) ==
  \/ /\ m_found' = Append(m_found, value)
     /\ sendDatagram(m_current_work, Len(m_found) + 1)
     /\ UNCHANGED <<m_work_queue, m_current_work, ended>>
  \/ cancelWork

processData(r) ==
  IF m_current_work.kind = "sub"
  THEN IF r.kind = "below" THEN processSubValue(<<r.job, r.at>>) ELSE completeWork(m_found)
  ELSE completeWork(<<<<r.job, r.at>>>>)

\* Mutant: any answer is taken.
Awaited_Any(r) == m_current_work # NoJob

Awaited(r) == r.rid = m_request_id

\* The awaited answer stops the timer before it is looked at; an error writes
\* the old datagram again, a broken packet is ignored.  The network may
\* deliver the datagram again.
onReadyRead(r, again) ==
  /\ r \in responses
  /\ responses' = IF again THEN responses ELSE responses \ {r}
  /\ \/ ~Awaited(r) /\ UNCHANGED <<request, work, requests>>
     \/ /\ Awaited(r)
        /\ r.kind \in {"below", "other"}
        /\ processData(r)
     \/ /\ Awaited(r)
        /\ r.kind \in {"error", "broken"}
        /\ timerActive' = FALSE
        /\ m_request_id' = -1
        /\ requests' = IF r.kind = "error" THEN requests \cup {m_last_request_datagram}
                       ELSE requests
        /\ UNCHANGED <<m_last_request_datagram, issued, work>>
  /\ UNCHANGED <<accepted, jobs, erred>>

\* The agent: a walk meets at most MaxValues values below its OID.
agentAnswers(d, kind) ==
  /\ d \in requests
  /\ kind \in {"error", "broken"} => Errors
  /\ kind = "below" => d.at < MaxValues
  /\ responses' = responses \cup {[rid |-> d.rid, job |-> d.job, at |-> d.at, kind |-> kind]}
  /\ requests' = requests \ {d}
  /\ erred' = (erred \/ kind \in {"error", "broken"})
  /\ UNCHANGED <<request, work, accepted, jobs>>

networkLoses ==
  /\ \/ \E d \in requests : requests' = requests \ {d} /\ UNCHANGED responses
     \/ \E r \in responses : responses' = responses \ {r} /\ UNCHANGED requests
  /\ UNCHANGED <<request, work, accepted, jobs, erred>>

-----------------------------------------------------------------------------
Next ==
  \/ \E kind \in {"values", "sub", "set"} : addWork(kind)
  \/ setAgentAddress
  \/ onResponseTimeExpired
  \/ \E r \in responses, again \in BOOLEAN : onReadyRead(r, again)
  \/ \E d \in requests, kind \in Kinds : agentAnswers(d, kind)
  \/ networkLoses

Spec == Init /\ [][Next]_vars

-----------------------------------------------------------------------------
TypeOK ==
  /\ m_work_queue \in Seq(Jobs)
  /\ m_current_work \in Jobs \cup {NoJob}
  /\ m_found \in Seq(Nat \X Nat)
  /\ m_request_id \in Nat \cup {-1}
  /\ timerActive \in BOOLEAN
  /\ m_last_request_datagram \in Datagrams
  /\ issued \in Nat /\ jobs \in Nat /\ erred \in BOOLEAN
  /\ accepted \in Seq(1..MaxJobs)
  /\ ended \in Seq([job : 1..MaxJobs, ok : BOOLEAN, values : Seq(Nat \X Nat)])
  /\ requests \subseteq Datagrams
  /\ responses \subseteq [rid : Nat, job : Nat, at : Nat, kind : Kinds]
  /\ Len(m_work_queue) <= QueueLimit

\* Late, repeated and reordered answers are told apart: what a job returns was
\* asked for by this job, every value once and in the order of the walk.
OwnAnswer ==
  \A e \in ToSet(ended) : e.values = [i \in 1..Len(e.values) |-> <<e.job, i - 1>>]

\* Every job that was accepted is answered or failed once, in the order of the
\* calls, and until then it is the current one or waits in the queue.
InOrder ==
  LET Ids(s) == [i \in 1..Len(s) |-> s[i].id] IN
  accepted = [i \in 1..Len(ended) |-> ended[i].job]
               \o (IF m_current_work = NoJob THEN <<>> ELSE <<m_current_work.id>>)
               \o Ids(m_work_queue)

\* "The last request will be resend with new ID": the request that was written
\* last is the one whose answer is awaited, under a running timer.
ResendIsAwaited ==
  m_current_work # NoJob => timerActive /\ m_request_id = m_last_request_datagram.rid

\* What is left of it: it holds while the agent sends neither errors nor broken
\* packets, whatever else happens to requests and answers.
AwaitsLastRequest == erred \/ ResendIsAwaited

\* And as long every accepted job ends, whatever the network loses.
JobsEnd == m_current_work # NoJob ~> m_current_work = NoJob \/ erred
=============================================================================
