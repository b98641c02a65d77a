------------------------------ MODULE SnmpProofs ------------------------------
(***************************************************************************)
(* Proofs about the SNMP session, and about the client on top of it: for   *)
(* any number of jobs, length of a walk and limit of the queue, whatever   *)
(* the network does with the datagrams.                                    *)
(*                                                                         *)
(* The client takes the steps of the session and no other                  *)
(* (ClientRunsSession), so that what the session keeps, the client can     *)
(* count on.  Each of the session's invariants rests on one of its own:    *)
(*   Resting           without a job no answer is awaited;                 *)
(*   Sound             until one was sent, no error is under way;          *)
(*   Network, Present  a datagram with the last id is the last request or  *)
(*                     an answer to it, and that is what is awaited;       *)
(*   Covers            the accepted ids are those of the results, then of  *)
(*                     the jobs that have not ended.                       *)
(* OneStaleJob needs these, and that the client's job under way is always  *)
(* the last one made (Single, Stale, Heard).                               *)
(***************************************************************************)
EXTENDS SnmpClient, SequenceTheorems, TLAPS

Values == Seq(Nat \X Nat)
Ended == [job : 1..MaxJobs, ok : BOOLEAN, values : Values]
JobKinds == {"values", "sub", "set"}
Responses == [rid : Nat, job : Nat, at : Nat, kind : Kinds]

\* The variables have their types; Booleans apart, for the provers' sake.
Typed ==
  /\ m_work_queue \in Seq(Jobs) /\ Len(m_work_queue) <= QueueLimit
  /\ m_current_work \in Jobs \union {NoJob}
  /\ m_found \in Values
  /\ m_request_id \in Nat \union {-1}
  /\ m_last_request_datagram \in Datagrams
  /\ issued \in Nat /\ jobs \in Nat
  /\ accepted \in Seq(1..MaxJobs)
  /\ ended \in Seq(Ended)
  /\ requests \subseteq Datagrams
  /\ responses \subseteq Responses

Flags == timerActive \in BOOLEAN /\ erred \in BOOLEAN

\* Without a job nothing is awaited.
Resting == m_current_work = NoJob => ~timerActive /\ m_request_id = -1

-----------------------------------------------------------------------------
(* The steps, by what they do to the jobs *)

NewJob(kind) == [id |-> jobs + 1, kind |-> kind]

\* A job finds the session idle and is started.
StartsFirst(kind) ==
  /\ m_current_work = NoJob /\ jobs < MaxJobs
  /\ startNextWork(Append(m_work_queue, NewJob(kind)), ended)
  /\ accepted' = Append(accepted, jobs + 1) /\ jobs' = jobs + 1
  /\ UNCHANGED <<responses, erred>>

\* A job is put behind others.
Waits(kind) ==
  /\ m_current_work # NoJob /\ jobs < MaxJobs /\ Len(m_work_queue) < QueueLimit
  /\ m_work_queue' = Append(m_work_queue, NewJob(kind))
  /\ accepted' = Append(accepted, jobs + 1) /\ jobs' = jobs + 1
  /\ UNCHANGED <<m_current_work, m_found, ended, request, requests, responses, erred>>

\* The current job ends with e, and the next one is started.
Ends(e) ==
  /\ m_current_work # NoJob
  /\ startNextWork(m_work_queue, Append(ended, e))
  /\ UNCHANGED <<accepted, jobs, erred>>
  /\ responses' \subseteq responses

\* What the current job may end with: the answer r makes it complete, or none.
Ending(e) ==
  \/ e = Failed(m_current_work)
  \/ m_current_work.kind = "sub" /\ e = Completed(m_current_work, m_found)
  \/ /\ m_current_work.kind # "sub"
     /\ \E r \in responses : Awaited(r) /\ e = Completed(m_current_work, <<<<r.job, r.at>>>>)

\* A walk takes the value of the answer r and asks on.
Walks(r) ==
  /\ m_current_work.kind = "sub" /\ r \in responses /\ Awaited(r)
  /\ m_found' = Append(m_found, <<r.job, r.at>>)
  /\ sendDatagram(m_current_work, Len(m_found) + 1)
  /\ responses' \subseteq responses
  /\ UNCHANGED <<m_work_queue, m_current_work, ended, accepted, jobs, erred>>

\* An error or a broken packet is taken for the answer and leads to nothing.
Refused(r) ==
  /\ r \in responses /\ r.kind \in {"error", "broken"}
  /\ timerActive' = FALSE /\ m_request_id' = -1
  /\ requests' \subseteq requests \union {m_last_request_datagram}
  /\ responses' \subseteq responses
  /\ UNCHANGED <<m_last_request_datagram, issued, work, accepted, jobs, erred>>

\* The network, the agent, an answer that is not awaited or a full queue.
Apart ==
  /\ UNCHANGED <<request, work, accepted>>
  /\ requests' \subseteq requests
  /\ jobs' \in {jobs, jobs + 1}
  /\ \/ responses' \subseteq responses /\ erred' = erred
     \/ \E d \in requests, kind \in Kinds :
          /\ responses' = responses \union {[rid |-> d.rid, job |-> d.job, at |-> d.at, kind |-> kind]}
          /\ erred' = (erred \/ kind \in {"error", "broken"})

\* Every step of the session is one of these: what a call, a timeout or an
\* answer does to the jobs, with the start of the next job in the same step.
LEMMA StepCases ==
  ASSUME Typed, Resting, [Next]_vars
  PROVE  \/ \E kind \in JobKinds : StartsFirst(kind)
         \/ \E kind \in JobKinds : Waits(kind)
         \/ \E e : Ending(e) /\ Ends(e)
         \/ \E r : Walks(r)
         \/ \E r : Refused(r)
         \/ Apart
  <1> DEFINE Goal == \/ \E kind \in JobKinds : StartsFirst(kind)
                     \/ \E kind \in JobKinds : Waits(kind)
                     \/ \E e : Ending(e) /\ Ends(e)
                     \/ \E r : Walks(r)
                     \/ \E r : Refused(r)
                     \/ Apart
  <1>1. ASSUME NEW kind \in JobKinds, addWork(kind)
        PROVE  StartsFirst(kind) \/ Waits(kind) \/ Apart
    <2>1. CASE Len(m_work_queue) < QueueLimit /\ m_current_work = NoJob
      BY <1>1, <2>1, Zenon DEF addWork, StartsFirst, NewJob
    <2>2. CASE Len(m_work_queue) < QueueLimit /\ m_current_work # NoJob
      BY <1>1, <2>2, Zenon DEF addWork, Waits, NewJob
    <2>3. CASE ~(Len(m_work_queue) < QueueLimit)
      BY <1>1, <2>3 DEF addWork, Apart
    <2>4. QED
      BY <2>1, <2>2, <2>3, Zenon
  <1>2. CASE setAgentAddress
    BY <1>2 DEF setAgentAddress, Apart
  <1>3. CASE onResponseTimeExpired
    <2>1. m_current_work # NoJob
      BY <1>3, Zenon DEF onResponseTimeExpired, Resting
    <2>2. Ends(Failed(m_current_work))
      BY <1>3, <2>1, Zenon DEF onResponseTimeExpired, cancelWork, Ends
    <2>3. QED
      BY <2>2, Zenon DEF Ending
  <1>4. ASSUME NEW r \in responses, NEW again \in BOOLEAN, onReadyRead(r, again)
        PROVE  Goal
    <2>1. responses' \subseteq responses /\ UNCHANGED <<accepted, jobs, erred>>
      BY <1>4 DEF onReadyRead
    <2>2. CASE UNCHANGED <<request, work, requests>>
      BY <2>1, <2>2 DEF Apart
    <2>3. CASE Awaited(r) /\ processData(r)
      <3>1. m_current_work # NoJob
        BY <2>3 DEF Awaited, Resting, Typed, Responses
      <3>2. ASSUME NEW e, Ending(e), startNextWork(m_work_queue, Append(ended, e))
            PROVE  Goal
        BY <2>1, <3>1, <3>2, Zenon DEF Ends
      <3>3. CASE m_current_work.kind # "sub"
        <4> DEFINE e == Completed(m_current_work, <<<<r.job, r.at>>>>)
        <4>1. startNextWork(m_work_queue, Append(ended, e)) /\ Ending(e)
          BY <2>3, <3>3, Zenon DEF processData, completeWork, Ending
        <4>2. QED
          BY <4>1, <3>2
      <3>4. CASE m_current_work.kind = "sub" /\ r.kind # "below"
        <4> DEFINE e == Completed(m_current_work, m_found)
        <4>1. startNextWork(m_work_queue, Append(ended, e)) /\ Ending(e)
          BY <2>3, <3>4, Zenon DEF processData, completeWork, Ending
        <4>2. QED
          BY <4>1, <3>2
      <3>5. CASE m_current_work.kind = "sub" /\ r.kind = "below"
        <4>1. processSubValue(<<r.job, r.at>>)
          BY <2>3, <3>5, Zenon DEF processData
        <4>2. CASE cancelWork
          <5>1. Ending(Failed(m_current_work))
            BY Zenon DEF Ending
          <5>2. QED
            BY <4>2, <5>1, <3>2, Zenon DEF cancelWork
        <4>3. CASE ~cancelWork
          <5>1. Walks(r)
            BY <2>1, <2>3, <3>5, <4>1, <4>3, Zenon DEF processSubValue, Walks
          <5>2. QED
            BY <5>1
        <4>4. QED
          BY <4>2, <4>3
      <3>6. QED
        BY <3>3, <3>4, <3>5
    <2>4. CASE /\ r.kind \in {"error", "broken"}
               /\ timerActive' = FALSE
               /\ m_request_id' = -1
               /\ requests' = IF r.kind = "error" THEN requests \cup {m_last_request_datagram}
                              ELSE requests
               /\ UNCHANGED <<m_last_request_datagram, issued, work>>
      <3>1. requests' \subseteq requests \union {m_last_request_datagram}
        BY <2>4
      <3>2. Refused(r)
        BY <2>1, <2>4, <3>1, Zenon DEF Refused
      <3>3. QED
        BY <3>2
    <2>5. QED
      BY <1>4, <2>2, <2>3, <2>4, Zenon DEF onReadyRead
  <1>5. ASSUME NEW d \in requests, NEW kind \in Kinds, agentAnswers(d, kind)
        PROVE  Apart
    <2>1. requests' \subseteq requests /\ jobs' \in {jobs, jobs + 1}
      BY <1>5 DEF agentAnswers
    <2>2. QED
      BY <1>5, <2>1, Zenon DEF agentAnswers, Apart
  <1>6. CASE networkLoses
    <2>1. requests' \subseteq requests /\ responses' \subseteq responses
      BY <1>6 DEF networkLoses
    <2>2. QED
      BY <1>6, <2>1 DEF networkLoses, Apart
  <1>7. CASE UNCHANGED vars
    BY <1>7 DEF vars, net, Apart
  <1>8. QED
    BY <1>1, <1>2, <1>3, <1>4, <1>5, <1>6, <1>7, Zenon DEF Next, JobKinds
\* What is left of startNextWork: k jobs of the queue fail, and either none is
\* left or the next one is asked for.
Emptied(queue) ==
  /\ m_work_queue' = <<>> /\ m_current_work' = NoJob
  /\ m_request_id' = -1 /\ timerActive' = FALSE
  /\ UNCHANGED <<m_last_request_datagram, issued, requests>>
Started(queue, k) ==
  /\ m_work_queue' = SubSeq(queue, k + 2, Len(queue))
  /\ m_current_work' = queue[k + 1]
  /\ sendDatagram(queue[k + 1], 0)

\* startNextWork gives up the first k jobs, each with a failure of its own at
\* the end of the results, and starts the next one, if one is left.
LEMMA StartNextTyped ==
  ASSUME NEW queue \in Seq(Jobs), NEW results \in Seq(Ended), startNextWork(queue, results)
  PROVE  \E k \in 0..Len(queue) :
           /\ ended' \in Seq(Ended) /\ Len(ended') = Len(results) + k
           /\ \A i \in 1..Len(results) : ended'[i] = results[i]
           /\ \A i \in 1..k : ended'[Len(results) + i] = Failed(queue[i])
           /\ m_found' = <<>>
           /\ \/ k = Len(queue) /\ Emptied(queue)
              \/ k < Len(queue) /\ Started(queue, k)
  <1>1. PICK k \in 0..Len(queue) :
          /\ ended' = results \o [i \in 1..k |-> Failed(queue[i])]
          /\ m_found' = <<>>
          /\ \/ k = Len(queue) /\ Emptied(queue)
             \/ k # Len(queue) /\ Started(queue, k)
    BY Zenon DEF startNextWork, Emptied, Started
  <1> DEFINE failed == [i \in 1..k |-> Failed(queue[i])]
  <1>2. \A i \in 1..k : queue[i] \in Jobs
    OBVIOUS
  <1>3. \A job \in Jobs : Failed(job) \in Ended
    <2>1. <<>> \in Values
      BY DEF Values
    <2>2. QED
      BY <2>1 DEF Failed, Ended, Jobs
  <1>4. failed \in [1..k -> Ended]
    BY <1>2, <1>3
  <1>5. failed \in Seq(Ended) /\ Len(failed) = k /\ \A i \in 1..k : failed[i] = Failed(queue[i])
    BY <1>4
  <1> HIDE DEF failed
  <1>6. /\ ended' = results \o failed
        /\ ended' \in Seq(Ended)
        /\ Len(ended') = Len(results) + k
        /\ \A i \in 1..Len(results) : ended'[i] = results[i]
        /\ \A i \in 1..k : ended'[Len(results) + i] = failed[i]
    <2>1. ended' = results \o failed
      BY <1>1 DEF failed
    <2>2. results \o failed \in Seq(Ended) /\ Len(results \o failed) = Len(results) + k
      BY <1>5
    <2>3. \A i \in 1..Len(results) : (results \o failed)[i] = results[i]
      BY <1>5
    <2>4. \A i \in 1..k : (results \o failed)[Len(results) + i] = failed[i]
      BY <1>5
    <2>5. QED
      BY <2>1, <2>2, <2>3, <2>4
  <1>7. k # Len(queue) => k < Len(queue)
    OBVIOUS
  <1>8. QED
    BY <1>1, <1>5, <1>6, <1>7

\* Sending is to the right job and with an id of its own.
LEMMA SendTyped ==
  ASSUME Typed, NEW job \in Jobs, NEW n \in Nat, sendDatagram(job, n)
  PROVE  /\ m_request_id' \in Nat /\ m_request_id' = issued + 1 /\ issued' = issued + 1
         /\ m_last_request_datagram' = [rid |-> issued + 1, job |-> job.id, at |-> n]
         /\ m_last_request_datagram' \in Datagrams
         /\ requests' = requests \union {m_last_request_datagram'}
         /\ requests' \subseteq Datagrams
         /\ timerActive' = TRUE
  <1> DEFINE d == [rid |-> issued + 1, job |-> job.id, at |-> n]
  <1>1. d \in Datagrams /\ d.rid = issued + 1 /\ issued + 1 \in Nat
    BY DEF Datagrams, Jobs, Typed
  <1> HIDE DEF d
  <1>2. /\ m_request_id' = d.rid /\ issued' = d.rid /\ m_last_request_datagram' = d
        /\ requests' = requests \union {d} /\ timerActive' = TRUE
    BY DEF sendDatagram, d
  <1>3. m_last_request_datagram' = [rid |-> issued + 1, job |-> job.id, at |-> n]
    BY <1>2 DEF d
  <1>4. QED
    BY <1>1, <1>2, <1>3 DEF Typed

\* The variables that startNextWork assigns keep their types, and what it takes
\* from a queue that was one too long fits the limit again.
LEMMA StartTyped ==
  ASSUME Typed, NEW queue \in Seq(Jobs), NEW results \in Seq(Ended), startNextWork(queue, results),
         Len(queue) <= QueueLimit + 1
  PROVE  /\ m_work_queue' \in Seq(Jobs) /\ Len(m_work_queue') <= QueueLimit
         /\ m_current_work' \in Jobs \union {NoJob}
         /\ m_found' \in Values
         /\ m_request_id' \in Nat \union {-1}
         /\ m_last_request_datagram' \in Datagrams
         /\ issued' \in Nat /\ ended' \in Seq(Ended) /\ requests' \subseteq Datagrams
         /\ timerActive' \in BOOLEAN
         /\ Resting'
  <1>1. PICK k \in 0..Len(queue) :
           /\ ended' \in Seq(Ended) /\ m_found' = <<>>
           /\ \/ k = Len(queue) /\ Emptied(queue)
              \/ k < Len(queue) /\ Started(queue, k)
    BY StartNextTyped
  <1>2. <<>> \in Values /\ <<>> \in Seq(Jobs) /\ Len(<<>>) = 0 /\ 0 <= QueueLimit
    BY SessionAssumption DEF Values
  <1>3. CASE Emptied(queue)
    BY <1>1, <1>2, <1>3 DEF Emptied, Typed, Resting
  <1>4. CASE k < Len(queue) /\ Started(queue, k)
    <2>1. queue[k + 1] \in Jobs
      BY <1>4
    <2>2. SubSeq(queue, k + 2, Len(queue)) \in Seq(Jobs)
      BY <1>4
    <2>3. Len(SubSeq(queue, k + 2, Len(queue))) <= QueueLimit
      <3>1. Len(SubSeq(queue, k + 2, Len(queue))) = Len(queue) - (k + 1)
        BY <1>4
      <3>2. QED
        BY <3>1, SessionAssumption
    <2>4. queue[k + 1] # NoJob
      BY <2>1 DEF Jobs, NoJob
    <2>5. QED
      BY <1>1, <1>2, <1>4, <2>1, <2>2, <2>3, <2>4, SendTyped DEF Started, Resting, Typed
  <1>5. QED
    BY <1>1, <1>3, <1>4

\* A result is one of the current job.
LEMMA EndingTyped ==
  ASSUME Typed, m_current_work # NoJob, NEW e, Ending(e)
  PROVE  e \in Ended /\ e.job = m_current_work.id
  <1>1. m_current_work \in Jobs /\ m_current_work.id \in 1..MaxJobs
    BY DEF Typed, Jobs
  <1>2. CASE e = Failed(m_current_work)
    <2>1. <<>> \in Values
      BY DEF Values
    <2>2. QED
      BY <1>1, <1>2, <2>1 DEF Failed, Ended
  <1>3. CASE e = Completed(m_current_work, m_found)
    BY <1>1, <1>3 DEF Completed, Ended, Typed
  <1>4. ASSUME NEW r \in responses, e = Completed(m_current_work, <<<<r.job, r.at>>>>)
        PROVE  e \in Ended /\ e.job = m_current_work.id
    <2>1. r.job \in Nat /\ r.at \in Nat
      BY DEF Typed, Responses
    <2>2. <<<<r.job, r.at>>>> \in Values
      BY <2>1 DEF Values
    <2>3. QED
      BY <1>1, <1>4, <2>2 DEF Completed, Ended
  <1>5. QED
    BY <1>2, <1>3, <1>4, Zenon DEF Ending

\* Every step keeps the types, and awaits nothing without a job.
LEMMA StepTyped ==
  ASSUME Typed, Flags, Resting, [Next]_vars
  PROVE  Typed' /\ Flags' /\ Resting'
  <1>0. responses' \subseteq responses => responses' \subseteq Responses
    BY DEF Typed
  <1>1. ASSUME NEW kind \in JobKinds, StartsFirst(kind)
        PROVE  Typed' /\ Flags' /\ Resting'
    <2>1. NewJob(kind) \in Jobs /\ jobs + 1 \in 1..MaxJobs /\ jobs + 1 \in Nat
      BY <1>1, SessionAssumption DEF StartsFirst, NewJob, Jobs, JobKinds, Typed
    <2> DEFINE queue == Append(m_work_queue, NewJob(kind))
    <2>2. queue \in Seq(Jobs) /\ Len(queue) <= QueueLimit + 1
      BY <2>1, SessionAssumption DEF Typed
    <2>3. startNextWork(queue, ended)
      BY <1>1 DEF StartsFirst
    <2>4. accepted' \in Seq(1..MaxJobs) /\ jobs' \in Nat /\ responses' = responses
      BY <1>1, <2>1 DEF StartsFirst, Typed
    <2> HIDE DEF queue
    <2>5. ended \in Seq(Ended) /\ responses \subseteq Responses
      BY DEF Typed
    <2>6. /\ m_work_queue' \in Seq(Jobs) /\ Len(m_work_queue') <= QueueLimit
          /\ m_current_work' \in Jobs \union {NoJob}
          /\ m_found' \in Values
          /\ m_request_id' \in Nat \union {-1}
          /\ m_last_request_datagram' \in Datagrams
          /\ issued' \in Nat /\ ended' \in Seq(Ended) /\ requests' \subseteq Datagrams
          /\ timerActive' \in BOOLEAN
          /\ Resting'
      BY <2>2, <2>3, <2>5, StartTyped
    <2>7. Flags'
      BY <1>1, <2>6, Zenon DEF Flags, StartsFirst
    <2>8. QED
      BY <2>4, <2>5, <2>6, <2>7, Zenon DEF Typed
  <1>2. ASSUME NEW kind \in JobKinds, Waits(kind)
        PROVE  Typed' /\ Flags' /\ Resting'
    <2>1. NewJob(kind) \in Jobs /\ jobs + 1 \in 1..MaxJobs /\ jobs + 1 \in Nat
      BY <1>2, SessionAssumption DEF Waits, NewJob, Jobs, JobKinds, Typed
    <2>2. m_work_queue' \in Seq(Jobs) /\ Len(m_work_queue') <= QueueLimit
      BY <1>2, <2>1, SessionAssumption DEF Typed, Waits
    <2>3. accepted' \in Seq(1..MaxJobs) /\ jobs' \in Nat
      BY <1>2, <2>1 DEF Waits, Typed
    <2>4. UNCHANGED <<m_current_work, m_found, ended, m_request_id, m_last_request_datagram, issued, requests, responses>>
      BY <1>2 DEF Waits, request
    <2>5. UNCHANGED <<timerActive, erred>>
      BY <1>2, Zenon DEF Waits, request
    <2>6. QED
      BY <2>2, <2>3, <2>4, <2>5, Zenon DEF Typed, Flags, Resting
  <1>3. ASSUME NEW e, Ending(e), Ends(e)
        PROVE  Typed' /\ Flags' /\ Resting'
    <2>1. e \in Ended
      BY <1>3, EndingTyped DEF Ends
    <2>2. Append(ended, e) \in Seq(Ended) /\ m_work_queue \in Seq(Jobs) /\ Len(m_work_queue) <= QueueLimit + 1
      BY <2>1, SessionAssumption DEF Typed
    <2>3. /\ m_work_queue' \in Seq(Jobs) /\ Len(m_work_queue') <= QueueLimit
          /\ m_current_work' \in Jobs \union {NoJob}
          /\ m_found' \in Values
          /\ m_request_id' \in Nat \union {-1}
          /\ m_last_request_datagram' \in Datagrams
          /\ issued' \in Nat /\ ended' \in Seq(Ended) /\ requests' \subseteq Datagrams
          /\ timerActive' \in BOOLEAN
          /\ Resting'
      BY <1>3, <2>2, StartTyped DEF Ends
    <2>4. UNCHANGED <<accepted, jobs, erred>> /\ responses' \subseteq responses
      BY <1>3, Zenon DEF Ends
    <2>5. QED
      BY <1>0, <2>3, <2>4, Zenon DEF Typed, Flags
  <1>4. ASSUME NEW r, Walks(r)
        PROVE  Typed' /\ Flags' /\ Resting'
    <2>1. m_current_work \in Jobs
      BY <1>4 DEF Walks, Typed, NoJob
    <2>2. m_found' \in Values /\ Len(m_found) + 1 \in Nat
      <3>1. r.job \in Nat /\ r.at \in Nat
        BY <1>4 DEF Walks, Typed, Responses
      <3>2. m_found \in Seq(Nat \X Nat) /\ <<r.job, r.at>> \in Nat \X Nat
        BY <3>1 DEF Typed, Values
      <3>3. QED
        BY <1>4, <3>2 DEF Walks, Values
    <2>3. /\ m_request_id' \in Nat /\ issued' \in Nat /\ m_last_request_datagram' \in Datagrams
          /\ requests' \subseteq Datagrams
          /\ timerActive' = TRUE
      BY <1>4, <2>1, <2>2, SendTyped DEF Walks, Typed
    <2>4. UNCHANGED <<m_work_queue, m_current_work, ended, accepted, jobs, erred>> /\ responses' \subseteq responses
      BY <1>4, Zenon DEF Walks
    <2>5. m_current_work # NoJob
      BY <2>1 DEF Jobs, NoJob
    <2>6. Resting' /\ Flags'
      BY <2>3, <2>4, <2>5, Zenon DEF Resting, Flags
    <2>7. QED
      BY <1>0, <2>2, <2>3, <2>4, <2>6 DEF Typed
  <1>5. ASSUME NEW r, Refused(r)
        PROVE  Typed' /\ Flags' /\ Resting'
    <2>1. m_request_id' = -1 /\ responses' \subseteq responses
      BY <1>5, Zenon DEF Refused
    <2>2. requests' \subseteq Datagrams
      BY <1>5 DEF Refused, Typed
    <2>3. UNCHANGED <<m_work_queue, m_current_work, m_found, ended, m_last_request_datagram, issued, accepted, jobs>>
      BY <1>5 DEF Refused, work
    <2>4. timerActive' = FALSE /\ UNCHANGED erred
      BY <1>5, Zenon DEF Refused
    <2>5. Flags' /\ Resting'
      BY <2>1, <2>4, Zenon DEF Flags, Resting
    <2>6. QED
      BY <1>0, <2>1, <2>2, <2>3, <2>5 DEF Typed
  <1>6. CASE Apart
    <2>1. UNCHANGED <<m_work_queue, m_current_work, m_found, ended, m_request_id, m_last_request_datagram, issued, accepted>>
      BY <1>6 DEF Apart, work, request
    <2>2. jobs' \in Nat /\ requests' \subseteq Datagrams
      BY <1>6 DEF Apart, Typed
    <2>3. responses' \subseteq Responses
      <3>1. CASE responses' \subseteq responses
        BY <1>0, <3>1
      <3>2. ASSUME NEW d \in requests, NEW kind \in Kinds,
                   responses' = responses \union {[rid |-> d.rid, job |-> d.job, at |-> d.at, kind |-> kind]}
            PROVE  responses' \subseteq Responses
        <4>1. [rid |-> d.rid, job |-> d.job, at |-> d.at, kind |-> kind] \in Responses
          BY DEF Typed, Datagrams, Responses
        <4>2. responses \subseteq Responses
          BY DEF Typed
        <4>3. QED
          BY <3>2, <4>1, <4>2, Zenon
      <3>3. QED
        BY <1>6, <3>1, <3>2 DEF Apart
    <2>4. timerActive' = timerActive /\ erred' \in BOOLEAN
      BY <1>6, Zenon DEF Apart, request, Flags
    <2>5. Flags' /\ Resting'
      BY <2>1, <2>4, Zenon DEF Flags, Resting
    <2>6. QED
      BY <2>1, <2>2, <2>3, <2>5, Zenon DEF Typed
  <1>7. QED
    BY <1>1, <1>2, <1>3, <1>4, <1>5, <1>6, StepCases
\* The session begins with the types, and at rest.
LEMMA InitTyped ==
  ASSUME Init
  PROVE  Typed /\ Flags /\ Resting
  <1>1. <<>> \in Seq(Jobs) /\ Len(<<>>) = 0 /\ <<>> \in Values /\ <<>> \in Seq(Ended) /\ <<>> \in Seq(1..MaxJobs)
    BY DEF Values
  <1>2. [rid |-> 0, job |-> 0, at |-> 0] \in Datagrams
    BY DEF Datagrams
  <1>3. Typed
    BY <1>1, <1>2, SessionAssumption DEF Init, Typed
  <1>4. QED
    BY <1>3, Zenon DEF Init, Flags, Resting

\* A step of the client, of its caller or of the callers that it has not is a
\* step of the session, or leaves the session's variables alone.
LEMMA StepOfClient ==
  ASSUME [ClientNext]_all
  PROVE  [Next]_vars
  <1>1. CASE timeoutDone
    BY <1>1, Zenon DEF timeoutDone, setValue, makeSubRequest, Next
  <1>2. CASE sessionEvent
    <2>1. ASSUME NEW r \in responses, NEW again \in {FALSE, env.again}, onReadyRead(r, again)
          PROVE  Next
      <3>1. onReadyRead(r, TRUE) \/ onReadyRead(r, FALSE)
        BY <2>1, Zenon DEF onReadyRead
      <3>2. QED
        BY <3>1, Zenon DEF Next
    <2>2. QED
      BY <1>2, <2>1, Zenon DEF sessionEvent, Next
  <1>3. CASE sessionTimeout
    BY <1>3, Zenon DEF sessionTimeout, Next
  <1>4. CASE callerAsks
    BY <1>4, Zenon DEF callerAsks, Next
  <1>5. CASE setCommand \/ waitForRespond \/ UNCHANGED all
    BY <1>5, Zenon DEF setCommand, waitForRespond, all
  <1>6. ASSUME NEW n \in 1..env.oids, requestValue(n)
        PROVE  UNCHANGED vars
    BY <1>6, Zenon DEF requestValue
  <1>7. ASSUME NEW gaveUp \in BOOLEAN, respondReturns(gaveUp)
        PROVE  UNCHANGED vars
    BY <1>7, Zenon DEF respondReturns
  <1>8. QED
    BY <1>1, <1>2, <1>3, <1>4, <1>5, <1>6, <1>7, Zenon DEF ClientNext

\* The client drives its session by the calls and events of the session alone:
\* what holds of SnmpSession under any caller holds of it under SnmpClient.
THEOREM ClientRunsSession == ClientSpec => Spec
  <1>1. ClientInit => Init
    BY DEF ClientInit
  <1>2. [ClientNext]_all => [Next]_vars
    BY StepOfClient
  <1>3. QED
    BY <1>1, <1>2, PTL DEF ClientSpec, Spec

\* The session keeps the types, whoever uses it.
LEMMA SessionTyped == Spec => [](Typed /\ Flags /\ Resting)
  <1>1. Typed /\ Flags /\ Resting /\ [Next]_vars => (Typed /\ Flags /\ Resting)'
    BY StepTyped
  <1>2. QED
    BY <1>1, InitTyped, PTL DEF Spec

\* The type invariant: in particular the queue never exceeds its limit, and a
\* walk, a result or a datagram is what the code takes it for.
THEOREM TypeCorrect == ClientSpec => []TypeOK
  <1>1. Typed /\ Flags => TypeOK
    BY Zenon DEF Typed, Flags, TypeOK, Values, Ended, Responses
  <1>2. QED
    BY <1>1, SessionTyped, ClientRunsSession, PTL

-----------------------------------------------------------------------------
(* AwaitsLastRequest *)

\* Until the agent sends one, no error and no broken packet is under way.
Sound == ~erred => \A r \in responses : r.kind \notin {"error", "broken"}

\* After startNextWork the last request is awaited, or no job is left.
LEMMA StartResends ==
  ASSUME NEW queue \in Seq(Jobs), NEW results, startNextWork(queue, results)
  PROVE  ResendIsAwaited'
  <1>1. PICK k \in 0..Len(queue) : Emptied(queue) \/ Started(queue, k)
    BY Zenon DEF startNextWork, Emptied, Started
  <1>2. CASE Emptied(queue)
    BY <1>2, Zenon DEF Emptied, ResendIsAwaited
  <1>3. CASE Started(queue, k)
    <2>1. timerActive' = TRUE /\ m_request_id' = m_last_request_datagram'.rid
      BY <1>3 DEF Started, sendDatagram
    <2>2. QED
      BY <2>1, Zenon DEF ResendIsAwaited
  <1>4. QED
    BY <1>1, <1>2, <1>3

\* Every step keeps AwaitsLastRequest: each one that stops the timer without an
\* error goes on to startNextWork or to the next request of the walk.
LEMMA AwaitsKept ==
  ASSUME Typed, Resting, Sound, AwaitsLastRequest, [Next]_vars
  PROVE  Sound' /\ AwaitsLastRequest'
  <1>0. responses' \subseteq responses /\ erred' = erred => Sound'
    BY DEF Sound
  <1>b. erred /\ erred' = erred => AwaitsLastRequest'
    BY DEF AwaitsLastRequest
  <1>1. ASSUME NEW kind \in JobKinds, StartsFirst(kind)
        PROVE  Sound' /\ AwaitsLastRequest'
    <2>1. NewJob(kind) \in Jobs
      BY <1>1, SessionAssumption DEF StartsFirst, NewJob, Jobs, JobKinds, Typed
    <2>2. Append(m_work_queue, NewJob(kind)) \in Seq(Jobs)
      BY <2>1 DEF Typed
    <2>3. ResendIsAwaited'
      BY <1>1, <2>2, StartResends DEF StartsFirst
    <2>4. responses' \subseteq responses /\ erred' = erred
      BY <1>1, Zenon DEF StartsFirst
    <2>5. QED
      BY <1>0, <2>3, <2>4, Zenon DEF AwaitsLastRequest
  <1>2. ASSUME NEW kind \in JobKinds, Waits(kind)
        PROVE  Sound' /\ AwaitsLastRequest'
    <2>1. UNCHANGED <<m_current_work, request, responses, erred>>
      BY <1>2, Zenon DEF Waits
    <2>2. AwaitsLastRequest'
      BY <2>1, Zenon DEF AwaitsLastRequest, ResendIsAwaited, request
    <2>3. QED
      BY <1>0, <2>1, <2>2, Zenon
  <1>3. ASSUME NEW e, Ends(e)
        PROVE  Sound' /\ AwaitsLastRequest'
    <2>1. m_work_queue \in Seq(Jobs)
      BY DEF Typed
    <2>2. ResendIsAwaited'
      BY <1>3, <2>1, StartResends DEF Ends
    <2>3. QED
      BY <1>3, <1>0, <2>2, Zenon DEF AwaitsLastRequest, Ends
  <1>4. ASSUME NEW r, Walks(r)
        PROVE  Sound' /\ AwaitsLastRequest'
    <2>1. timerActive' = TRUE /\ m_request_id' = m_last_request_datagram'.rid
      BY <1>4 DEF Walks, sendDatagram
    <2>2. ResendIsAwaited'
      BY <2>1, Zenon DEF ResendIsAwaited
    <2>3. QED
      BY <1>4, <1>0, <2>2, Zenon DEF AwaitsLastRequest, Walks
  <1>5. ASSUME NEW r, Refused(r)
        PROVE  Sound' /\ AwaitsLastRequest'
    <2>1. erred
      BY <1>5, Zenon DEF Refused, Sound
    <2>2. QED
      BY <1>5, <1>0, <1>b, <2>1, Zenon DEF Refused
  <1>6. CASE Apart
    <2>0. UNCHANGED <<request, work>>
      BY <1>6, Zenon DEF Apart
    <2>1. UNCHANGED <<request, m_current_work>> /\ (erred => erred')
      <3>1. UNCHANGED m_current_work
        BY <2>0 DEF work
      <3>2. erred => erred'
        BY <1>6 DEF Apart
      <3>3. QED
        BY <2>0, <3>1, <3>2, Zenon
    <2>2. AwaitsLastRequest'
      BY <2>1, Zenon DEF AwaitsLastRequest, ResendIsAwaited, request
    <2>3. ASSUME NEW d \in requests, NEW kind \in Kinds,
                 responses' = responses \union {[rid |-> d.rid, job |-> d.job, at |-> d.at, kind |-> kind]},
                 erred' = (erred \/ kind \in {"error", "broken"}), ~erred'
          PROVE  \A r \in responses' : r.kind \notin {"error", "broken"}
      <3>1. ~erred /\ kind \notin {"error", "broken"}
        BY <2>3, Zenon
      <3>2. \A r \in responses : r.kind \notin {"error", "broken"}
        BY <3>1, Zenon DEF Sound
      <3>3. QED
        BY <2>3, <3>1, <3>2
    <2>4. Sound'
      BY <1>6, <1>0, <2>3, Zenon DEF Apart, Sound
    <2>5. QED
      BY <2>2, <2>4
  <1>7. QED
    BY <1>1, <1>2, <1>3, <1>4, <1>5, <1>6, StepCases

\* As long as the agent sends neither errors nor broken packets, a current job
\* always has its last request awaited under a running timer (sendDatagram,
\* cancelWork, processSubValue).
THEOREM LastRequestAwaited == ClientSpec => []AwaitsLastRequest
  <1>1. Init => Sound /\ AwaitsLastRequest
    BY Zenon DEF Init, Sound, AwaitsLastRequest, ResendIsAwaited
  <1>2. Typed /\ Resting /\ Sound /\ AwaitsLastRequest /\ [Next]_vars => Sound' /\ AwaitsLastRequest'
    BY AwaitsKept
  <1>3. QED
    BY <1>1, <1>2, SessionTyped, ClientRunsSession, PTL DEF Spec

-----------------------------------------------------------------------------
(* OwnAnswer *)

\* The values s are those of the job, in the order of its walk.
Walked(s, job) == \A i \in 1..Len(s) : s[i] = <<job, i - 1>>

\* Request ids are never used again: a datagram with the id of the last request
\* is that request, or an answer to it.
Network ==
  /\ m_last_request_datagram.rid <= issued
  /\ \A d \in requests \union responses :
       /\ d.rid <= issued
       /\ d.rid = m_last_request_datagram.rid =>
            d.job = m_last_request_datagram.job /\ d.at = m_last_request_datagram.at

\* What is awaited is the answer to the last request, the current job's next.
Present ==
  /\ m_request_id \in {-1, m_last_request_datagram.rid}
  /\ m_request_id # -1 => /\ m_last_request_datagram.job = m_current_work.id
                          /\ m_last_request_datagram.at = Len(m_found)
  /\ m_current_work.kind # "sub" => m_found = <<>>
  /\ Walked(m_found, m_current_work.id)

Past == \A i \in 1..Len(ended) : Walked(ended[i].values, ended[i].job)

\* A request under a new id leaves the network as it should be.
LEMMA SendNetwork ==
  ASSUME Typed, Network, NEW job \in Jobs, NEW n \in Nat, sendDatagram(job, n),
         responses' \subseteq responses
  PROVE  /\ Network'
         /\ m_request_id' = m_last_request_datagram'.rid
         /\ m_last_request_datagram'.job = job.id /\ m_last_request_datagram'.at = n
  <1>1. /\ m_request_id' = issued + 1 /\ issued' = issued + 1
        /\ m_last_request_datagram' = [rid |-> issued + 1, job |-> job.id, at |-> n]
        /\ requests' = requests \union {m_last_request_datagram'}
    BY SendTyped
  <1>2. issued \in Nat /\ \A d \in requests \union responses : d.rid \in Nat /\ d.rid <= issued
    BY DEF Typed, Network, Datagrams, Responses
  <1>3. m_last_request_datagram'.rid = issued + 1
    BY <1>1
  <1>4. ASSUME NEW d \in requests' \union responses'
        PROVE  d.rid <= issued + 1 /\ (d.rid = issued + 1 => d = m_last_request_datagram')
    <2>1. d \in requests \union responses \/ d = m_last_request_datagram'
      BY <1>1
    <2>2. CASE d \in requests \union responses
      <3>1. d.rid \in Nat /\ d.rid <= issued
        BY <1>2, <2>2
      <3>2. QED
        BY <1>2, <3>1
    <2>3. CASE d = m_last_request_datagram'
      BY <1>2, <1>3, <2>3
    <2>4. QED
      BY <2>1, <2>2, <2>3
  <1>5. issued + 1 <= issued + 1
    BY <1>2
  <1>6. Network'
    BY <1>1, <1>3, <1>4, <1>5 DEF Network
  <1>7. QED
    BY <1>1, <1>6

\* Starting the next job keeps requests, walk and results as they should be.
LEMMA StartOwn ==
  ASSUME Typed, Network, NEW queue \in Seq(Jobs), NEW results \in Seq(Ended),
         startNextWork(queue, results), responses' \subseteq responses,
         \A i \in 1..Len(results) : Walked(results[i].values, results[i].job)
  PROVE  Network' /\ Present' /\ Past'
  <1>1. PICK k \in 0..Len(queue) :
           /\ ended' \in Seq(Ended) /\ Len(ended') = Len(results) + k
           /\ \A i \in 1..Len(results) : ended'[i] = results[i]
           /\ \A i \in 1..k : ended'[Len(results) + i] = Failed(queue[i])
           /\ m_found' = <<>>
           /\ \/ k = Len(queue) /\ Emptied(queue)
              \/ k < Len(queue) /\ Started(queue, k)
    BY StartNextTyped
  <1>2. \A job : Walked(<<>>, job)
    BY DEF Walked
  <1>3. Past'
    <2> SUFFICES ASSUME NEW i \in 1..Len(ended')
                 PROVE  Walked(ended'[i].values, ended'[i].job)
      BY DEF Past
    <2>1. CASE i \in 1..Len(results)
      BY <1>1, <2>1
    <2>2. CASE i \notin 1..Len(results)
      <3>1. i - Len(results) \in 1..k /\ i = Len(results) + (i - Len(results))
        BY <1>1, <2>2
      <3>2. ended'[i] = Failed(queue[i - Len(results)])
        BY <1>1, <3>1
      <3>3. QED
        BY <3>2, <1>2 DEF Failed
    <2>3. QED
      BY <2>1, <2>2
  <1>4. CASE Emptied(queue)
    <2>1. /\ UNCHANGED <<m_last_request_datagram, issued, requests>>
          /\ m_current_work' = NoJob /\ m_request_id' = -1 /\ m_found' = <<>>
      BY <1>1, <1>4 DEF Emptied
    <2>2. Network'
      BY <2>1 DEF Network
    <2>3. Present'
      BY <2>1, <1>2 DEF Present
    <2>4. QED
      BY <1>3, <2>2, <2>3
  <1>5. CASE k < Len(queue) /\ Started(queue, k)
    <2>1. queue[k + 1] \in Jobs /\ 0 \in Nat
      BY <1>5
    <2>2. /\ Network'
          /\ m_request_id' = m_last_request_datagram'.rid
          /\ m_last_request_datagram'.job = queue[k + 1].id /\ m_last_request_datagram'.at = 0
      BY <1>5, <2>1, SendNetwork DEF Started
    <2>3. m_current_work' = queue[k + 1] /\ m_found' = <<>> /\ Len(<<>>) = 0
      BY <1>1, <1>5 DEF Started
    <2>4. Present'
      BY <2>2, <2>3, <1>2 DEF Present
    <2>5. QED
      BY <1>3, <2>2, <2>4
  <1>6. QED
    BY <1>1, <1>4, <1>5

\* An awaited answer is the current job's, to its last question.
LEMMA AwaitedOwn ==
  ASSUME Typed, Network, Present, NEW r \in responses, Awaited(r)
  PROVE  r.job = m_current_work.id /\ r.at = Len(m_found)
  <1>1. m_request_id # -1 /\ r.rid = m_last_request_datagram.rid
    BY DEF Typed, Responses, Awaited, Present
  <1>2. QED
    BY <1>1 DEF Network, Present

\* What the current job returns was found by its own requests, in their order.
LEMMA EndingOwn ==
  ASSUME Typed, Network, Present, m_current_work # NoJob, NEW e, Ending(e)
  PROVE  Walked(e.values, e.job)
  <1>1. CASE e = Failed(m_current_work)
    BY <1>1 DEF Failed, Walked
  <1>2. CASE e = Completed(m_current_work, m_found)
    BY <1>2 DEF Completed, Present
  <1>3. ASSUME m_current_work.kind # "sub", NEW r \in responses, Awaited(r),
               e = Completed(m_current_work, <<<<r.job, r.at>>>>)
        PROVE  Walked(e.values, e.job)
    <2>1. r.job = m_current_work.id /\ r.at = Len(m_found) /\ m_found = <<>>
      BY <1>3, AwaitedOwn DEF Present
    <2>2. r.at = 0
      BY <2>1
    <2>3. e.values = << <<m_current_work.id, 0>> >> /\ e.job = m_current_work.id
      BY <1>3, <2>1, <2>2 DEF Completed
    <2>4. QED
      BY <2>3 DEF Walked
  <1>4. QED
    BY <1>1, <1>2, <1>3, Zenon DEF Ending

\* Every step keeps it so: an answer that is not awaited changes no job.
LEMMA OwnKept ==
  ASSUME Typed, Resting, Network, Present, Past, [Next]_vars
  PROVE  Network' /\ Present' /\ Past'
  <1>1. ASSUME NEW kind \in JobKinds, StartsFirst(kind)
        PROVE  Network' /\ Present' /\ Past'
    <2>1. NewJob(kind) \in Jobs
      BY <1>1, SessionAssumption DEF StartsFirst, NewJob, Jobs, JobKinds, Typed
    <2>2. Append(m_work_queue, NewJob(kind)) \in Seq(Jobs) /\ ended \in Seq(Ended)
      BY <2>1 DEF Typed
    <2>3. responses' \subseteq responses
      BY <1>1 DEF StartsFirst
    <2>4. QED
      BY <1>1, <2>2, <2>3, StartOwn DEF StartsFirst, Past
  <1>2. ASSUME NEW kind \in JobKinds, Waits(kind)
        PROVE  Network' /\ Present' /\ Past'
    <2>1. /\ UNCHANGED <<m_current_work, m_found, ended, requests, responses>>
          /\ UNCHANGED <<m_request_id, m_last_request_datagram, issued>>
      BY <1>2 DEF Waits, request
    <2>2. QED
      BY <2>1, Zenon DEF Network, Present, Past
  <1>3. ASSUME NEW e, Ending(e), Ends(e)
        PROVE  Network' /\ Present' /\ Past'
    <2>1. e \in Ended /\ Walked(e.values, e.job)
      BY <1>3, EndingTyped, EndingOwn DEF Ends
    <2> DEFINE results == Append(ended, e)
    <2>2. results \in Seq(Ended) /\ m_work_queue \in Seq(Jobs)
      BY <2>1 DEF Typed
    <2>3. ended \in Seq(Ended)
      BY DEF Typed
    <2>4. \A i \in 1..Len(results) : results[i] = e \/ (i \in 1..Len(ended) /\ results[i] = ended[i])
      BY <2>1, <2>3
    <2> HIDE DEF results
    <2>5. \A i \in 1..Len(results) : Walked(results[i].values, results[i].job)
      BY <2>1, <2>4, Zenon DEF Past
    <2>6. startNextWork(m_work_queue, results) /\ responses' \subseteq responses
      BY <1>3 DEF Ends, results
    <2>7. QED
      BY <2>2, <2>5, <2>6, StartOwn
  <1>4. ASSUME NEW r, Walks(r)
        PROVE  Network' /\ Present' /\ Past'
    <2>1. m_current_work \in Jobs /\ m_current_work.kind = "sub"
      BY <1>4 DEF Walks, Typed, NoJob
    <2>2. m_found \in Seq(Nat \X Nat) /\ Len(m_found) \in Nat
      BY DEF Typed, Values
    <2>3. r \in responses /\ r.job = m_current_work.id /\ r.at = Len(m_found) /\ r.job \in Nat
      BY <1>4, AwaitedOwn DEF Walks, Typed, Responses
    <2>4. /\ Network'
          /\ m_request_id' = m_last_request_datagram'.rid
          /\ m_last_request_datagram'.job = m_current_work.id
          /\ m_last_request_datagram'.at = Len(m_found) + 1
      BY <1>4, <2>1, <2>2, SendNetwork DEF Walks
    <2> DEFINE value == <<r.job, r.at>>
    <2>5. m_found' = Append(m_found, value)
      BY <1>4 DEF Walks
    <2>6. value \in Nat \X Nat /\ value = <<m_current_work.id, Len(m_found)>>
      BY <2>2, <2>3
    <2> HIDE DEF value
    <2>7. Len(m_found') = Len(m_found) + 1
      BY <2>2, <2>5, <2>6
    <2>8. Walked(m_found', m_current_work.id)
      <3> SUFFICES ASSUME NEW i \in 1..Len(m_found')
                   PROVE  m_found'[i] = <<m_current_work.id, i - 1>>
        BY DEF Walked
      <3>1. CASE i \in 1..Len(m_found)
        <4>1. m_found'[i] = m_found[i]
          BY <2>2, <2>5, <2>6, <3>1
        <4>2. QED
          BY <3>1, <4>1 DEF Present, Walked
      <3>2. CASE i = Len(m_found) + 1
        <4>1. m_found'[i] = value /\ i - 1 = Len(m_found)
          BY <2>2, <2>5, <2>6, <3>2
        <4>2. QED
          BY <4>1, <2>6
      <3>3. QED
        BY <2>2, <2>7, <3>1, <3>2
    <2>9. UNCHANGED <<m_current_work, ended>>
      BY <1>4 DEF Walks
    <2>10. QED
      BY <2>1, <2>4, <2>7, <2>8, <2>9 DEF Present, Past
  <1>5. ASSUME NEW r, Refused(r)
        PROVE  Network' /\ Present' /\ Past'
    <2>1. /\ UNCHANGED <<m_last_request_datagram, issued, m_current_work, m_found, ended>>
          /\ m_request_id' = -1
          /\ requests' \subseteq requests \union {m_last_request_datagram}
          /\ responses' \subseteq responses
      BY <1>5 DEF Refused, work
    <2>2. Network'
      BY <2>1 DEF Network
    <2>3. QED
      BY <2>1, <2>2 DEF Present, Past
  <1>6. CASE Apart
    <2>1. UNCHANGED <<m_request_id, m_last_request_datagram, issued, m_current_work, m_found, ended>>
      BY <1>6 DEF Apart, work, request
    <2>2. \A r \in responses' : \E d \in requests \union responses : r.rid = d.rid /\ r.job = d.job /\ r.at = d.at
      <3>1. CASE responses' \subseteq responses
        BY <3>1
      <3>2. ASSUME NEW d \in requests, NEW kind \in Kinds,
                   responses' = responses \union {[rid |-> d.rid, job |-> d.job, at |-> d.at, kind |-> kind]}
            PROVE  \A r \in responses' : \E x \in requests \union responses :
                     r.rid = x.rid /\ r.job = x.job /\ r.at = x.at
        BY <3>2
      <3>3. QED
        BY <1>6, <3>1, <3>2 DEF Apart
    <2>3. requests' \subseteq requests
      BY <1>6 DEF Apart
    <2>4. Network'
      BY <2>1, <2>2, <2>3 DEF Network
    <2>5. QED
      BY <2>1, <2>4 DEF Present, Past
  <1>7. QED
    BY <1>1, <1>2, <1>3, <1>4, <1>5, <1>6, StepCases

\* Whoever uses the session, it never mixes the answers of two requests.
LEMMA SessionOwn == Spec => [](Network /\ Present /\ Past)
  <1>1. Init => Network /\ Present /\ Past
    BY DEF Init, Network, Present, Past, Walked, NoJob
  <1>2. Typed /\ Resting /\ Network /\ Present /\ Past /\ [Next]_vars => Network' /\ Present' /\ Past'
    BY OwnKept
  <1>3. QED
    BY <1>1, <1>2, SessionTyped, PTL DEF Spec

\* However answers are delayed, repeated or reordered, a job's values are the
\* answers to its own requests, each once and in the order of the walk
\* (onReadyRead, processSubValue).
THEOREM AnswersOwn == ClientSpec => []OwnAnswer
  <1>3. Typed /\ Past => OwnAnswer
    <2> SUFFICES ASSUME Typed, Past, NEW e \in ToSet(ended)
                 PROVE  e.values = [i \in 1..Len(e.values) |-> <<e.job, i - 1>>]
      BY DEF OwnAnswer
    <2>1. ended \in Seq(Ended)
      BY DEF Typed
    <2>2. PICK k \in DOMAIN ended : e = ended[k]
      BY DEF ToSet
    <2>3. k \in 1..Len(ended) /\ e \in Ended
      BY <2>1, <2>2
    <2>4. e.values \in Seq(Nat \X Nat) /\ Walked(e.values, e.job)
      BY <2>2, <2>3 DEF Past, Ended, Values
    <2> DEFINE n == Len(e.values)
               walk == [i \in 1..n |-> <<e.job, i - 1>>]
    <2>5. e.values \in [1..n -> Nat \X Nat]
      BY <2>4
    <2>6. \A i \in 1..n : e.values[i] = <<e.job, i - 1>>
      BY <2>4 DEF Walked
    <2> HIDE DEF n
    <2>7. \A i \in 1..n : e.values[i] = walk[i]
      BY <2>6
    <2>8. e.values = walk
      BY <2>5, <2>7, Zenon
    <2>9. QED
      BY <2>8 DEF n
  <1>4. QED
    BY <1>3, SessionTyped, SessionOwn, ClientRunsSession, PTL

-----------------------------------------------------------------------------
(* InOrder *)

\* The jobs that have not ended: the current one, then the queue.
Line == IF m_current_work = NoJob THEN m_work_queue ELSE <<m_current_work>> \o m_work_queue

\* The ids are those of the results and then of the jobs.
Covers(ids, results, queue) ==
  /\ Len(ids) = Len(results) + Len(queue)
  /\ \A i \in 1..Len(results) : ids[i] = results[i].job
  /\ \A i \in 1..Len(queue) : ids[Len(results) + i] = queue[i].id

\* A sequence with one more element in front.
LEMMA ConsIndex ==
  ASSUME NEW S, NEW c \in S, NEW s \in Seq(S)
  PROVE  /\ <<c>> \o s \in Seq(S)
         /\ Len(<<c>> \o s) = Len(s) + 1
         /\ (<<c>> \o s)[1] = c
         /\ \A i \in 1..Len(s) : (<<c>> \o s)[i + 1] = s[i]
  <1>1. <<c>> \in Seq(S) /\ Len(<<c>>) = 1 /\ <<c>>[1] = c
    OBVIOUS
  <1>2. \A i \in 1..Len(s) : (<<c>> \o s)[1 + i] = s[i] /\ 1 + i = i + 1
    BY <1>1
  <1>3. QED
    BY <1>1, <1>2

\* Sums of the indices that the lemmas below need.
LEMMA IndexShift ==
  ASSUME NEW a \in Nat, NEW b \in Nat, NEW i \in 1..a
  PROVE  i + 1 \in 1..(a + 1) /\ (b + 1) + i = b + (i + 1)
  OBVIOUS

\* A sequence without its first k + 1 elements.
LEMMA RestIndex ==
  ASSUME NEW S, NEW s \in Seq(S), NEW k \in Nat, k < Len(s)
  PROVE  LET r == SubSeq(s, k + 2, Len(s)) IN
         r \in Seq(S) /\ Len(r) = Len(s) - (k + 1) /\ \A i \in 1..Len(r) : r[i] = s[k + 1 + i]
  <1>1. Len(s) \in Nat
    OBVIOUS
  <1>2. SubSeq(s, k + 2, Len(s)) \in Seq(S)
    BY <1>1
  <1>3. Len(SubSeq(s, k + 2, Len(s))) = Len(s) - (k + 1)
    BY <1>1
  <1>4. \A i \in 1..(Len(s) - (k + 1)) : SubSeq(s, k + 2, Len(s))[i] = s[k + 1 + i]
    BY <1>1
  <1>5. QED
    BY <1>2, <1>3, <1>4

\* The jobs that have not ended are a sequence of jobs.
LEMMA LineTyped ==
  ASSUME Typed
  PROVE  Line \in Seq(Jobs) /\ Len(Line) \in Nat
  <1>1. m_work_queue \in Seq(Jobs)
    BY DEF Typed
  <1>2. m_current_work # NoJob => m_current_work \in Jobs
    BY DEF Typed
  <1>3. m_current_work # NoJob => <<m_current_work>> \o m_work_queue \in Seq(Jobs)
    BY <1>1, <1>2, ConsIndex
  <1>4. QED
    BY <1>1, <1>3 DEF Line

\* A job put behind the others with its id behind the ids.
LEMMA CoversAppend ==
  ASSUME NEW ids \in Seq(1..MaxJobs), NEW results \in Seq(Ended), NEW queue \in Seq(Jobs),
         NEW job \in Jobs, Covers(ids, results, queue)
  PROVE  Covers(Append(ids, job.id), results, Append(queue, job))
  <1> DEFINE ids1 == Append(ids, job.id)
             queue1 == Append(queue, job)
  <1>1. job.id \in 1..MaxJobs
    BY DEF Jobs
  <1>2. Len(ids1) = Len(ids) + 1 /\ Len(queue1) = Len(queue) + 1
    BY <1>1
  <1>3. \A i \in 1..Len(ids) : ids1[i] = ids[i]
    BY <1>1
  <1>4. ids1[Len(ids) + 1] = job.id
    BY <1>1
  <1>5. \A i \in 1..Len(queue) : queue1[i] = queue[i]
    OBVIOUS
  <1>6. queue1[Len(queue) + 1] = job
    OBVIOUS
  <1>7. Len(ids) = Len(results) + Len(queue) /\ Len(results) \in Nat /\ Len(queue) \in Nat /\ Len(ids) \in Nat
    BY DEF Covers
  <1> HIDE DEF ids1, queue1
  <1>8. \A i \in 1..Len(results) : ids1[i] = results[i].job
    BY <1>3, <1>7 DEF Covers
  <1>9. ASSUME NEW i \in 1..Len(queue1)
        PROVE  ids1[Len(results) + i] = queue1[i].id
    <2>1. CASE i \in 1..Len(queue)
      <3>1. Len(results) + i \in 1..Len(ids)
        BY <1>7, <2>1
      <3>2. QED
        BY <1>3, <1>5, <2>1, <3>1 DEF Covers
    <2>2. CASE i = Len(queue) + 1
      <3>1. Len(results) + i = Len(ids) + 1
        BY <1>7, <2>2
      <3>2. QED
        BY <1>4, <1>6, <2>2, <3>1
    <2>3. QED
      BY <1>2, <1>7, <2>1, <2>2
  <1>10. Len(ids1) = Len(results) + Len(queue1)
    BY <1>2, <1>7
  <1>11. QED
    BY <1>8, <1>9, <1>10 DEF Covers, ids1, queue1

\* A job of which the result is known moves from the one to the other.
LEMMA CoversEnds ==
  ASSUME NEW ids \in Seq(1..MaxJobs), NEW results \in Seq(Ended), NEW queue \in Seq(Jobs),
         NEW job \in Jobs, NEW e \in Ended, e.job = job.id,
         Covers(ids, results, <<job>> \o queue)
  PROVE  Covers(ids, Append(results, e), queue)
  <1> DEFINE line == <<job>> \o queue
             results1 == Append(results, e)
  <1>1. Len(line) = Len(queue) + 1 /\ line[1] = job /\ \A i \in 1..Len(queue) : line[i + 1] = queue[i]
    BY ConsIndex
  <1>2. /\ Len(results1) = Len(results) + 1 /\ results1[Len(results) + 1] = e
        /\ \A i \in 1..Len(results) : results1[i] = results[i]
    OBVIOUS
  <1>3. Len(results) \in Nat /\ Len(queue) \in Nat
    OBVIOUS
  <1> HIDE DEF results1
  <1>4. /\ Len(ids) = Len(results) + Len(line)
        /\ \A i \in 1..Len(results) : ids[i] = results[i].job
        /\ \A i \in 1..Len(line) : ids[Len(results) + i] = line[i].id
    BY DEF Covers
  <1> HIDE DEF line
  <1>5. Len(ids) = Len(results1) + Len(queue)
    BY <1>1, <1>2, <1>3, <1>4
  <1>6. ASSUME NEW i \in 1..Len(results1)
        PROVE  ids[i] = results1[i].job
    <2>1. CASE i \in 1..Len(results)
      BY <1>2, <1>4, <2>1
    <2>2. CASE i = Len(results) + 1
      <3>1. 1 \in 1..Len(line)
        BY <1>1, <1>3
      <3>2. ids[Len(results) + 1] = line[1].id
        BY <1>4, <3>1
      <3>3. QED
        BY <1>1, <1>2, <2>2, <3>2
    <2>3. QED
      BY <1>2, <1>3, <2>1, <2>2
  <1>7. ASSUME NEW i \in 1..Len(queue)
        PROVE  ids[Len(results1) + i] = queue[i].id
    <2>1. i + 1 \in 1..Len(line) /\ Len(results1) + i = Len(results) + (i + 1)
      <3>1. Len(line) = Len(queue) + 1 /\ Len(results1) = Len(results) + 1
        BY <1>1, <1>2
      <3>2. i + 1 \in 1..(Len(queue) + 1) /\ (Len(results) + 1) + i = Len(results) + (i + 1)
        BY <1>3, IndexShift
      <3>3. QED
        BY <3>1, <3>2
    <2>2. QED
      BY <1>1, <1>4, <2>1
  <1>8. QED
    BY <1>5, <1>6, <1>7 DEF Covers, results1

\* Starting the next job, however many fail at it, loses none.
LEMMA StartCovers ==
  ASSUME Typed, NEW ids, NEW queue \in Seq(Jobs), NEW results \in Seq(Ended),
         startNextWork(queue, results), Covers(ids, results, queue)
  PROVE  Covers(ids, ended', Line')
  <1>1. PICK k \in 0..Len(queue) :
           /\ ended' \in Seq(Ended) /\ Len(ended') = Len(results) + k
           /\ \A i \in 1..Len(results) : ended'[i] = results[i]
           /\ \A i \in 1..k : ended'[Len(results) + i] = Failed(queue[i])
           /\ \/ k = Len(queue) /\ Emptied(queue)
              \/ k < Len(queue) /\ Started(queue, k)
    BY StartNextTyped
  <1>2. Len(queue) \in Nat /\ Len(results) \in Nat /\ k \in Nat
    OBVIOUS
  <1>3. Len(Line') = Len(queue) - k /\ \A i \in 1..(Len(queue) - k) : Line'[i] = queue[k + i]
    <2>1. CASE k = Len(queue) /\ Emptied(queue)
      <3>1. Line' = <<>>
        BY <2>1 DEF Emptied, Line
      <3>2. QED
        BY <2>1, <3>1, <1>2
    <2>2. CASE k < Len(queue) /\ Started(queue, k)
      <3>1. queue[k + 1] \in Jobs
        BY <2>2
      <3>2. queue[k + 1] # NoJob
        BY <3>1 DEF Jobs, NoJob
      <3> DEFINE rest == SubSeq(queue, k + 2, Len(queue))
      <3>3. m_current_work' = queue[k + 1] /\ m_work_queue' = rest
        BY <2>2 DEF Started
      <3>4. rest \in Seq(Jobs) /\ Len(rest) = Len(queue) - (k + 1) /\ \A i \in 1..Len(rest) : rest[i] = queue[k + 1 + i]
        BY <2>2, <1>2, RestIndex
      <3> HIDE DEF rest
      <3>5. Line' = <<queue[k + 1]>> \o rest
        BY <3>2, <3>3 DEF Line
      <3>6. Len(Line') = Len(rest) + 1 /\ Line'[1] = queue[k + 1] /\ \A i \in 1..Len(rest) : Line'[i + 1] = rest[i]
        BY <3>1, <3>4, <3>5, ConsIndex
      <3>7. ASSUME NEW i \in 1..(Len(queue) - k)
            PROVE  Line'[i] = queue[k + i]
        <4>1. CASE i = 1
          BY <3>6, <4>1
        <4>2. CASE i # 1
          <5>1. i - 1 \in 1..Len(rest) /\ (i - 1) + 1 = i /\ k + 1 + (i - 1) = k + i
            BY <1>2, <3>4, <4>2
          <5>2. Line'[(i - 1) + 1] = rest[i - 1] /\ rest[i - 1] = queue[k + 1 + (i - 1)]
            BY <3>4, <3>6, <5>1
          <5>3. QED
            BY <5>1, <5>2
        <4>3. QED
          BY <4>1, <4>2
      <3>8. Len(Line') = Len(queue) - k
        BY <1>2, <3>4, <3>6
      <3>9. QED
        BY <3>7, <3>8
    <2>3. QED
      BY <1>1, <2>1, <2>2
  <1>4. /\ Len(ids) = Len(results) + Len(queue)
        /\ \A i \in 1..Len(results) : ids[i] = results[i].job
        /\ \A i \in 1..Len(queue) : ids[Len(results) + i] = queue[i].id
    BY DEF Covers
  <1>5. Len(ids) = Len(ended') + Len(Line')
    BY <1>1, <1>2, <1>3, <1>4
  <1>6. ASSUME NEW i \in 1..Len(ended')
        PROVE  ids[i] = ended'[i].job
    <2>1. CASE i \in 1..Len(results)
      BY <1>1, <1>4, <2>1
    <2>2. CASE i \notin 1..Len(results)
      <3> DEFINE j == i - Len(results)
      <3>1. j \in 1..k /\ i = Len(results) + j /\ j \in 1..Len(queue)
        BY <1>1, <1>2, <2>2
      <3> HIDE DEF j
      <3>2. ended'[i] = Failed(queue[j])
        BY <1>1, <3>1
      <3>a. ended'[i].job = queue[j].id
        BY <3>2 DEF Failed
      <3>3. QED
        BY <1>4, <3>1, <3>a
    <2>3. QED
      BY <2>1, <2>2
  <1>7. ASSUME NEW i \in 1..Len(Line')
        PROVE  ids[Len(ended') + i] = Line'[i].id
    <2>1. k + i \in 1..Len(queue) /\ Len(ended') + i = Len(results) + (k + i) /\ i \in 1..(Len(queue) - k)
      BY <1>1, <1>2, <1>3
    <2>2. QED
      BY <1>3, <1>4, <2>1
  <1>8. QED
    BY <1>5, <1>6, <1>7 DEF Covers

\* Every step keeps the order: a job enters behind the last and leaves in front.
LEMMA OrderKept ==
  ASSUME Typed, Resting, Covers(accepted, ended, Line), [Next]_vars
  PROVE  Covers(accepted', ended', Line')
  <1>0. accepted \in Seq(1..MaxJobs) /\ ended \in Seq(Ended) /\ m_work_queue \in Seq(Jobs) /\ Line \in Seq(Jobs)
    BY LineTyped DEF Typed
  <1>1. ASSUME NEW kind \in JobKinds, StartsFirst(kind)
        PROVE  Covers(accepted', ended', Line')
    <2>1. NewJob(kind) \in Jobs /\ NewJob(kind).id = jobs + 1
      BY <1>1, SessionAssumption DEF StartsFirst, NewJob, Jobs, JobKinds, Typed
    <2>2. Line = m_work_queue
      BY <1>1 DEF StartsFirst, Line
    <2>3. Covers(Append(accepted, jobs + 1), ended, Append(m_work_queue, NewJob(kind)))
      BY <1>0, <2>1, <2>2, CoversAppend
    <2>4. Append(m_work_queue, NewJob(kind)) \in Seq(Jobs)
      BY <1>0, <2>1
    <2>5. Covers(Append(accepted, jobs + 1), ended', Line')
      BY <1>1, <1>0, <2>3, <2>4, StartCovers DEF StartsFirst
    <2>6. QED
      BY <1>1, <2>5 DEF StartsFirst
  <1>2. ASSUME NEW kind \in JobKinds, Waits(kind)
        PROVE  Covers(accepted', ended', Line')
    <2>1. NewJob(kind) \in Jobs /\ NewJob(kind).id = jobs + 1
      BY <1>2, SessionAssumption DEF Waits, NewJob, Jobs, JobKinds, Typed
    <2>2. Covers(Append(accepted, jobs + 1), ended, Append(Line, NewJob(kind)))
      BY <1>0, <2>1, CoversAppend
    <2>3. m_current_work \in Jobs /\ m_current_work # NoJob
      BY <1>2 DEF Waits, Typed
    <2>4. <<m_current_work>> \o Append(m_work_queue, NewJob(kind)) = Append(<<m_current_work>> \o m_work_queue, NewJob(kind))
      BY <1>0, <2>1, <2>3
    <2>5. Line' = Append(Line, NewJob(kind))
      BY <1>2, <2>3, <2>4 DEF Waits, Line
    <2>6. accepted' = Append(accepted, jobs + 1) /\ ended' = ended
      BY <1>2 DEF Waits
    <2>7. QED
      BY <2>2, <2>5, <2>6
  <1>3. ASSUME NEW e, Ending(e), Ends(e)
        PROVE  Covers(accepted', ended', Line')
    <2>1. e \in Ended /\ e.job = m_current_work.id /\ m_current_work \in Jobs
      BY <1>3, EndingTyped DEF Ends, Typed
    <2>2. Line = <<m_current_work>> \o m_work_queue
      BY <1>3 DEF Ends, Line
    <2>3. Covers(accepted, Append(ended, e), m_work_queue)
      BY <1>0, <2>1, <2>2, CoversEnds
    <2>4. Append(ended, e) \in Seq(Ended)
      BY <1>0, <2>1
    <2>5. Covers(accepted, ended', Line')
      BY <1>3, <1>0, <2>3, <2>4, StartCovers DEF Ends
    <2>6. QED
      BY <1>3, <2>5 DEF Ends
  <1>4. CASE (\E r : Walks(r)) \/ (\E r : Refused(r)) \/ Apart
    <2>1. UNCHANGED <<accepted, ended, m_current_work, m_work_queue>>
      BY <1>4 DEF Walks, Refused, Apart, work
    <2>2. QED
      BY <2>1 DEF Line
  <1>5. QED
    BY <1>1, <1>2, <1>3, <1>4, StepCases
\* A concatenation, index by index.
LEMMA ConcatIndex ==
  ASSUME NEW S, NEW s \in Seq(S), NEW t \in Seq(S)
  PROVE  /\ s \o t \in Seq(S) /\ Len(s \o t) = Len(s) + Len(t)
         /\ \A i \in 1..Len(s) : (s \o t)[i] = s[i]
         /\ \A i \in 1..Len(t) : (s \o t)[Len(s) + i] = t[i]
  OBVIOUS

\* Covers, as the equation of sequences that InOrder states.
LEMMA CoversIsOrder ==
  ASSUME NEW ids \in Seq(1..MaxJobs), NEW results \in Seq(Ended), NEW queue \in Seq(Jobs),
         Covers(ids, results, queue)
  PROVE  ids = [i \in 1..Len(results) |-> results[i].job] \o [i \in 1..Len(queue) |-> queue[i].id]
  <1> DEFINE a == [i \in 1..Len(results) |-> results[i].job]
             b == [i \in 1..Len(queue) |-> queue[i].id]
  <1>1. Len(results) \in Nat /\ Len(queue) \in Nat
    OBVIOUS
  <1>2. \A i \in 1..Len(results) : results[i].job \in 1..MaxJobs
    <2>1. \A i \in 1..Len(results) : results[i] \in Ended
      OBVIOUS
    <2>2. QED
      BY <2>1 DEF Ended
  <1>3. \A i \in 1..Len(queue) : queue[i].id \in 1..MaxJobs
    <2>1. \A i \in 1..Len(queue) : queue[i] \in Jobs
      OBVIOUS
    <2>2. QED
      BY <2>1 DEF Jobs
  <1>4. a \in [1..Len(results) -> 1..MaxJobs] /\ b \in [1..Len(queue) -> 1..MaxJobs]
    BY <1>2, <1>3
  <1>5. a \in Seq(1..MaxJobs) /\ Len(a) = Len(results) /\ b \in Seq(1..MaxJobs) /\ Len(b) = Len(queue)
    BY <1>1, <1>4
  <1>6. \A i \in 1..Len(results) : a[i] = ids[i]
    BY DEF Covers
  <1>7. \A i \in 1..Len(queue) : b[i] = ids[Len(results) + i]
    BY DEF Covers
  <1>8. Len(ids) = Len(results) + Len(queue)
    BY DEF Covers
  <1> HIDE DEF a, b
  <1>0. /\ a \o b \in Seq(1..MaxJobs) /\ Len(a \o b) = Len(a) + Len(b)
        /\ \A i \in 1..Len(a) : (a \o b)[i] = a[i]
        /\ \A i \in 1..Len(b) : (a \o b)[Len(a) + i] = b[i]
    <2>1. a \in Seq(1..MaxJobs) /\ b \in Seq(1..MaxJobs)
      BY <1>5, Zenon
    <2>2. QED
      BY ONLY <2>1, ConcatIndex
  <1>b. Len(a \o b) = Len(ids)
    BY <1>0, <1>5, <1>8, Zenon
  <1>c. ASSUME NEW i \in 1..Len(ids)
        PROVE  (a \o b)[i] = ids[i]
    <2>1. CASE i \in 1..Len(results)
      BY <1>5, <1>6, <1>0, <2>1
    <2>2. CASE i \notin 1..Len(results)
      <3>1. i - Len(results) \in 1..Len(queue) /\ Len(results) + (i - Len(results)) = i
        BY <1>1, <1>8, <2>2
      <3>2. QED
        BY <1>5, <1>7, <1>0, <3>1
    <2>3. QED
      BY <2>1, <2>2
  <1> DEFINE c == a \o b
  <1>d. c \in Seq(1..MaxJobs) /\ Len(c) = Len(ids) /\ \A i \in 1..Len(ids) : c[i] = ids[i]
    BY <1>0, <1>b, <1>c
  <1> HIDE DEF c
  <1>e. ids = c
    BY <1>d
  <1>9. ids = a \o b
    BY <1>e DEF c
  <1>10. QED
    BY <1>9 DEF a, b

\* Every accepted job is answered or failed exactly once, in the order of the
\* calls, even when several fail in one step because their datagrams cannot be
\* written (addWork, startNextWork, cancelWork, completeWork).
THEOREM JobsInOrder == ClientSpec => []InOrder
  <1> DEFINE Ids(s) == [i \in 1..Len(s) |-> s[i].id]
             done == [i \in 1..Len(ended) |-> ended[i].job]
  <1>1. Init => Covers(accepted, ended, Line)
    BY DEF Init, Covers, Line
  <1>2. Typed /\ Resting /\ Covers(accepted, ended, Line) /\ [Next]_vars => Covers(accepted, ended, Line)'
    BY OrderKept
  <1>3. Typed /\ Covers(accepted, ended, Line) => InOrder
    <2> SUFFICES ASSUME Typed, Covers(accepted, ended, Line)
                 PROVE  InOrder
      OBVIOUS
    <2>1. accepted \in Seq(1..MaxJobs) /\ ended \in Seq(Ended) /\ m_work_queue \in Seq(Jobs) /\ Line \in Seq(Jobs)
      BY LineTyped DEF Typed
    <2>2. accepted = done \o Ids(Line)
      BY <2>1, CoversIsOrder
    <2>3. done \in Seq(1..MaxJobs)
      <3>1. \A i \in 1..Len(ended) : ended[i] \in Ended
        BY <2>1
      <3>2. \A i \in 1..Len(ended) : ended[i].job \in 1..MaxJobs
        BY <3>1 DEF Ended
      <3>3. QED
        BY <2>1, <3>2
    <2>4. ASSUME NEW s \in Seq(Jobs)
          PROVE  Ids(s) \in Seq(1..MaxJobs) /\ Len(Ids(s)) = Len(s)
      <3>1. \A i \in 1..Len(s) : s[i] \in Jobs
        OBVIOUS
      <3>2. \A i \in 1..Len(s) : s[i].id \in 1..MaxJobs
        BY <3>1 DEF Jobs
      <3>3. QED
        BY <3>2
    <2>5. CASE m_current_work = NoJob
      <3>1. done \o <<>> = done
        BY <2>3
      <3>2. accepted = (done \o <<>>) \o Ids(m_work_queue)
        BY <2>2, <2>5, <3>1 DEF Line
      <3>3. QED
        BY <2>5, <3>2 DEF InOrder
    <2>6. CASE m_current_work # NoJob
      <3> DEFINE first == <<m_current_work.id>>
      <3>1. m_current_work \in Jobs /\ m_current_work.id \in 1..MaxJobs
        BY <2>6 DEF Typed, Jobs
      <3>2. Ids(Line) = first \o Ids(m_work_queue)
        <4>1. /\ Len(Line) = Len(m_work_queue) + 1 /\ Line[1] = m_current_work
              /\ \A i \in 1..Len(m_work_queue) : Line[i + 1] = m_work_queue[i]
          BY <2>1, <2>6, <3>1, ConsIndex DEF Line
        <4> DEFINE q == Ids(m_work_queue)
                   l == Ids(Line)
        <4>2. q \in Seq(1..MaxJobs) /\ Len(q) = Len(m_work_queue)
          BY <2>1, <2>4
        <4>3. l \in Seq(1..MaxJobs) /\ Len(l) = Len(q) + 1
          BY <2>1, <2>4, <4>1, <4>2
        <4>4. l[1] = m_current_work.id
          BY <4>1, <2>1
        <4>5. \A i \in 1..Len(m_work_queue) : l[i + 1] = q[i]
          BY <4>1, <2>1
        <4>6. /\ Len(first \o q) = Len(q) + 1 /\ (first \o q)[1] = m_current_work.id
              /\ \A i \in 1..Len(q) : (first \o q)[i + 1] = q[i]
              /\ first \o q \in Seq(1..MaxJobs)
          BY <3>1, <4>2, ConsIndex
        <4>7. \A i \in 1..Len(l) : i = 1 \/ (i - 1 \in 1..Len(q) /\ (i - 1) + 1 = i)
          BY <4>2, <4>3
        <4> HIDE DEF q, l
        <4>8. \A i \in 1..Len(l) : l[i] = (first \o q)[i]
          BY <4>2, <4>4, <4>5, <4>6, <4>7
        <4>9. l = first \o q
          BY <4>2, <4>3, <4>6, <4>8
        <4>10. QED
          BY <4>9 DEF l, q
      <3>3. (done \o first) \o Ids(m_work_queue) = done \o (first \o Ids(m_work_queue))
        <4>1. first \in Seq(1..MaxJobs) /\ Ids(m_work_queue) \in Seq(1..MaxJobs)
          BY <2>1, <2>4, <3>1
        <4>2. \A a, b, c \in Seq(1..MaxJobs) : (a \o b) \o c = a \o (b \o c)
          BY ConcatAssociative
        <4> HIDE DEF first, done, Ids
        <4>3. QED
          BY <2>3, <4>1, <4>2
      <3>4. accepted = (done \o first) \o Ids(m_work_queue)
        BY <2>2, <3>2, <3>3
      <3>5. QED
        BY <2>6, <3>4 DEF InOrder
    <2>7. QED
      BY <2>5, <2>6
  <1>4. QED
    BY <1>1, <1>2, <1>3, SessionTyped, ClientRunsSession, PTL DEF Spec

-----------------------------------------------------------------------------
(* OneStaleJob *)

\* The client hands over one job at a time, so the job under way is the last
\* one made; only the client is ever asked.
Single ==
  /\ asking # "no" => env.client
  /\ env.client => /\ m_work_queue = <<>>
                   /\ m_current_work # NoJob => m_current_work.id = jobs

\* While a question is open, the job under way is the one it met, or newer.
Stale ==
  asking # "no" =>
    /\ question.before \in Nat /\ question.before <= jobs
    /\ m_current_work # NoJob =>
         m_current_work.id > question.before \/ m_current_work.id = question.inflight

\* The values that count are of jobs made until now, stale ones first.
Heard ==
  /\ mValues \in Values
  /\ asking = "waiting" => \A i \in 1..Len(mValues) : mValues[i][1] <= jobs
  /\ OneStaleJob

\* What the slots are called with in a step that appends to "ended".
LEMMA NewEnded ==
  ASSUME NEW S, NEW s \in Seq(S), NEW t \in Seq(S), Len(s) <= Len(t)
  PROVE  /\ Len(s) = Len(t) => SubSeq(t, Len(s) + 1, Len(t)) = <<>>
         /\ Len(s) < Len(t) => /\ SubSeq(t, Len(s) + 1, Len(t)) # <<>>
                               /\ Head(SubSeq(t, Len(s) + 1, Len(t))) = t[Len(s) + 1]
  <1> DEFINE r == SubSeq(t, Len(s) + 1, Len(t))
  <1>1. Len(s) \in Nat /\ Len(t) \in Nat
    OBVIOUS
  <1>2. r \in Seq(S) /\ Len(r) = Len(t) - Len(s)
    BY <1>1
  <1>3. Len(s) < Len(t) => r[1] = t[Len(s) + 1]
    BY <1>1
  <1> HIDE DEF r
  <1>4. Len(s) = Len(t) => r = <<>>
    BY <1>1, <1>2
  <1>5. Len(s) < Len(t) => r # <<>> /\ Head(r) = r[1]
    BY <1>1, <1>2
  <1>6. QED
    BY <1>3, <1>4, <1>5 DEF r

\* When the client's job ends, the client hears of this one job and is idle.
LEMMA SlotsEnds ==
  ASSUME Typed, Resting, Single, env.client, mValues \in Values, slots,
         NEW e, Ending(e), Ends(e)
  PROVE  /\ mValues' = mValues \o e.values
         /\ m_current_work' = NoJob /\ m_work_queue' = <<>>
  <1>1. e \in Ended /\ ended \in Seq(Ended)
    BY EndingTyped DEF Ends, Typed
  <1>2. m_work_queue = <<>> /\ m_work_queue \in Seq(Jobs) /\ Len(m_work_queue) = 0
    BY DEF Single, Typed
  <1>3. Append(ended, e) \in Seq(Ended) /\ Len(Append(ended, e)) = Len(ended) + 1 /\ Append(ended, e)[Len(ended) + 1] = e
    BY <1>1
  <1>4. startNextWork(m_work_queue, Append(ended, e))
    BY DEF Ends
  <1>5. PICK k \in 0..Len(m_work_queue) :
           /\ ended' \in Seq(Ended) /\ Len(ended') = Len(Append(ended, e)) + k
           /\ \A i \in 1..Len(Append(ended, e)) : ended'[i] = Append(ended, e)[i]
           /\ \/ k = Len(m_work_queue) /\ Emptied(m_work_queue)
              \/ k < Len(m_work_queue) /\ Started(m_work_queue, k)
    BY <1>2, <1>3, <1>4, StartNextTyped
  <1>6. k = 0 /\ Emptied(m_work_queue)
    BY <1>2, <1>5
  <1>7. Len(ended) \in Nat /\ Len(ended') = Len(ended) + 1
    BY <1>1, <1>3, <1>5, <1>6
  <1>8. ended'[Len(ended) + 1] = e
    BY <1>3, <1>5, <1>7
  <1>9. LET r == SubSeq(ended', Len(ended) + 1, Len(ended')) IN r # <<>> /\ Head(r) = e
    BY <1>1, <1>5, <1>7, <1>8, NewEnded
  <1>10. mValues' = mValues \o e.values
    BY <1>9, Zenon DEF slots
  <1>11. QED
    BY <1>6, <1>10 DEF Emptied

\* When the client starts a job, it hears of no value; the job is the newest.
LEMMA SlotsStarts ==
  ASSUME Typed, Single, env.client, mValues \in Values, slots,
         NEW kind \in JobKinds, StartsFirst(kind)
  PROVE  /\ mValues' = mValues
         /\ m_work_queue' = <<>>
         /\ m_current_work' # NoJob => m_current_work'.id = jobs + 1
  <1>1. NewJob(kind) \in Jobs /\ ended \in Seq(Ended) /\ Len(ended) \in Nat /\ m_work_queue = <<>>
    BY SessionAssumption DEF StartsFirst, NewJob, Jobs, JobKinds, Typed, Single
  <1> DEFINE queue == Append(m_work_queue, NewJob(kind))
  <1>2. queue \in Seq(Jobs) /\ Len(queue) = 1 /\ queue[1] = NewJob(kind) /\ SubSeq(queue, 2, Len(queue)) = <<>>
    BY <1>1
  <1>3. startNextWork(queue, ended)
    BY DEF StartsFirst
  <1> HIDE DEF queue
  <1>4. PICK k \in 0..Len(queue) :
           /\ ended' \in Seq(Ended) /\ Len(ended') = Len(ended) + k
           /\ \A i \in 1..Len(ended) : ended'[i] = ended[i]
           /\ \A i \in 1..k : ended'[Len(ended) + i] = Failed(queue[i])
           /\ \/ k = Len(queue) /\ Emptied(queue)
              \/ k < Len(queue) /\ Started(queue, k)
    BY <1>1, <1>2, <1>3, StartNextTyped
  <1>5. k \in {0, 1}
    BY <1>2
  <1> DEFINE r == SubSeq(ended', Len(ended) + 1, Len(ended'))
  <1>6. k = 0 => r = <<>>
    BY <1>1, <1>4, NewEnded
  <1>7. k = 1 => r # <<>> /\ Head(r) = Failed(queue[1])
    BY <1>1, <1>4, NewEnded
  <1> HIDE DEF r
  <1>8. mValues' = mValues \o <<>>
    <2>1. mValues' = mValues \o (IF r = <<>> THEN <<>> ELSE Head(r).values)
      BY Zenon DEF slots, r
    <2>2. Failed(queue[1]).values = <<>>
      BY DEF Failed
    <2>3. r = <<>> \/ (r # <<>> /\ Head(r).values = <<>>)
      BY <1>5, <1>6, <1>7, <2>2
    <2>4. QED
      BY <2>1, <2>3
  <1>9. mValues' = mValues
    BY <1>8 DEF Values
  <1>10. CASE Emptied(queue)
    BY <1>9, <1>10 DEF Emptied
  <1>11. CASE k = 0 /\ Started(queue, k)
    BY <1>2, <1>9, <1>11 DEF Started, NewJob
  <1>12. QED
    BY <1>2, <1>4, <1>5, <1>10, <1>11

\* A step that ends no job leaves the values alone.
LEMMA SlotsIdle ==
  ASSUME Typed, mValues \in Values, slots, ended' = ended
  PROVE  mValues' = mValues
  <1>1. ended \in Seq(Ended)
    BY DEF Typed
  <1>2. SubSeq(ended', Len(ended) + 1, Len(ended')) = <<>>
    BY <1>1, NewEnded
  <1>3. mValues' = mValues \o <<>>
    BY <1>2 DEF slots
  <1>4. QED
    BY <1>3 DEF Values

\* The values that the client has heard of keep their type.
LEMMA SlotsTyped ==
  ASSUME Typed, Typed', mValues \in Values, slots
  PROVE  mValues' \in Values
  <1> DEFINE new == SubSeq(ended', Len(ended) + 1, Len(ended'))
  <1>1. ended \in Seq(Ended) /\ ended' \in Seq(Ended)
    BY DEF Typed
  <1>2. Len(ended) + 1 \in Nat \ {0} /\ Len(ended') \in Nat
    BY <1>1
  <1>3. new \in Seq(Ended)
    BY <1>1, <1>2
  <1>4. mValues' = mValues \o (IF new = <<>> THEN <<>> ELSE Head(new).values)
    BY Zenon DEF slots
  <1> HIDE DEF new
  <1>5. new # <<>> => Head(new) \in Ended
    BY <1>3
  <1>6. (IF new = <<>> THEN <<>> ELSE Head(new).values) \in Seq(Nat \X Nat)
    BY <1>5 DEF Ended, Values
  <1>7. QED
    BY <1>4, <1>6, ConcatIndex DEF Values

\* Values of jobs up to n, newer than b or of the job f, in their order.
Fresh(s, n, b, f) ==
  /\ \A i \in 1..Len(s) : s[i][1] <= n /\ (s[i][1] > b \/ s[i][1] = f)
  /\ \A i, j \in 1..Len(s) : i < j => s[i][1] <= s[j][1]

\* Values of the newest job go behind those of jobs made before.
LEMMA Behind ==
  ASSUME NEW s \in Values, NEW t \in Values, NEW n \in Nat, NEW b \in Nat, NEW f,
         Fresh(s, n, b, f),
         \A i \in 1..Len(t) : t[i][1] = n,
         n > b \/ n = f
  PROVE  s \o t \in Values /\ Fresh(s \o t, n, b, f)
  <1> DEFINE u == s \o t
  <1>1. s \in Seq(Nat \X Nat) /\ t \in Seq(Nat \X Nat)
    BY DEF Values
  <1>2. /\ u \in Seq(Nat \X Nat) /\ Len(u) = Len(s) + Len(t)
        /\ \A i \in 1..Len(s) : u[i] = s[i]
        /\ \A i \in 1..Len(t) : u[Len(s) + i] = t[i]
    BY ONLY <1>1, ConcatIndex
  <1>3. Len(s) \in Nat /\ Len(t) \in Nat
    BY <1>1
  <1> HIDE DEF u
  <1> USE DEF Fresh
  <1>4. ASSUME NEW i \in 1..Len(u), i > Len(s)
        PROVE  u[i][1] = n
    <2>1. i - Len(s) \in 1..Len(t) /\ Len(s) + (i - Len(s)) = i
      BY <1>2, <1>3, <1>4
    <2>2. u[i] = t[i - Len(s)]
      BY <1>2, <2>1
    <2>3. QED
      BY <2>1, <2>2
  <1>5. ASSUME NEW i \in 1..Len(u), ~(i > Len(s))
        PROVE  i \in 1..Len(s) /\ u[i] = s[i]
    BY <1>2, <1>3, <1>5
  <1>6. \A i \in 1..Len(u) : u[i][1] <= n /\ (u[i][1] > b \/ u[i][1] = f)
    BY <1>4, <1>5
  <1>7. ASSUME NEW i \in 1..Len(u), NEW j \in 1..Len(u), i < j
        PROVE  u[i][1] <= u[j][1]
    <2>1. CASE j > Len(s)
      BY <1>4, <1>6, <2>1
    <2>2. CASE ~(j > Len(s))
      <3>1. ~(i > Len(s))
        BY <1>3, <1>7, <2>2
      <3>2. QED
        BY <1>5, <1>7, <2>2, <3>1
    <2>3. QED
      BY <2>1, <2>2
  <1>8. QED
    BY <1>2, <1>6, <1>7 DEF u, Values

\* Every step of the client keeps the values of an open question apart.
LEMMA StaleKept ==
  ASSUME Typed, Flags, Resting, Network, Present, Single, Stale, Heard, [ClientNext]_all
  PROVE  Single' /\ Stale' /\ Heard'
  <1>0. jobs \in Nat /\ mValues \in Values
    BY DEF Typed, Heard
  <1>1. CASE timeoutDone /\ env.client
    <2>1. PICK kind \in JobKinds : addWork(kind) /\ m_current_work = NoJob
      BY <1>1, Zenon DEF timeoutDone, setValue, makeSubRequest, isBusy, JobKinds
    <2>2. Len(m_work_queue) < QueueLimit
      <3>1. m_work_queue = <<>> /\ Len(<<>>) = 0
        BY <1>1 DEF Single
      <3>2. QED
        BY <3>1, SessionAssumption
    <2>3. StartsFirst(kind)
      BY <2>1, <2>2, Zenon DEF addWork, StartsFirst, NewJob
    <2>4. slots /\ UNCHANGED <<env, asking, question>>
      BY <1>1, Zenon DEF timeoutDone
    <2>5. /\ mValues' = mValues
          /\ m_work_queue' = <<>>
          /\ m_current_work' # NoJob => m_current_work'.id = jobs + 1
          /\ jobs' = jobs + 1
      BY <1>1, <1>0, <2>3, <2>4, SlotsStarts DEF StartsFirst
    <2>6. Single'
      BY <2>4, <2>5 DEF Single
    <2>7. asking # "no" => question.before <= jobs /\ question.before \in Nat
      BY DEF Stale
    <2>8. Stale'
      BY <1>0, <2>4, <2>5, <2>7 DEF Stale
    <2>9. \A i \in 1..Len(mValues) : mValues[i][1] \in Nat
      BY <1>0 DEF Values
    <2>10. Heard'
      BY <1>0, <2>4, <2>5, <2>9 DEF Heard, OneStaleJob
    <2>11. QED
      BY <2>6, <2>8, <2>10
  <1>2. CASE (sessionEvent \/ sessionTimeout) /\ env.client
    <2>1. slots /\ UNCHANGED <<env, asking, question>>
      BY <1>2, Zenon DEF sessionEvent, sessionTimeout
    <2>2. jobs' = jobs
      BY <1>2, Zenon DEF sessionEvent, sessionTimeout, onResponseTimeExpired, onReadyRead, agentAnswers, setAgentAddress, networkLoses
    <2>3. [Next]_vars
      BY <1>2, StepOfClient
    <2>4. ~ \E kind \in JobKinds : StartsFirst(kind) \/ Waits(kind)
      BY <1>0, <2>2 DEF StartsFirst, Waits
    <2>5. ASSUME NEW e, Ending(e), Ends(e)
          PROVE  Single' /\ Stale' /\ Heard'
      <3>1. /\ mValues' = mValues \o e.values
            /\ m_current_work' = NoJob /\ m_work_queue' = <<>>
        BY <1>2, <1>0, <2>1, <2>5, SlotsEnds
      <3>2. Single' /\ Stale'
        BY <2>1, <2>2, <3>1 DEF Single, Stale
      <3>3. m_current_work # NoJob /\ m_current_work.id = jobs
        BY <1>2, <2>5 DEF Ends, Single
      <3>4. e \in Ended /\ e.job = jobs /\ Walked(e.values, e.job)
        BY <2>5, <3>3, EndingTyped, EndingOwn
      <3>5. e.values \in Values /\ \A i \in 1..Len(e.values) : e.values[i][1] = jobs
        BY <3>4 DEF Ended, Walked
      <3>6. CASE asking = "waiting"
        <4>1. question.before \in Nat /\ (jobs > question.before \/ jobs = question.inflight)
          BY <3>3, <3>6 DEF Stale
        <4>2. Fresh(mValues, jobs, question.before, question.inflight)
          BY <3>6 DEF Heard, OneStaleJob, Fresh
        <4> DEFINE u == mValues \o e.values
        <4>3. u \in Values /\ Fresh(u, jobs, question.before, question.inflight)
          BY <1>0, <3>5, <4>1, <4>2, Behind
        <4> HIDE DEF u
        <4>4. mValues' = u
          BY <3>1 DEF u
        <4>5. Heard'
          BY <2>1, <2>2, <4>3, <4>4 DEF Heard, OneStaleJob, Fresh
        <4>6. QED
          BY <3>2, <4>5
      <3>7. CASE asking # "waiting"
        <4>1. mValues' \in Values
          BY <1>0, <3>1, <3>5, ConcatIndex DEF Values
        <4>2. QED
          BY <2>1, <3>2, <3>7, <4>1 DEF Heard, OneStaleJob
      <3>8. QED
        BY <3>6, <3>7
    <2>6. ASSUME (\E r : Walks(r)) \/ (\E r : Refused(r)) \/ Apart
          PROVE  Single' /\ Stale' /\ Heard'
      <3>1. UNCHANGED <<ended, m_current_work, m_work_queue>>
        BY <2>6 DEF Walks, Refused, Apart, work
      <3>2. mValues' = mValues
        BY <1>0, <2>1, <3>1, SlotsIdle
      <3>3. QED
        BY <2>1, <2>2, <3>1, <3>2 DEF Single, Stale, Heard, OneStaleJob
    <2>7. QED
      BY <2>3, <2>4, <2>5, <2>6, StepCases
  <1>3. CASE (timeoutDone \/ sessionEvent \/ sessionTimeout \/ callerAsks) /\ ~env.client
    <2>1. slots /\ UNCHANGED <<env, asking, question>>
      BY <1>3, Zenon DEF timeoutDone, sessionEvent, sessionTimeout, callerAsks
    <2>2. asking = "no"
      BY <1>3 DEF Single
    <2>5. Typed'
      BY <1>3, StepOfClient, StepTyped
    <2>3. mValues' \in Values
      BY <1>0, <2>1, <2>5, SlotsTyped
    <2>4. QED
      BY <1>3, <2>1, <2>2, <2>3 DEF Single, Stale, Heard, OneStaleJob
  <1>4. CASE setCommand \/ UNCHANGED all
    <2>1. UNCHANGED <<m_work_queue, m_current_work, jobs, env, asking, question, mValues>>
      BY <1>4 DEF setCommand, all, vars, client, work
    <2>2. QED
      BY <2>1 DEF Single, Stale, Heard, OneStaleJob
  <1>5. ASSUME NEW n \in 1..env.oids, requestValue(n)
        PROVE  Single' /\ Stale' /\ Heard'
    <2>1. /\ env.client /\ asking = "no" /\ asking' = "begun"
          /\ question' = [size |-> n, before |-> jobs, inflight |-> m_current_work.id]
          /\ UNCHANGED <<m_work_queue, m_current_work, jobs, env, mValues>>
      BY <1>5 DEF requestValue, vars, work
    <2>2. question'.before = jobs /\ question'.inflight = m_current_work.id
      BY <2>1
    <2>3. QED
      BY <1>0, <2>1, <2>2 DEF Single, Stale, Heard, OneStaleJob
  <1>6. CASE waitForRespond
    <2>1. /\ asking = "begun" /\ asking' = "waiting" /\ mValues' = <<>>
          /\ UNCHANGED <<m_work_queue, m_current_work, jobs, env, question>>
      BY <1>6 DEF waitForRespond, vars, work
    <2>2. <<>> \in Values /\ Len(<<>>) = 0
      BY DEF Values
    <2>3. Heard'
      BY <2>1, <2>2 DEF Heard, OneStaleJob
    <2>4. QED
      BY <2>1, <2>3 DEF Single, Stale
  <1>7. ASSUME NEW gaveUp \in BOOLEAN, respondReturns(gaveUp)
        PROVE  Single' /\ Stale' /\ Heard'
    <2>1. asking' = "no" /\ UNCHANGED <<m_work_queue, m_current_work, jobs, env, mValues>>
      BY <1>7 DEF respondReturns, vars, work
    <2>2. QED
      BY <2>1 DEF Single, Stale, Heard, OneStaleJob
  <1>8. CASE callerAsks
    BY <1>3, <1>8, Zenon DEF callerAsks
  <1>9. QED
    BY <1>1, <1>2, <1>3, <1>4, <1>5, <1>6, <1>7, <1>8, Zenon DEF ClientNext

\* While a question is answered, its values are of jobs made since it was
\* asked or of the one job that was under way then, and these come first:
\* isBusy holds every further job back (timeoutDone, slots, waitForRespond).
THEOREM OneStale == ClientSpec => []OneStaleJob
  <1>1. ClientInit => Single /\ Stale /\ Heard
    BY DEF ClientInit, Init, Single, Stale, Heard, OneStaleJob, Values
  <1>2. Typed /\ Flags /\ Resting /\ Network /\ Present /\ Single /\ Stale /\ Heard /\ [ClientNext]_all
          => Single' /\ Stale' /\ Heard'
    BY StaleKept
  <1>3. Heard => OneStaleJob
    BY DEF Heard
  <1>4. QED
    BY <1>1, <1>2, <1>3, SessionTyped, SessionOwn, ClientRunsSession, PTL DEF ClientSpec
=============================================================================
