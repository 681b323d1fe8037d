----------------------------- MODULE ServerProofs -----------------------------
(***************************************************************************)
(* Proofs about the server at work: the solve service, for any set of      *)
(* requests and any capacity, and the solves of its worker, for every sky, *)
(* set of index files, number of slots and timeout.                        *)
(***************************************************************************)
EXTENDS SolveService, SolveLadder, DataInduction

-----------------------------------------------------------------------------
(* The solve service.                                                       *)

\* HashMap::insert adds one key and changes no other entry.
LEMMA InsertFacts ==
  ASSUME NEW map, NEW key, NEW value
  PROVE /\ DOMAIN Insert(map, key, value) = DOMAIN map \cup {key}
        /\ Insert(map, key, value)[key] = value
        /\ \A k \in DOMAIN map : k # key => Insert(map, key, value)[k] = map[k]
  BY DEF Insert

LEMMA InsertType ==
  ASSUME NEW S, NEW map, map \in [DOMAIN map -> S], NEW key, NEW value \in S
  PROVE Insert(map, key, value) \in [DOMAIN Insert(map, key, value) -> S]
  BY DEF Insert

\* A buffer that holds no task twice.
Once(q) == \A i, k \in DOMAIN q : q[i] = q[k] => i = k
\* Append adds one task at the end.
LEMMA AppendFacts ==
  ASSUME NEW q \in Seq(Nat), NEW j \in Nat
  PROVE /\ Append(q, j) \in Seq(Nat)
        /\ Len(Append(q, j)) = Len(q) + 1
        /\ Buffered(Append(q, j)) = Buffered(q) \cup {j}
        /\ Once(q) /\ j \notin Buffered(q) => Once(Append(q, j))
<1>1. Append(q, j) \in Seq(Nat) /\ Len(Append(q, j)) = Len(q) + 1 /\ DOMAIN q = 1 .. Len(q)
   /\ DOMAIN Append(q, j) = 1 .. Len(q) + 1 /\ Len(q) \in Nat
  OBVIOUS
<1>2. \A i \in 1 .. Len(q) : Append(q, j)[i] = q[i]
  OBVIOUS
<1>3. Append(q, j)[Len(q) + 1] = j
  OBVIOUS
<1> QED
  BY <1>1, <1>2, <1>3 DEF Buffered, Once

\* Receiving takes the oldest task out and leaves the others.
LEMMA TailFacts ==
  ASSUME NEW q \in Seq(Nat), q # <<>>
  PROVE /\ Tail(q) \in Seq(Nat)
        /\ Head(q) \in Nat
        /\ Len(Tail(q)) <= Len(q)
        /\ Buffered(q) = Buffered(Tail(q)) \cup {Head(q)}
        /\ Once(q) => Once(Tail(q)) /\ Head(q) \notin Buffered(Tail(q))
<1>1. /\ Tail(q) \in Seq(Nat) /\ Head(q) = q[1] /\ Len(Tail(q)) = Len(q) - 1
      /\ Len(q) \in Nat \ {0} /\ DOMAIN q = 1 .. Len(q)
      /\ DOMAIN Tail(q) = 1 .. Len(q) - 1
  OBVIOUS
<1>2. \A i \in 1 .. Len(q) - 1 : Tail(q)[i] = q[i + 1]
  OBVIOUS
<1>3. \A i \in 1 .. Len(q) : i = 1 \/ (i - 1 \in 1 .. Len(q) - 1 /\ Tail(q)[i - 1] = q[i])
  BY <1>1, <1>2
<1>4. Buffered(q) = Buffered(Tail(q)) \cup {Head(q)}
  <2>1. ASSUME NEW j \in Buffered(q) PROVE j \in Buffered(Tail(q)) \cup {Head(q)}
    BY <1>1, <1>3 DEF Buffered
  <2>2. ASSUME NEW j \in Buffered(Tail(q)) PROVE j \in Buffered(q)
    BY <1>1, <1>2 DEF Buffered
  <2>3. Head(q) \in Buffered(q)
    BY <1>1 DEF Buffered
  <2> QED
    BY <2>1, <2>2, <2>3
<1>5. Once(q) => Once(Tail(q)) /\ Head(q) \notin Buffered(Tail(q))
  <2> SUFFICES ASSUME Once(q) PROVE Once(Tail(q)) /\ Head(q) \notin Buffered(Tail(q))
    OBVIOUS
  <2>1. ASSUME NEW i \in 1 .. Len(q) - 1, NEW k \in 1 .. Len(q) - 1, Tail(q)[i] = Tail(q)[k]
        PROVE i = k
    <3>1. i + 1 \in DOMAIN q /\ k + 1 \in DOMAIN q /\ q[i + 1] = q[k + 1]
      BY <1>1, <1>2, <2>1
    <3>2. i + 1 = k + 1
      BY <3>1 DEF Once
    <3> QED
      BY <3>2
  <2>2. ASSUME NEW i \in 1 .. Len(q) - 1 PROVE Tail(q)[i] # Head(q)
    <3>1. i + 1 \in DOMAIN q /\ 1 \in DOMAIN q /\ i + 1 # 1
      BY <1>1
    <3>2. q[i + 1] # q[1]
      BY <3>1 DEF Once
    <3> QED
      BY <1>1, <1>2, <3>2
  <2> QED
    BY <1>1, <2>1, <2>2 DEF Once, Buffered
<1>6. Head(q) \in Nat
  <2>1. \A i \in 1 .. Len(q) : q[i] \in Nat
    OBVIOUS
  <2> QED
    BY <1>1, <2>1
<1>7. Len(Tail(q)) <= Len(q)
  BY <1>1
<1> QED
  BY <1>1, <1>4, <1>5, <1>6, <1>7

LEMMA EmptyFacts ==
  /\ <<>> \in Seq(Nat) /\ Len(<<>>) = 0 /\ Buffered(<<>>) = {} /\ Once(<<>>)
  BY DEF Buffered, Once

-----------------------------------------------------------------------------
\* The map and the counter: written by create, by a failed send, by finish.
LEMMA StoreTypeStep ==
  ASSUME StoreType, HandlerType, [Next]_vars PROVE StoreType'
<1> USE DEF StoreType, HandlerType
<1>1. CASE UNCHANGED store
  BY <1>1 DEF store
<1>2. ASSUME NEW r \in Requests, Create(r) PROVE StoreType'
  <2>1. CASE DrawSubId(r)
    <3>1. next' \in Nat /\ subs' = subs /\ jobs' = jobs
      BY <2>1 DEF DrawSubId
    <3> QED
      BY <3>1
  <2>2. CASE DrawJobId(r)
    BY <2>2 DEF DrawJobId
  <2>3. CASE InsertSub(r)
    <3>1. job[r] \in Nat /\ sub[r] \in Nat
      OBVIOUS
    <3>2. Insert(subs, sub[r], job[r]) \in [DOMAIN Insert(subs, sub[r], job[r]) -> Nat]
      BY <3>1, InsertType
    <3>3. DOMAIN Insert(subs, sub[r], job[r]) \subseteq Nat
      BY <3>1 DEF Insert
    <3>4. subs' = Insert(subs, sub[r], job[r]) /\ next' = next /\ jobs' = jobs
      BY <2>3 DEF InsertSub
    <3> QED
      BY <3>2, <3>3, <3>4
  <2>4. CASE InsertJob(r)
    <3>1. job[r] \in Nat /\ "solving" \in Statuses
      BY DEF Statuses
    <3>2. Insert(jobs, job[r], "solving") \in [DOMAIN Insert(jobs, job[r], "solving") -> Statuses]
      BY <3>1, InsertType
    <3>3. DOMAIN Insert(jobs, job[r], "solving") \subseteq Nat
      BY <3>1 DEF Insert
    <3>4. jobs' = Insert(jobs, job[r], "solving") /\ next' = next /\ subs' = subs
      BY <2>4 DEF InsertJob
    <3> QED
      BY <3>2, <3>3, <3>4
  <2> QED
    BY <1>2, <2>1, <2>2, <2>3, <2>4 DEF Create
<1>3. ASSUME NEW r \in Requests, TurnAway(r) PROVE StoreType'
  BY <1>3 DEF TurnAway, Statuses
<1>4. CASE Finish
  BY <1>4 DEF Finish, Statuses
<1>5. \/ UNCHANGED store
      \/ \E r \in Requests : Create(r) \/ TurnAway(r)
      \/ Finish
  BY DEF Next, Refuse, Enqueue, TrySend, SendFails, Await, AwaitReturns,
    AwaitTimesOut, Disconnect, Poll, PollSubmission, PollJob, Recv, Panic,
    vars, store
<1> QED
  BY <1>1, <1>2, <1>3, <1>4, <1>5

\* The channel and the worker: written by try_send and by the worker.
LEMMA ChannelTypeStep ==
  ASSUME ChannelType, HandlerType, [Next]_vars PROVE ChannelType'
<1> USE DEF ChannelType
<1>1. CASE UNCHANGED channel
  BY <1>1 DEF channel
<1>2. ASSUME NEW r \in Requests, TrySend(r) PROVE ChannelType'
  <2>1. job[r] \in Nat
    BY DEF HandlerType
  <2>2. queue' \in Seq(Nat) /\ Len(queue') = Len(queue) + 1
    BY <1>2, <2>1, AppendFacts DEF TrySend
  <2>3. Len(queue) \in Nat /\ Len(queue) < Capacity
    BY <1>2, LenProperties DEF TrySend
  <2>4. Len(queue') <= Capacity
    BY <2>2, <2>3, ServiceAssumption
  <2> QED
    BY <1>2, <2>2, <2>4 DEF TrySend
<1>3. CASE Recv
  <2>1. queue' \in Seq(Nat) /\ Len(queue') <= Len(queue) /\ task' \in Nat
    BY <1>3, TailFacts DEF Recv
  <2>2. Len(queue') <= Capacity
    BY <2>1, LenProperties, ServiceAssumption
  <2> QED
    BY <1>3, <2>1, <2>2 DEF Recv
<1>4. CASE Finish
  BY <1>4 DEF Finish
<1>5. CASE Panic
  BY <1>5, EmptyFacts, ServiceAssumption DEF Panic
<1>6. \/ UNCHANGED channel
      \/ \E r \in Requests : TrySend(r)
      \/ Recv \/ Finish \/ Panic
  BY DEF Next, Refuse, Create, DrawSubId, DrawJobId, InsertSub, InsertJob,
    Enqueue, SendFails, TurnAway, Await, AwaitReturns, AwaitTimesOut,
    Disconnect, Poll, PollSubmission, PollJob, vars, channel, Requests
<1> QED
  BY <1>1, <1>2, <1>3, <1>4, <1>5, <1>6

\* What a handler holds.
LEMMA HandlerTypeStep ==
  ASSUME StoreType, HandlerType, [Next]_vars PROVE HandlerType'
<1> USE DEF StoreType, HandlerType, Goto, Tell, Labels, Answers, local
<1>1. ASSUME NEW r \in Requests, Refuse(r) PROVE HandlerType'
  BY <1>1 DEF Refuse
<1>2. ASSUME NEW r \in Requests, Create(r) PROVE HandlerType'
  BY <1>2 DEF Create, DrawSubId, DrawJobId, InsertSub, InsertJob
<1>3. ASSUME NEW r \in Requests, Enqueue(r) PROVE HandlerType'
  BY <1>3 DEF Enqueue, TrySend, SendFails, TurnAway, Accepted
<1>4. \A j : Report(j) \in Answers
  BY DEF Report
<1>5. ASSUME NEW r \in V1, Await(r) \/ Disconnect(r) PROVE HandlerType'
  BY <1>4, <1>5 DEF Await, AwaitReturns, AwaitTimesOut, Disconnect, Requests
<1>6. ASSUME NEW r \in Nova, Poll(r) PROVE HandlerType'
  BY <1>4, <1>6 DEF Poll, PollSubmission, PollJob, Requests
<1>7. CASE Recv \/ Finish \/ Panic \/ UNCHANGED vars
  BY <1>7 DEF Recv, Finish, Panic, vars
<1> QED
  BY <1>1, <1>2, <1>3, <1>5, <1>6, <1>7 DEF Next

\* Every reachable state is well typed and the channel keeps its bound.
THEOREM TypeCorrect == Spec => []TypeOK
<1>1. Init => TypeOK
  BY EmptyFacts, ServiceAssumption
    DEF Init, TypeOK, StoreType, ChannelType, HandlerType, Labels, Answers
<1>2. TypeOK /\ [Next]_vars => TypeOK'
  BY StoreTypeStep, ChannelTypeStep, HandlerTypeStep DEF TypeOK
<1> QED
  BY <1>1, <1>2, PTL DEF Spec
-----------------------------------------------------------------------------
(* The inductive invariant.                                                 *)

\* The requests whose submission, and whose job, create has inserted.
HasJob(r) == \/ pc[r] \in {"job_in", "full", "await", "acked", "polled"}
             \/ pc[r] = "done" /\ told[r] # "bad_request"
HasSub(r) == pc[r] = "sub_in" \/ HasJob(r)

\* Which ids a handler has drawn, by how far it is; all lie below the counter.
IdInv ==
  /\ \A j \in DOMAIN jobs : 0 < j /\ j <= next
  /\ \A r \in Requests :
       /\ sub[r] <= next /\ job[r] <= next
       /\ sub[r] = 0 <=> pc[r] = "form" \/ told[r] = "bad_request"
       /\ job[r] = 0 <=> pc[r] \in {"form", "sub_id"} \/ told[r] = "bad_request"
       /\ told[r] = "nothing" <=> pc[r] # "done"
  /\ IdsNeverShared

\* What is in the two maps, by how far the handlers are.
StoreInv == \A r \in Requests :
  /\ HasSub(r) => sub[r] \in DOMAIN subs /\ subs[sub[r]] = job[r]
  /\ job[r] \in DOMAIN jobs <=> HasJob(r)
  /\ pc[r] = "polled" => seen[r] = job[r]

\* The channel and the worker hold each task once, and only unfinished ones.
ChannelInv ==
  /\ Once(queue) /\ task \notin Buffered(queue)
  /\ worker = "solving" <=> task # 0
  /\ worker = "dead" => queue = <<>>
  /\ \A j \in Held : j \in DOMAIN jobs /\ jobs[j] = "solving"
  /\ \A r \in Requests : pc[r] \in {"job_in", "full"} =>
       jobs[job[r]] = "solving" /\ job[r] \notin Held
  /\ NoJobLost

\* Only a request that was turned away has a job the queue refused.
FullInv == \A r \in Requests :
  job[r] \in DOMAIN jobs /\ jobs[job[r]] = "full" => told[r] = "busy"

IInv == TypeOK /\ IdInv /\ StoreInv /\ ChannelInv /\ FullInv /\ AnswerIsTrue

LEMMA ReportRange == \A j : Report(j) \in {"missing", "nothing", "success", "failure"}
  BY DEF Report

LEMMA IdStep ==
  ASSUME TypeOK, IdInv, [Next]_vars PROVE IdInv'
<1> USE DEF TypeOK, StoreType, HandlerType, IdInv, IdsNeverShared, Goto, Tell, local, store
<1>1. ASSUME NEW r \in Requests, Refuse(r) PROVE IdInv'
  BY <1>1 DEF Refuse
<1>2. ASSUME NEW r \in Requests, DrawSubId(r) PROVE IdInv'
  BY <1>2 DEF DrawSubId
<1>3. ASSUME NEW r \in Requests, DrawJobId(r) PROVE IdInv'
  BY <1>3 DEF DrawJobId
<1>4. ASSUME NEW r \in Requests, InsertSub(r) PROVE IdInv'
  BY <1>4 DEF InsertSub
<1>5. ASSUME NEW r \in Requests, InsertJob(r) PROVE IdInv'
  <2>1. DOMAIN jobs' = DOMAIN jobs \cup {job[r]} /\ 0 < job[r] /\ job[r] <= next
    BY <1>5 DEF InsertJob, Insert
  <2> QED
    BY <1>5, <2>1 DEF InsertJob
<1>6. ASSUME NEW r \in Requests, Enqueue(r) PROVE IdInv'
  BY <1>6 DEF Enqueue, TrySend, SendFails, TurnAway, Accepted
<1>7. ASSUME NEW r \in V1, Await(r) \/ Disconnect(r) PROVE IdInv'
  BY <1>7, ReportRange DEF Await, AwaitReturns, AwaitTimesOut, Disconnect, Requests
<1>8. ASSUME NEW r \in Nova, Poll(r) PROVE IdInv'
  BY <1>8, ReportRange DEF Poll, PollSubmission, PollJob, Requests
<1>9. CASE Recv \/ Panic \/ UNCHANGED vars
  BY <1>9 DEF Recv, Panic, vars
<1>10. CASE Finish
  BY <1>10 DEF Finish
<1> QED
  BY <1>1, <1>2, <1>3, <1>4, <1>5, <1>6, <1>7, <1>8, <1>9, <1>10 DEF Next, Create

LEMMA StoreStep ==
  ASSUME TypeOK, IdInv, StoreInv, [Next]_vars PROVE StoreInv'
<1> USE DEF TypeOK, StoreType, HandlerType, StoreInv, HasJob, HasSub, Goto, Tell, local, store
<1>1. ASSUME NEW r \in Requests, Refuse(r) PROVE StoreInv'
  BY <1>1 DEF Refuse
<1>2. ASSUME NEW r \in Requests, DrawSubId(r) PROVE StoreInv'
  BY <1>2 DEF DrawSubId, IdInv
<1>3. ASSUME NEW r \in Requests, DrawJobId(r) PROVE StoreInv'
  BY <1>3 DEF DrawJobId, IdInv
<1>4. ASSUME NEW r \in Requests, InsertSub(r) PROVE StoreInv'
  <2>1. /\ sub[r] \in DOMAIN subs' /\ subs'[sub[r]] = job[r]
        /\ \A s \in DOMAIN subs : s # sub[r] => s \in DOMAIN subs' /\ subs'[s] = subs[s]
    BY <1>4 DEF InsertSub, Insert
  <2>2. \A q \in Requests : q # r /\ HasSub(q) => sub[q] # sub[r]
    BY <1>4 DEF InsertSub, IdInv, IdsNeverShared
  <2> QED
    BY <1>4, <2>1, <2>2 DEF InsertSub
<1>5. ASSUME NEW r \in Requests, InsertJob(r) PROVE StoreInv'
  <2>1. DOMAIN jobs' = DOMAIN jobs \cup {job[r]}
    BY <1>5 DEF InsertJob, Insert
  <2>2. \A q \in Requests : q # r => job[q] # job[r]
    BY <1>5 DEF InsertJob, IdInv, IdsNeverShared
  <2> QED
    BY <1>5, <2>1, <2>2 DEF InsertJob
<1>6. ASSUME NEW r \in Requests, Enqueue(r) PROVE StoreInv'
  BY <1>6 DEF Enqueue, TrySend, SendFails, TurnAway, Accepted, IdInv
<1>7. ASSUME NEW r \in V1, Await(r) \/ Disconnect(r) PROVE StoreInv'
  BY <1>7, ReportRange DEF Await, AwaitReturns, AwaitTimesOut, Disconnect, Requests
<1>8. ASSUME NEW r \in Nova, Poll(r) PROVE StoreInv'
  BY <1>8, ReportRange DEF Poll, PollSubmission, PollJob, Requests
<1>9. CASE Recv \/ Panic \/ UNCHANGED vars
  BY <1>9 DEF Recv, Panic, vars
<1>10. CASE Finish
  BY <1>10 DEF Finish
<1> QED
  BY <1>1, <1>2, <1>3, <1>4, <1>5, <1>6, <1>7, <1>8, <1>9, <1>10 DEF Next, Create

\* A step that moves neither the channel nor the store keeps ChannelInv when
\* no handler moves into or out of the labels it speaks of.
LEMMA ChannelStep ==
  ASSUME TypeOK, IdInv, StoreInv, ChannelInv, [Next]_vars PROVE ChannelInv'
<1> USE DEF TypeOK, StoreType, ChannelType, HandlerType, ChannelInv, NoJobLost, Goto, Tell
<1>1. ASSUME NEW r \in Requests, Refuse(r) PROVE ChannelInv'
  BY <1>1 DEF Refuse, store, channel, local, Held
<1>2. ASSUME NEW r \in Requests, DrawSubId(r) PROVE ChannelInv'
  BY <1>2 DEF DrawSubId, channel, Held
<1>3. ASSUME NEW r \in Requests, DrawJobId(r) PROVE ChannelInv'
  <2>1. next + 1 \notin DOMAIN jobs
    BY DEF IdInv
  <2>2. next + 1 \notin Held
    BY <2>1
  <2>3. Held' = Held
    BY <1>3 DEF DrawJobId, channel, Held
  <2> QED
    BY <1>3, <2>1, <2>2, <2>3 DEF DrawJobId, channel
<1>4. ASSUME NEW r \in Requests, InsertSub(r) PROVE ChannelInv'
  BY <1>4 DEF InsertSub, channel, local, Held
<1>5. ASSUME NEW r \in Requests, InsertJob(r) PROVE ChannelInv'
  <2>1. /\ DOMAIN jobs' = DOMAIN jobs \cup {job[r]}
        /\ jobs'[job[r]] = "solving"
        /\ \A j \in DOMAIN jobs : j # job[r] => jobs'[j] = jobs[j]
    BY <1>5 DEF InsertJob, Insert
  <2>2. job[r] \notin DOMAIN jobs
    BY <1>5 DEF InsertJob, StoreInv, HasJob
  <2>3. Held' = Held /\ job' = job
    BY <1>5 DEF InsertJob, channel, local, Held
  <2>4. \A q \in Requests : q # r => job[q] # job[r]
    BY <1>5 DEF InsertJob, IdInv, IdsNeverShared
  <2>5. /\ queue' = queue /\ worker' = worker /\ task' = task
        /\ pc'[r] = "job_in" /\ \A q \in Requests : q # r => pc'[q] = pc[q]
    BY <1>5 DEF InsertJob, channel
  <2>6. /\ job[r] \notin Held
        /\ \A j \in Held' : j \in DOMAIN jobs' /\ jobs'[j] = "solving"
    BY <2>1, <2>2, <2>3
  <2>7. \A q \in Requests : pc'[q] \in {"job_in", "full"} =>
          jobs'[job'[q]] = "solving" /\ job'[q] \notin Held'
    BY <2>1, <2>3, <2>4, <2>5, <2>6 DEF StoreInv, HasJob
  <2>8. NoJobLost'
    BY <2>1, <2>3, <2>4, <2>5, <2>6
  <2> QED
    BY <2>5, <2>6, <2>7, <2>8
<1>6. ASSUME NEW r \in Requests, TrySend(r) PROVE ChannelInv'
  <2>1. job[r] \notin Buffered(queue) /\ job[r] # task /\ job[r] # 0
    BY <1>6 DEF TrySend, Held, IdInv
  <2>2. /\ Buffered(queue') = Buffered(queue) \cup {job[r]}
        /\ Once(queue')
    BY <1>6, <2>1, AppendFacts DEF TrySend
  <2>3. Held' = Held \cup {job[r]}
    BY <1>6, <2>2 DEF TrySend, Held
  <2>4. job[r] \in DOMAIN jobs /\ jobs[job[r]] = "solving"
    BY <1>6 DEF TrySend, StoreInv, HasJob
  <2>5. \A q \in Requests : q # r => job[q] # job[r]
    BY <2>1 DEF IdInv, IdsNeverShared
  <2>6. jobs' = jobs /\ job' = job /\ task' = task /\ worker' = worker /\ worker # "dead"
    BY <1>6 DEF TrySend, store, local
  <2>7. pc'[r] \notin {"job_in", "full"} /\ \A q \in Requests : q # r => pc'[q] = pc[q]
    BY <1>6 DEF TrySend, Accepted
  <2> QED
    BY <2>1, <2>2, <2>3, <2>4, <2>5, <2>6, <2>7
<1>7. ASSUME NEW r \in Requests, SendFails(r) PROVE ChannelInv'
  BY <1>7 DEF SendFails, store, channel, local, Held
<1>8. ASSUME NEW r \in Requests, TurnAway(r) PROVE ChannelInv'
  <2>1. Held' = Held /\ job' = job /\ queue' = queue /\ worker' = worker /\ task' = task
    BY <1>8 DEF TurnAway, channel, local, Held
  <2>2. job[r] \notin Held /\ job[r] \in DOMAIN jobs
    BY <1>8 DEF TurnAway, StoreInv, HasJob
  <2>3. /\ DOMAIN jobs' = DOMAIN jobs /\ jobs'[job[r]] = "full"
        /\ \A j \in DOMAIN jobs : j # job[r] => jobs'[j] = jobs[j]
    BY <1>8, <2>2 DEF TurnAway
  <2>4. \A q \in Requests : q # r => job[q] # job[r]
    BY <1>8, <2>2 DEF IdInv, IdsNeverShared
  <2>5. pc'[r] = "done" /\ \A q \in Requests : q # r => pc'[q] = pc[q]
    BY <1>8 DEF TurnAway
  <2>6. \A q \in Requests : pc[q] \in {"job_in", "full"} => job[q] \in DOMAIN jobs
    BY DEF StoreInv, HasJob
  <2>7. \A j \in Held' : j \in DOMAIN jobs' /\ jobs'[j] = "solving"
    BY <2>1, <2>2, <2>3
  <2>8. \A q \in Requests : pc'[q] \in {"job_in", "full"} =>
          jobs'[job'[q]] = "solving" /\ job'[q] \notin Held'
    BY <2>1, <2>3, <2>4, <2>5, <2>6
  <2>9. NoJobLost'
    BY <2>1, <2>3, <2>4, <2>5, <2>7
  <2> QED
    BY <2>1, <2>7, <2>8, <2>9
<1>9. ASSUME NEW r \in V1, Await(r) \/ Disconnect(r) PROVE ChannelInv'
  BY <1>9 DEF Await, AwaitReturns, AwaitTimesOut, Disconnect, Requests, store, channel, local, Held
<1>10. ASSUME NEW r \in Nova, Poll(r) PROVE ChannelInv'
  BY <1>10 DEF Poll, PollSubmission, PollJob, Requests, store, channel, local, Held
<1>11. CASE Recv
  <2>1. /\ Buffered(queue) = Buffered(queue') \cup {task'}
        /\ Once(queue') /\ task' \notin Buffered(queue') /\ task' \in Nat
    BY <1>11, TailFacts DEF Recv
  <2>2. task = 0
    BY <1>11 DEF Recv
  <2>3. 0 \notin Buffered(queue)
    BY DEF Held, IdInv
  <2>4. Held' = Held
    BY <2>1, <2>2, <2>3 DEF Held
  <2> QED
    BY <1>11, <2>1, <2>3, <2>4 DEF Recv, store, local
<1>12. CASE Finish
  <2>1. task # 0 /\ task \in Held
    BY <1>12 DEF Finish, Held
  <2>2. Held = Held' \cup {task} /\ task \notin Held' /\ queue' = queue
    BY <1>12, <2>1 DEF Finish, Held
  <2>3. /\ DOMAIN jobs' = DOMAIN jobs /\ jobs'[task] # "solving"
        /\ \A j \in DOMAIN jobs : j # task => jobs'[j] = jobs[j]
    BY <1>12, <2>1 DEF Finish
  <2>4. 0 \notin Buffered(queue)
    BY DEF Held, IdInv
  <2>5. pc' = pc /\ job' = job /\ worker' = "idle" /\ task' = 0
    BY <1>12 DEF Finish, local
  <2>6. \A q \in Requests : pc[q] \in {"job_in", "full"} => job[q] \in DOMAIN jobs
    BY DEF StoreInv, HasJob
  <2> QED
    BY <1>12, <2>1, <2>2, <2>3, <2>4, <2>5, <2>6
<1>13. CASE Panic
  <2>1. Held' = {} /\ queue' = <<>> /\ Once(queue') /\ Buffered(queue') = {}
    BY <1>13, EmptyFacts DEF Panic, Held
  <2> QED
    BY <1>13, <2>1 DEF Panic, store, local
<1>14. CASE UNCHANGED vars
  BY <1>14 DEF vars, Held
<1> QED
  BY <1>1, <1>2, <1>3, <1>4, <1>5, <1>6, <1>7, <1>8, <1>9, <1>10, <1>11, <1>12,
     <1>13, <1>14 DEF Next, Create, Enqueue

LEMMA FullStep ==
  ASSUME TypeOK, IdInv, StoreInv, FullInv, [Next]_vars PROVE FullInv'
<1> USE DEF TypeOK, StoreType, HandlerType, FullInv, Goto, Tell
<1>1. ASSUME NEW r \in Requests, job' = job, jobs' = jobs, told[r] = "nothing",
             \A q \in Requests : q # r => told'[q] = told[q]
      PROVE FullInv'
  BY <1>1
<1>2. ASSUME NEW r \in Requests, DrawJobId(r) PROVE FullInv'
  <2>1. next + 1 \notin DOMAIN jobs
    BY DEF IdInv
  <2> QED
    BY <1>2, <2>1 DEF DrawJobId
<1>3. ASSUME NEW r \in Requests, InsertJob(r) PROVE FullInv'
  <2>1. /\ DOMAIN jobs' = DOMAIN jobs \cup {job[r]} /\ jobs'[job[r]] = "solving"
        /\ \A j \in DOMAIN jobs : j # job[r] => jobs'[j] = jobs[j]
    BY <1>3 DEF InsertJob, Insert
  <2>2. told' = told /\ job' = job
    BY <1>3 DEF InsertJob, local
  <2> QED
    BY <2>1, <2>2
<1>4. ASSUME NEW r \in Requests, TurnAway(r) PROVE FullInv'
  <2>1. told'[r] = "busy" /\ job' = job /\ \A q \in Requests : q # r => told'[q] = told[q]
    BY <1>4 DEF TurnAway, local
  <2>2. job[r] \in DOMAIN jobs /\ job[r] # 0
    BY <1>4 DEF TurnAway, StoreInv, HasJob, IdInv
  <2>3. \A q \in Requests : q # r => job[q] # job[r]
    BY <2>2 DEF IdInv, IdsNeverShared
  <2>4. DOMAIN jobs' = DOMAIN jobs /\ \A j \in DOMAIN jobs : j # job[r] => jobs'[j] = jobs[j]
    BY <1>4 DEF TurnAway
  <2> QED
    BY <2>1, <2>3, <2>4
<1>5. CASE Finish
  <2>1. /\ DOMAIN jobs' = DOMAIN jobs
        /\ \A j \in DOMAIN jobs : jobs'[j] = "full" => jobs[j] = "full"
    BY <1>5 DEF Finish
  <2>2. told' = told /\ job' = job
    BY <1>5 DEF Finish, local
  <2> QED
    BY <2>1, <2>2
<1>6. ASSUME NEW r \in Requests,
             \/ Refuse(r) \/ AwaitReturns(r) \/ AwaitTimesOut(r) \/ Disconnect(r)
             \/ PollSubmission(r) \/ PollJob(r)
      PROVE FullInv'
  <2>1. told[r] = "nothing"
    BY <1>6 DEF Refuse, AwaitReturns, AwaitTimesOut, Disconnect, PollSubmission,
      PollJob, IdInv
  <2>2. job' = job /\ jobs' = jobs /\ \A q \in Requests : q # r => told'[q] = told[q]
    BY <1>6 DEF Refuse, AwaitReturns, AwaitTimesOut, Disconnect, PollSubmission,
      PollJob, store, local
  <2> QED
    BY <1>1, <2>1, <2>2
<1>7. ASSUME NEW r \in Requests, DrawSubId(r) \/ InsertSub(r) \/ TrySend(r) \/ SendFails(r)
      PROVE FullInv'
  BY <1>7 DEF DrawSubId, InsertSub, TrySend, SendFails, store, local
<1>8. CASE Recv \/ Panic \/ UNCHANGED vars
  BY <1>8 DEF Recv, Panic, vars, store, local
<1> QED
  BY <1>2, <1>3, <1>4, <1>5, <1>6, <1>7, <1>8
    DEF Next, Create, Enqueue, Await, Poll, Requests

\* Whoever writes a status writes it over "solving": finish holds a task, and
\* the tasks held are unfinished; a failed send never handed its task over.
LEMMA OutcomeStep ==
  ASSUME TypeOK, IdInv, StoreInv, ChannelInv, [Next]_vars
  PROVE \A j \in DOMAIN jobs : jobs[j] # "solving" =>
          j \in DOMAIN jobs' /\ jobs'[j] = jobs[j]
<1> USE DEF TypeOK, StoreType, ChannelInv
<1>1. CASE UNCHANGED jobs
  BY <1>1
<1>2. ASSUME NEW r \in Requests, InsertJob(r), NEW j \in DOMAIN jobs
      PROVE j \in DOMAIN jobs' /\ jobs'[j] = jobs[j]
  <2>1. job[r] \notin DOMAIN jobs
    BY <1>2 DEF InsertJob, StoreInv, HasJob
  <2> QED
    BY <1>2, <2>1 DEF InsertJob, Insert
<1>3. ASSUME NEW r \in Requests, TurnAway(r), NEW j \in DOMAIN jobs, jobs[j] # "solving"
      PROVE j \in DOMAIN jobs' /\ jobs'[j] = jobs[j]
  <2>1. jobs[job[r]] = "solving"
    BY <1>3 DEF TurnAway
  <2> QED
    BY <1>3, <2>1 DEF TurnAway
<1>4. ASSUME Finish, NEW j \in DOMAIN jobs, jobs[j] # "solving"
      PROVE j \in DOMAIN jobs' /\ jobs'[j] = jobs[j]
  <2>1. jobs[task] = "solving"
    BY <1>4 DEF Finish, Held
  <2> QED
    BY <1>4, <2>1 DEF Finish
<1>5. \/ UNCHANGED jobs
      \/ \E r \in Requests : InsertJob(r) \/ TurnAway(r)
      \/ Finish
  BY DEF Next, Refuse, Create, DrawSubId, DrawJobId, InsertSub, Enqueue, TrySend,
    SendFails, Await, AwaitReturns, AwaitTimesOut, Disconnect, Poll,
    PollSubmission, PollJob, Recv, Panic, vars, store
<1> QED
  BY <1>1, <1>2, <1>3, <1>4, <1>5

\* An answer is given from the job's status at that moment, and then neither
\* the answer nor the status changes.
LEMMA AnswerStep ==
  ASSUME TypeOK, IdInv, StoreInv, ChannelInv, FullInv, AnswerIsTrue, [Next]_vars
  PROVE AnswerIsTrue'
<1>1. ASSUME NEW r \in Requests, job'[r] = job[r], told'[r] = told[r],
             told[r] \in {"success", "failure", "busy"} => HasJob(r)
      PROVE /\ told'[r] = "success" => jobs'[job'[r]] = "success"
            /\ told'[r] = "failure" => jobs'[job'[r]] = "failure"
            /\ told'[r] = "busy" => jobs'[job'[r]] = "full"
            /\ told'[r] # "missing"
  BY <1>1, OutcomeStep DEF AnswerIsTrue, StoreInv
<1>2. \A r \in Requests : told[r] \in {"success", "failure", "busy"} => HasJob(r)
  BY DEF IdInv, HasJob
<1>3. ASSUME NEW r \in Requests, told' = [told EXCEPT ![r] = Report(job[r])],
             job' = job, jobs' = jobs, HasJob(r), told[r] = "nothing"
      PROVE AnswerIsTrue'
  <2>1. /\ told'[r] \in {"nothing", "success", "failure"}
        /\ told'[r] = "success" => jobs[job[r]] = "success"
        /\ told'[r] = "failure" => jobs[job[r]] = "failure"
    BY <1>3 DEF StoreInv, FullInv, Report, TypeOK, StoreType, HandlerType, Statuses
  <2> QED
    BY <1>3, <2>1 DEF AnswerIsTrue, TypeOK, HandlerType
<1>4. ASSUME NEW r \in Requests, TurnAway(r) PROVE AnswerIsTrue'
  <2>1. job[r] \in DOMAIN jobs
    BY <1>4 DEF TurnAway, StoreInv, HasJob
  <2>2. told'[r] = "busy" /\ jobs'[job[r]] = "full" /\ job' = job
    BY <1>4, <2>1 DEF TurnAway, Tell, TypeOK, StoreType, HandlerType, local
  <2>3. \A q \in Requests : q # r => told'[q] = told[q]
    BY <1>4 DEF TurnAway, Tell, TypeOK, HandlerType
  <2> QED
    BY <1>1, <1>2, <2>2, <2>3 DEF AnswerIsTrue
<1>5. ASSUME NEW r \in Requests, Refuse(r) \/ AwaitTimesOut(r) \/ Disconnect(r)
      PROVE AnswerIsTrue'
  BY <1>5 DEF Refuse, AwaitTimesOut, Disconnect, Tell, AnswerIsTrue, TypeOK,
    HandlerType, store, local
<1>6. ASSUME NEW r \in Requests, AwaitReturns(r) PROVE AnswerIsTrue'
  BY <1>3, <1>6 DEF AwaitReturns, HasJob, IdInv, Tell, store, local
<1>7. ASSUME NEW r \in Requests, PollJob(r) PROVE AnswerIsTrue'
  <2>1. seen[r] = job[r] /\ HasJob(r) /\ told[r] = "nothing"
    BY <1>7 DEF PollJob, StoreInv, HasJob, IdInv
  <2> QED
    BY <1>3, <1>7, <2>1 DEF PollJob, Tell, store, local
<1>8. ASSUME NEW r \in Requests, PollSubmission(r) PROVE AnswerIsTrue'
  <2>1. sub[r] \in DOMAIN subs /\ told[r] = "nothing"
    BY <1>8 DEF PollSubmission, StoreInv, HasSub, HasJob, IdInv
  <2>2. told' = told /\ job' = job /\ jobs' = jobs
    BY <1>8, <2>1 DEF PollSubmission, Tell, TypeOK, HandlerType, store
  <2> QED
    BY <2>2 DEF AnswerIsTrue
<1>9. CASE told' = told /\ job' = job
  BY <1>1, <1>2, <1>9 DEF AnswerIsTrue
<1>10. ASSUME NEW r \in Requests, DrawJobId(r) PROVE AnswerIsTrue'
  <2>1. told' = told /\ \A q \in Requests : q # r => job'[q] = job[q]
    BY <1>10 DEF DrawJobId, TypeOK, HandlerType
  <2>2. told[r] = "nothing"
    BY <1>10 DEF DrawJobId, IdInv
  <2> QED
    BY <1>1, <1>2, <2>1, <2>2 DEF AnswerIsTrue
<1>11. ASSUME NEW r \in Requests,
              DrawSubId(r) \/ InsertSub(r) \/ InsertJob(r) \/ TrySend(r) \/ SendFails(r)
       PROVE told' = told /\ job' = job
  BY <1>11 DEF DrawSubId, InsertSub, InsertJob, TrySend, SendFails, local
<1>12. CASE Recv \/ Finish \/ Panic \/ UNCHANGED vars
  BY <1>12, <1>9 DEF Recv, Finish, Panic, vars, local
<1> QED
  BY <1>4, <1>5, <1>6, <1>7, <1>8, <1>9, <1>10, <1>11, <1>12
    DEF Next, Create, Enqueue, Await, Poll, Requests

-----------------------------------------------------------------------------
LEMMA Invariance == Spec => []IInv
<1>1. Init => IInv
  <2> SUFFICES ASSUME Init PROVE IInv
    OBVIOUS
  <2>1. TypeOK
    BY EmptyFacts, ServiceAssumption
      DEF Init, TypeOK, StoreType, ChannelType, HandlerType, Labels, Answers
  <2>2. DOMAIN jobs = {} /\ Held = {} /\ Once(queue) /\ Buffered(queue) = {}
    BY EmptyFacts DEF Init, Held
  <2>3. IdInv
    BY <2>2 DEF Init, IdInv, IdsNeverShared
  <2>4. StoreInv /\ FullInv
    BY <2>2 DEF Init, StoreInv, FullInv, HasSub, HasJob
  <2>5. ChannelInv
    BY <2>2 DEF Init, ChannelInv, NoJobLost
  <2>6. AnswerIsTrue
    BY DEF Init, AnswerIsTrue
  <2> QED
    BY <2>1, <2>3, <2>4, <2>5, <2>6 DEF IInv
<1>2. IInv /\ [Next]_vars => IInv'
  BY StoreTypeStep, ChannelTypeStep, HandlerTypeStep, IdStep, StoreStep,
    ChannelStep, FullStep, AnswerStep DEF IInv, TypeOK
<1> QED
  BY <1>1, <1>2, PTL DEF Spec

\* No id is given to two requests, or to a submission and a job, however the
\* draws of concurrent uploads interleave (store.rs, create).
THEOREM UniqueIds == Spec => []IdsNeverShared
  BY Invariance, PTL DEF IInv, IdInv

\* While the worker lives, every job recorded as solving has somebody who owes
\* it an outcome (solve.rs enqueue, worker.rs).
THEOREM JobsAccounted == Spec => []NoJobLost
  BY Invariance, PTL DEF IInv, ChannelInv

\* Answers agree with the store, and an id the server gave out is always found
\* (solve.rs await_job, nova.rs submission_status).
THEOREM TrueAnswers == Spec => []AnswerIsTrue
  BY Invariance, PTL DEF IInv

\* No outcome is ever overwritten, although finish checks nothing (store.rs).
THEOREM FinalOutcomes == Spec => OutcomeIsFinal
<1>1. IInv /\ [Next]_vars =>
        [\A j \in DOMAIN jobs : jobs[j] # "solving" =>
           j \in DOMAIN jobs' /\ jobs'[j] = jobs[j]]_vars
  BY OutcomeStep DEF IInv
<1> QED
  BY <1>1, Invariance, PTL DEF Spec, OutcomeIsFinal

-----------------------------------------------------------------------------
(* The service implements the promise.                                      *)

\* What an observer of the store sees of one request.
LEMMA OutcomeValue ==
  ASSUME NEW r \in Requests
  PROVE Outcome[r] = IF job[r] \notin DOMAIN jobs THEN "none"
                     ELSE IF jobs[job[r]] = "full" THEN "failure" ELSE jobs[job[r]]
  BY DEF Outcome

LEMMA OutcomeUpdate ==
  ASSUME NEW r \in Requests, NEW o, Outcome'[r] = o,
         \A q \in Requests : q # r => Outcome'[q] = Outcome[q]
  PROVE Outcome' = [Outcome EXCEPT ![r] = o]
  BY DEF Outcome

LEMMA OutcomeSame ==
  ASSUME \A q \in Requests : Outcome'[q] = Outcome[q]
  PROVE Outcome' = Outcome
  BY DEF Outcome

\* Every step of the service is a step of the promise, or changes nothing of it.
LEMMA PromiseStep ==
  ASSUME IInv, [Next]_vars PROVE [Promise!Next]_(Promise!vars)
<1> USE DEF IInv, TypeOK, StoreType, HandlerType
<1>1. ASSUME jobs' = jobs, job' = job PROVE Outcome' = Outcome
  BY <1>1, OutcomeSame DEF Outcome
<1>2. ASSUME NEW r \in Requests, Refuse(r) PROVE Promise!Refuse(r)
  <2>1. jobs' = jobs /\ job' = job /\ told' = [told EXCEPT ![r] = "bad_request"]
    BY <1>2 DEF Refuse, Tell, store, local
  <2>2. told[r] = "nothing" /\ job[r] \notin DOMAIN jobs
    BY <1>2 DEF Refuse, IdInv
  <2> QED
    BY <1>1, <2>1, <2>2, OutcomeValue DEF Promise!Refuse
<1>3. ASSUME NEW r \in Requests, InsertJob(r) PROVE Promise!Open(r)
  <2>1. /\ DOMAIN jobs' = DOMAIN jobs \cup {job[r]} /\ jobs'[job[r]] = "solving"
        /\ \A j \in DOMAIN jobs : j # job[r] => jobs'[j] = jobs[j]
        /\ job' = job /\ told' = told /\ told[r] = "nothing"
    BY <1>3 DEF InsertJob, Insert, local, IdInv
  <2>2. job[r] \notin DOMAIN jobs
    BY <1>3 DEF InsertJob, StoreInv, HasJob
  <2>3. \A q \in Requests : q # r => job[q] # job[r]
    BY <1>3 DEF InsertJob, IdInv, IdsNeverShared
  <2>4. Outcome[r] = "none" /\ Outcome'[r] = "solving"
    BY <2>1, <2>2 DEF Outcome
  <2>5. \A q \in Requests : q # r => Outcome'[q] = Outcome[q]
    BY <2>1, <2>3 DEF Outcome
  <2> QED
    BY <2>1, <2>4, <2>5, OutcomeUpdate DEF Promise!Open
<1>4. ASSUME NEW r \in Requests, TurnAway(r) PROVE Promise!TurnAway(r)
  <2>1. job[r] \in DOMAIN jobs /\ jobs[job[r]] = "solving" /\ told[r] = "nothing" /\ job[r] # 0
    BY <1>4 DEF TurnAway, StoreInv, ChannelInv, IdInv, HasJob
  <2>2. /\ DOMAIN jobs' = DOMAIN jobs /\ jobs'[job[r]] = "full"
        /\ \A j \in DOMAIN jobs : j # job[r] => jobs'[j] = jobs[j]
        /\ job' = job /\ told' = [told EXCEPT ![r] = "busy"]
    BY <1>4, <2>1 DEF TurnAway, Tell, local
  <2>3. \A q \in Requests : q # r => job[q] # job[r]
    BY <2>1 DEF IdInv, IdsNeverShared
  <2>4. Outcome[r] = "solving" /\ Outcome'[r] = "failure"
    BY <2>1, <2>2 DEF Outcome
  <2>5. \A q \in Requests : q # r => Outcome'[q] = Outcome[q]
    BY <2>2, <2>3 DEF Outcome
  <2> QED
    BY <2>1, <2>2, <2>4, <2>5, OutcomeUpdate DEF Promise!TurnAway
<1>5. ASSUME NEW r \in Requests, HasJob(r), told[r] = "nothing", jobs' = jobs, job' = job,
             told' = [told EXCEPT ![r] = Report(job[r])]
      PROVE Promise!Report(r) \/ UNCHANGED Promise!vars
  <2>1. job[r] \in DOMAIN jobs /\ jobs[job[r]] \in {"solving", "success", "failure"}
    BY <1>5 DEF StoreInv, FullInv, Statuses
  <2>2. CASE jobs[job[r]] = "solving"
    <3>1. told' = told
      BY <1>5, <2>1, <2>2 DEF Report
    <3> QED
      BY <1>1, <1>5, <3>1 DEF Promise!vars
  <2>3. CASE jobs[job[r]] # "solving"
    <3>1. Outcome[r] = Report(job[r]) /\ Outcome[r] \in {"success", "failure"}
      BY <2>1, <2>3, OutcomeValue DEF Report
    <3> QED
      BY <1>1, <1>5, <3>1 DEF Promise!Report
  <2> QED
    BY <2>2, <2>3
<1>6. ASSUME NEW r \in Requests, AwaitReturns(r) \/ PollJob(r)
      PROVE Promise!Report(r) \/ UNCHANGED Promise!vars
  <2>1. HasJob(r) /\ told[r] = "nothing" /\ jobs' = jobs /\ job' = job
    BY <1>6 DEF AwaitReturns, PollJob, HasJob, IdInv, store, local
  <2>2. told' = [told EXCEPT ![r] = Report(job[r])]
    BY <1>6 DEF AwaitReturns, PollJob, Tell, StoreInv
  <2> QED
    BY <1>5, <2>1, <2>2
<1>7. ASSUME NEW r \in Requests, AwaitTimesOut(r) \/ Disconnect(r) PROVE Promise!GiveUp(r)
  <2>1. HasJob(r) /\ told[r] = "nothing" /\ jobs' = jobs /\ job' = job
    BY <1>7 DEF AwaitTimesOut, Disconnect, HasJob, IdInv, store, local
  <2>2. job[r] \in DOMAIN jobs /\ Outcome[r] # "none"
    BY <2>1, OutcomeValue DEF StoreInv, Statuses
  <2>3. AwaitTimesOut(r) => Outcome[r] = "solving"
    BY <2>2, OutcomeValue DEF AwaitTimesOut, Report
  <2>4. \/ Outcome[r] = "solving" /\ told' = [told EXCEPT ![r] = "timeout"]
        \/ told' = [told EXCEPT ![r] = "left"]
    BY <1>7, <2>3 DEF AwaitTimesOut, Disconnect, Tell
  <2> QED
    BY <1>1, <2>1, <2>2, <2>4 DEF Promise!GiveUp
<1>8. CASE Finish
  <2>1. jobs[task] = "solving" /\ task \in DOMAIN jobs /\ task # 0
    BY <1>8 DEF Finish, ChannelInv, Held
  <2>2. PICK s \in {"success", "failure"} : jobs' = [jobs EXCEPT ![task] = s]
    BY <1>8, <2>1 DEF Finish
  <2>3. job' = job /\ told' = told
    BY <1>8 DEF Finish, local
  <2>4. ASSUME NEW r \in Requests, job[r] = task PROVE Promise!Decide(r)
    <3>1. \A q \in Requests : q # r => job[q] # task
      BY <2>1, <2>4 DEF IdInv, IdsNeverShared
    <3>2. Outcome[r] = "solving" /\ Outcome'[r] = s /\ told[r] # "busy"
      BY <2>1, <2>2, <2>3, <2>4 DEF Outcome, AnswerIsTrue
    <3>3. \A q \in Requests : q # r => Outcome'[q] = Outcome[q]
      BY <2>2, <2>3, <3>1 DEF Outcome
    <3> QED
      BY <2>3, <3>2, <3>3, OutcomeUpdate DEF Promise!Decide
  <2>5. CASE \A r \in Requests : job[r] # task
    <3>1. Outcome' = Outcome
      BY <2>2, <2>3, <2>5, OutcomeSame DEF Outcome
    <3> QED
      BY <2>3, <3>1 DEF Promise!vars
  <2> QED
    BY <2>4, <2>5 DEF Promise!Next
<1>9. ASSUME NEW r \in Requests, DrawJobId(r) PROVE UNCHANGED Promise!vars
  <2>1. next + 1 \notin DOMAIN jobs /\ job[r] \notin DOMAIN jobs
    BY <1>9 DEF DrawJobId, IdInv
  <2>2. /\ job' = [job EXCEPT ![r] = next + 1]
        /\ jobs' = jobs /\ told' = told
    BY <1>9 DEF DrawJobId
  <2>3. Outcome' = Outcome
    BY <2>1, <2>2, OutcomeSame DEF Outcome
  <2> QED
    BY <2>2, <2>3 DEF Promise!vars
<1>10. ASSUME NEW r \in Requests, PollSubmission(r) PROVE UNCHANGED Promise!vars
  <2>1. sub[r] \in DOMAIN subs /\ told[r] = "nothing"
    BY <1>10 DEF PollSubmission, StoreInv, HasSub, HasJob, IdInv
  <2>2. told' = told /\ job' = job /\ jobs' = jobs
    BY <1>10, <2>1 DEF PollSubmission, Tell, store
  <2> QED
    BY <1>1, <2>2 DEF Promise!vars
<1>11. ASSUME NEW r \in Requests, DrawSubId(r) \/ InsertSub(r) \/ TrySend(r) \/ SendFails(r)
       PROVE UNCHANGED Promise!vars
  <2>1. told' = told /\ job' = job /\ jobs' = jobs
    BY <1>11 DEF DrawSubId, InsertSub, TrySend, SendFails, store, local
  <2> QED
    BY <1>1, <2>1 DEF Promise!vars
<1>12. CASE Recv \/ Panic \/ UNCHANGED vars
  <2>1. told' = told /\ job' = job /\ jobs' = jobs
    BY <1>12 DEF Recv, Panic, vars, store, local
  <2> QED
    BY <1>1, <2>1 DEF Promise!vars
<1> QED
  BY <1>2, <1>3, <1>4, <1>6, <1>7, <1>8, <1>9, <1>10, <1>11, <1>12
    DEF Next, Create, Enqueue, Await, Poll, Requests, Promise!Next

\* The service keeps the promise to every request: at most one job, decided at
\* most once, and an answer that agrees with the decision.
THEOREM Refinement == Spec => KeepsPromise
<1>1. Init => Promise!Init
  BY DEF Init, Promise!Init, Outcome
<1>2. IInv /\ [Next]_vars => [Promise!Next]_(Promise!vars)
  BY PromiseStep
<1> QED
  BY <1>1, <1>2, Invariance, PTL DEF Spec, KeepsPromise, Promise!Spec

-----------------------------------------------------------------------------
(* The warm list and the scale ladder.                                     *)

Entry == [field : Fields, shape : Shapes, scale : Scales, index : DOMAIN Indexes]

-----------------------------------------------------------------------------
(* The bands that are kept.                                                 *)

\* The recursion of Seen has a solution, so it holds of Seen.
LEMMA SeenRecursion ==
  ASSUME NEW all \in Seq(Ranges)
  PROVE  LET kept == Seen(all)
         IN /\ kept[0] = <<>>
            /\ \A n \in 0 .. Len(all) : kept[n] \in Seq(Ranges)
            /\ \A n \in 1 .. Len(all) :
                 kept[n] = IF Redundant(kept[n - 1], all[n]) THEN kept[n - 1]
                           ELSE Append(kept[n - 1], all[n])
<1> DEFINE S == Ranges
           len == Len(all)
           step == [p \in Seq(S) \X (1 .. len) |->
                      IF Redundant(p[1], all[p[2]]) THEN p[1] ELSE Append(p[1], all[p[2]])]
           Eq(f) == f = [n \in 0 .. len |->
                      IF n = 0 THEN <<>>
                      ELSE IF Redundant(f[n - 1], all[n]) THEN f[n - 1]
                      ELSE Append(f[n - 1], all[n])]
<1>1. len \in Nat /\ (\A n \in 1 .. len : all[n] \in S) /\ all \in Seq(S)
  BY LenProperties
<1> HIDE DEF S
<1>2. step \in [Seq(S) \X (1 .. len) -> Seq(S)]
  <2>1. ASSUME NEW p \in Seq(S) \X (1 .. len)
        PROVE  (IF Redundant(p[1], all[p[2]]) THEN p[1] ELSE Append(p[1], all[p[2]])) \in Seq(S)
    <3>1. p[1] \in Seq(S) /\ p[2] \in 1 .. len /\ all[p[2]] \in S
      BY <1>1
    <3>2. Append(p[1], all[p[2]]) \in Seq(S)
      BY <3>1, AppendProperties
    <3> QED
      BY <3>1, <3>2
  <2> QED
    BY <2>1
<1>3. \A p \in Seq(S), n \in 1 .. len :
        step[<<p, n>>] = IF Redundant(p, all[n]) THEN p ELSE Append(p, all[n])
  OBVIOUS
<1> HIDE DEF step, len
<1>4. PICK f \in [0 .. len -> Seq(S)] : Recurs(f, <<>>, len, step)
  <2>1. <<>> \in Seq(S) /\ step \in Steps(Seq(S), len)
    BY <1>2, EmptySeq DEF Steps
  <2> QED
    BY <1>1, <2>1, Recursion
<1>5. \A n \in 1 .. len :
        f[n] = IF Redundant(f[n - 1], all[n]) THEN f[n - 1] ELSE Append(f[n - 1], all[n])
  <2> SUFFICES ASSUME NEW n \in 1 .. len
               PROVE  f[n] = IF Redundant(f[n - 1], all[n]) THEN f[n - 1]
                             ELSE Append(f[n - 1], all[n])
    OBVIOUS
  <2>1. n - 1 \in 0 .. len
    BY <1>1
  <2> QED
    BY <1>3, <1>4, <2>1 DEF Recurs
<1>6. Eq(f)
  <2>1. \A n \in 0 .. len : n # 0 => n \in 1 .. len
    BY <1>1
  <2> QED
    BY <1>4, <1>5, <2>1 DEF Recurs
<1>7. Seen(all) = CHOOSE g : Eq(g)
  BY DEF Seen, len
<1> DEFINE kept == Seen(all)
<1> HIDE DEF kept
<1>8. Eq(kept)
  <2> HIDE DEF Eq
  <2> QED
    BY <1>6, <1>7 DEF kept
<1>9. /\ kept[0] = <<>>
      /\ \A n \in 1 .. len :
           kept[n] = IF Redundant(kept[n - 1], all[n]) THEN kept[n - 1]
                     ELSE Append(kept[n - 1], all[n])
  <2>1. 0 \in 0 .. len /\ \A n \in 1 .. len : n \in 0 .. len /\ n # 0
    BY <1>1
  <2> QED
    BY <1>8, <2>1
<1>10. \A n \in 0 .. len : kept[n] \in Seq(S)
  <2> DEFINE T == {n \in 0 .. len : kept[n] \in Seq(S)}
  <2>1. 0 \in T
    <3>1. <<>> \in Seq(S)
      BY EmptySeq
    <3>2. 0 \in 0 .. len /\ kept[0] \in Seq(S)
      BY <1>1, <1>9, <3>1
    <3> QED
      BY <3>2
  <2>2. ASSUME NEW n \in 1 .. len, n - 1 \in T PROVE n \in T
    <3>1. kept[n - 1] \in Seq(S) /\ all[n] \in S /\ n \in 0 .. len
      BY <1>1, <2>2
    <3>2. Append(kept[n - 1], all[n]) \in Seq(S)
      BY <3>1, AppendProperties
    <3> QED
      BY <1>9, <3>1, <3>2
  <2> HIDE DEF T
  <2>3. \A n \in 0 .. len : n \in T
    BY <1>1, <2>1, <2>2, BoundedInduction
  <2> QED
    BY <2>3 DEF T
<1> QED
  BY <1>9, <1>10 DEF kept, len, S

\* A band is kept only if it was there.
LEMMA SeenBands ==
  ASSUME NEW all \in Seq(Ranges)
  PROVE  \A n \in 0 .. Len(all) : \A i \in 1 .. Len(Seen(all)[n]) :
           \E k \in 1 .. n : Seen(all)[n][i] = all[k]
<1> DEFINE kept == Seen(all)
           len == Len(all)
           T == {n \in 0 .. len : \A i \in 1 .. Len(kept[n]) : \E k \in 1 .. n : kept[n][i] = all[k]}
<1>1. /\ len \in Nat /\ kept[0] = <<>>
      /\ \A n \in 0 .. len : kept[n] \in Seq(Ranges)
      /\ \A n \in 1 .. len :
           kept[n] = IF Redundant(kept[n - 1], all[n]) THEN kept[n - 1]
                     ELSE Append(kept[n - 1], all[n])
      /\ \A n \in 1 .. len : all[n] \in Ranges
  BY SeenRecursion, LenProperties
<1> HIDE DEF kept, len
<1>2. 0 \in T
  BY <1>1
<1>3. ASSUME NEW n \in 1 .. len, n - 1 \in T PROVE n \in T
  <2> DEFINE old == kept[n - 1]
  <2>1. /\ n - 1 \in 0 .. len /\ n \in 0 .. len /\ n \in Nat
        /\ old \in Seq(Ranges) /\ all[n] \in Ranges
        /\ \A i \in 1 .. Len(old) : \E k \in 1 .. n - 1 : old[i] = all[k]
    <3>1. n - 1 \in 0 .. len /\ n \in 0 .. len /\ n \in Nat
      BY <1>1
    <3>2. kept[n - 1] \in Seq(Ranges) /\ all[n] \in Ranges
      BY <1>1, <3>1
    <3>3. \A i \in 1 .. Len(kept[n - 1]) : \E k \in 1 .. n - 1 : kept[n - 1][i] = all[k]
      BY <1>3
    <3> QED
      BY <3>1, <3>2, <3>3
  <2>2. \A k \in 1 .. n - 1 : k \in 1 .. n
    BY <2>1
  <2>3. kept[n] = old \/ kept[n] = Append(old, all[n])
    BY <1>1
  <2> HIDE DEF old
  <2>4. CASE kept[n] = old
    BY <2>1, <2>2, <2>4
  <2>5. CASE kept[n] = Append(old, all[n])
    <3>1. /\ Len(old) \in Nat /\ Len(kept[n]) = Len(old) + 1
          /\ \A i \in 1 .. Len(old) : kept[n][i] = old[i]
          /\ kept[n][Len(old) + 1] = all[n]
      BY <2>1, <2>5, Pushed
    <3>2. ASSUME NEW i \in 1 .. Len(kept[n])
          PROVE  \E k \in 1 .. n : kept[n][i] = all[k]
      <4>1. CASE i \in 1 .. Len(old)
        BY <2>1, <2>2, <3>1, <4>1
      <4>2. CASE i = Len(old) + 1
        <5>1. n \in 1 .. n
          BY <2>1
        <5> QED
          BY <3>1, <4>2, <5>1
      <4> QED
        BY <3>1, <4>1, <4>2
    <3> QED
      BY <2>1, <3>2
  <2> QED
    BY <2>3, <2>4, <2>5
<1> HIDE DEF T
<1>4. \A n \in 0 .. len : n \in T
  BY <1>1, <1>2, <1>3, BoundedInduction
<1> QED
  BY <1>4 DEF T, kept, len

\* A band that covers the wide one.
CoversWide(band) == Covers(band, Wide)

\* The last band kept of some guesses, then perhaps the configured one, then
\* the wide one is a band that covers the wide one.
LEMMA LastIsWide ==
  ASSUME NEW guesses \in Seq(Ranges), NEW all \in Seq(Ranges),
         all = guesses \o Default \o <<Wide>>,
         \A i \in 1 .. Len(guesses) : ~CoversWide(guesses[i])
  PROVE  /\ Retained(all) \in Seq(Ranges)
         /\ Len(Retained(all)) \in Nat \ {0}
         /\ CoversWide(Retained(all)[Len(Retained(all))])
<1> DEFINE m == Len(guesses)
           kept == Seen(all)
<1>1. Default \in Seq(Ranges) /\ Len(Default) \in {0, 1} /\ Wide \in Ranges /\ <<Wide>> \in Seq(Ranges)
  <2>1. Bands \subseteq Ranges
    BY LadderAssumption DEF LadderAssumption, Bands, Scales, Ranges, Lo, Hi
  <2>2. Wide \in Ranges
    BY LadderAssumption DEF LadderAssumption, Ranges, Lo, Hi
  <2>3. <<Wide>> \in Seq(Ranges)
    BY <2>2
  <2>4. Default \in Seq(Ranges)
    BY <2>1, LadderAssumption, SeqMonotonic DEF LadderAssumption
  <2>5. Len(Default) \in Nat /\ Len(Default) <= 1
    BY <2>4, LenProperties, LadderAssumption DEF LadderAssumption
  <2> QED
    BY <2>2, <2>3, <2>4, <2>5
<1>2. /\ m \in Nat /\ Len(all) = m + Len(Default) + 1
      /\ \A k \in 1 .. m : all[k] = guesses[k]
      /\ Len(Default) = 1 => all[m + 1] = Default[1]
      /\ all[Len(all)] = Wide
  <2> DEFINE front == guesses \o Default
  <2>1. /\ front \in Seq(Ranges) /\ m \in Nat /\ Len(Default) \in Nat
        /\ Len(front) = m + Len(Default)
        /\ \A i \in 1 .. m + Len(Default) :
             front[i] = IF i <= m THEN guesses[i] ELSE Default[i - m]
    BY <1>1, ConcatProperties, LenProperties
  <2>2. all = front \o <<Wide>>
    OBVIOUS
  <2> HIDE DEF front
  <2>3. Len(<<Wide>>) = 1 /\ <<Wide>>[1] = Wide
    OBVIOUS
  <2>4. /\ Len(all) = Len(front) + 1
        /\ \A i \in 1 .. Len(front) + 1 :
             all[i] = IF i <= Len(front) THEN front[i] ELSE <<Wide>>[i - Len(front)]
    BY <1>1, <2>1, <2>2, <2>3, ConcatProperties
  <2> HIDE DEF m
  <2>5. \A k \in 1 .. m : all[k] = guesses[k]
    BY <2>1, <2>4
  <2>6. ASSUME Len(Default) = 1 PROVE all[m + 1] = Default[1]
    <3>1. /\ m + 1 \in 1 .. Len(front) + 1 /\ m + 1 <= Len(front) /\ m + 1 \in 1 .. m + Len(Default)
          /\ ~(m + 1 <= m) /\ (m + 1) - m = 1
      BY <2>1, <2>6
    <3>2. all[m + 1] = front[m + 1]
      BY <2>4, <3>1
    <3> QED
      BY <2>1, <3>1, <3>2
  <2>7. all[Len(all)] = Wide
    BY <2>1, <2>3, <2>4
  <2> QED
    BY <2>1, <2>4, <2>5, <2>6, <2>7
<1>3. /\ \A n \in 0 .. Len(all) : kept[n] \in Seq(Ranges)
      /\ \A n \in 1 .. Len(all) :
           kept[n] = IF Redundant(kept[n - 1], all[n]) THEN kept[n - 1]
                     ELSE Append(kept[n - 1], all[n])
  BY SeenRecursion
<1>4. \A i \in 1 .. Len(kept[m]) : ~CoversWide(kept[m][i])
  <2>1. m \in 0 .. Len(all)
    BY <1>1, <1>2
  <2>2. \A i \in 1 .. Len(kept[m]) : \E k \in 1 .. m : kept[m][i] = all[k]
    BY <2>1, SeenBands
  <2> QED
    BY <1>2, <2>2
<1> HIDE DEF kept, m
\* Before the wide band, only the last one kept may cover it.
<1>5. PICK n \in Nat : n = m + Len(Default)
  BY <1>1, <1>2
<1>6. n \in 0 .. Len(all) /\ n + 1 = Len(all) /\ n + 1 \in 1 .. Len(all) /\ (n + 1) - 1 = n
  BY <1>1, <1>2, <1>5
<1>7. /\ kept[n] \in Seq(Ranges) /\ Len(kept[n]) \in Nat
      /\ \A i \in 1 .. Len(kept[n]) : CoversWide(kept[n][i]) => i = Len(kept[n])
  <2>1. kept[n] \in Seq(Ranges) /\ Len(kept[n]) \in Nat
    BY <1>3, <1>6, LenProperties
  <2>2. CASE n = m
    BY <1>4, <2>1, <2>2
  <2>3. CASE n = m + 1
    <3>1. n \in 1 .. Len(all) /\ n - 1 = m /\ m \in 0 .. Len(all)
      BY <1>2, <1>6, <2>3
    <3>2. kept[m] \in Seq(Ranges) /\ all[n] \in Ranges
      BY <1>3, <3>1, ElementOfSeq
    <3>3. kept[n] = kept[m] \/ kept[n] = Append(kept[m], all[n])
      BY <1>3, <3>1
    <3>4. CASE kept[n] = kept[m]
      BY <1>4, <2>1, <3>4
    <3>5. CASE kept[n] = Append(kept[m], all[n])
      <4>1. /\ Len(kept[m]) \in Nat /\ Len(kept[n]) = Len(kept[m]) + 1
            /\ \A i \in 1 .. Len(kept[m]) : kept[n][i] = kept[m][i]
        BY <3>2, <3>5, Pushed
      <4>2. ASSUME NEW i \in 1 .. Len(kept[n]), CoversWide(kept[n][i]) PROVE i = Len(kept[n])
        <5>1. i \in 1 .. Len(kept[m]) \/ i = Len(kept[m]) + 1
          BY <4>1
        <5>2. ~(i \in 1 .. Len(kept[m]))
          BY <1>4, <4>1, <4>2
        <5> QED
          BY <4>1, <5>1, <5>2
      <4> QED
        BY <2>1, <4>2
    <3> QED
      BY <3>3, <3>4, <3>5
  <2> QED
    BY <1>1, <1>2, <1>5, <2>2, <2>3
<1>8. Retained(all) = kept[n + 1]
  BY <1>6 DEF Retained, kept
<1>9. all[n + 1] = Wide /\ Wide \in Ranges
  BY <1>1, <1>2, <1>6
<1>10. kept[n + 1] = IF Redundant(kept[n], Wide) THEN kept[n] ELSE Append(kept[n], Wide)
  BY <1>3, <1>6, <1>9
<1>11. CASE Redundant(kept[n], Wide)
  <2>1. PICK i \in 1 .. Len(kept[n]) : CoversWide(kept[n][i])
    BY <1>7, <1>11, LenProperties DEF Redundant, CoversWide
  <2>2. i = Len(kept[n]) /\ Len(kept[n]) \in Nat \ {0}
    BY <1>7, <2>1
  <2> QED
    BY <1>7, <1>8, <1>10, <1>11, <2>1, <2>2
<1>12. CASE ~Redundant(kept[n], Wide)
  <2>1. Retained(all) = Append(kept[n], Wide)
    BY <1>8, <1>10, <1>12
  <2>2. /\ Retained(all) \in Seq(Ranges) /\ Len(Retained(all)) = Len(kept[n]) + 1
        /\ Retained(all)[Len(kept[n]) + 1] = Wide
    <3>1. /\ Append(kept[n], Wide) \in Seq(Ranges)
          /\ Len(Append(kept[n], Wide)) = Len(kept[n]) + 1
          /\ Append(kept[n], Wide)[Len(kept[n]) + 1] = Wide
      BY <1>7, <1>9, Pushed
    <3> QED
      BY <2>1, <3>1
  <2>3. CoversWide(Wide)
    BY LadderAssumption DEF LadderAssumption, CoversWide, Covers, Lo, Hi
  <2> QED
    BY <1>7, <2>2, <2>3
<1> QED
  BY <1>11, <1>12

-----------------------------------------------------------------------------
(* The warm list.                                                           *)

\* There is an index file of the id that store_warm looks for.
LEMMA WarmIndexFound ==
  ASSUME NEW i \in DOMAIN Indexes
  PROVE  WarmIndex(i) \in DOMAIN Indexes
<1> DEFINE same == {n \in DOMAIN Indexes : Indexes[n].id = Indexes[i].id}
<1>1. same \in SUBSET Nat /\ same # {}
  BY LadderAssumption, LenProperties DEF LadderAssumption
<1>2. \E x \in same : \A y \in same : x <= y
  <2> HIDE DEF same
  <2> QED
    BY <1>1, LeastNatural
<1>3. WarmIndex(i) = CHOOSE x \in same : \A y \in same : x <= y
  BY DEF WarmIndex, Min
<1>4. WarmIndex(i) \in same
  <2> HIDE DEF same
  <2> QED
    BY <1>2, <1>3
<1> QED
  BY <1>4

\* No two entries of a list are of the same rig.
OneRigEach(list) ==
  \A m, n \in DOMAIN list :
    m # n => list[m].shape # list[n].shape \/ ~Close(list[m].scale, list[n].scale)

LEMMA CloseSymmetric ==
  ASSUME NEW s \in Scales, NEW t \in Scales, Close(s, t)
  PROVE  Close(t, s)
<1>1. s \in Int /\ t \in Int
  BY LadderAssumption DEF LadderAssumption, Scales, Lo, Hi
<1> QED
  BY <1>1 DEF Close

\* store_warm leaves one slot per rig, and no more slots than there are.
LEMMA StoredFacts ==
  ASSUME warm \in Seq(Entry), image \in Images, OneRigEach(warm), NEW i \in DOMAIN Indexes
  PROVE  Stored(i) \in Seq(Entry) /\ Len(Stored(i)) <= Slots /\ OneRigEach(Stored(i))
<1> DEFINE entry == [field |-> image.field, shape |-> image.shape,
                     scale |-> image.scale, index |-> WarmIndex(i)]
           others == {n \in DOMAIN warm : ~SameRig(warm[n], image)}
           kept == Retain(warm, others)
           all == <<entry>> \o kept
           last == Min2(Len(all), Slots)
<1>1. entry \in Entry
  BY WarmIndexFound DEF Entry, Images
<1>2. /\ entry.shape = image.shape /\ entry.scale = image.scale
      /\ \A n \in others : ~(warm[n].shape = image.shape /\ Close(warm[n].scale, image.scale))
      /\ others \subseteq DOMAIN warm
  BY DEF SameRig
<1>3. Stored(i) = SubSeq(all, 1, last)
  BY DEF Stored
<1> HIDE DEF entry, others
<1>4. kept \in Seq(Entry) /\ Len(kept) \in Nat
  BY RetainFacts, LenProperties
<1>5. PICK at \in [1 .. Len(kept) -> 1 .. Len(warm)] :
        /\ \A k \in 1 .. Len(kept) : at[k] \in others /\ kept[k] = warm[at[k]]
        /\ \A k, n \in 1 .. Len(kept) : k < n => at[k] < at[n]
  BY RetainFacts DEF Picks
<1> HIDE DEF kept
<1>6. /\ all \in Seq(Entry) /\ Len(all) = 1 + Len(kept)
      /\ all[1] = entry
      /\ \A k \in 2 .. 1 + Len(kept) : all[k] = kept[k - 1]
  <2>1. <<entry>> \in Seq(Entry) /\ Len(<<entry>>) = 1 /\ <<entry>>[1] = entry
    BY <1>1
  <2>2. /\ all \in Seq(Entry) /\ Len(all) = 1 + Len(kept)
        /\ \A k \in 1 .. 1 + Len(kept) : all[k] = IF k <= 1 THEN <<entry>>[k] ELSE kept[k - 1]
    BY <1>4, <2>1, ConcatProperties
  <2> HIDE DEF all
  <2> QED
    BY <1>4, <2>1, <2>2
<1> HIDE DEF all
<1>7. last \in Nat /\ last <= Len(all) /\ last <= Slots /\ last >= 1
  BY <1>4, <1>6, LadderAssumption DEF LadderAssumption, Min2
<1> HIDE DEF last
<1>8. /\ Stored(i) \in Seq(Entry) /\ Len(Stored(i)) = last /\ DOMAIN Stored(i) = 1 .. last
      /\ \A k \in 1 .. last : Stored(i)[k] = all[k]
  <2>1. \A k \in 1 .. last : all[k] \in Entry
    BY <1>6, <1>7, ElementOfSeq
  <2> QED
    BY <1>3, <1>7, <2>1, SubSeqProperties, LenProperties
<1>9. ASSUME NEW m \in 1 .. last, NEW n \in 1 .. last, m < n
      PROVE  all[m].shape # all[n].shape \/ ~Close(all[m].scale, all[n].scale)
  <2>1. /\ n \in 2 .. 1 + Len(kept) /\ n - 1 \in 1 .. Len(kept)
        /\ all[n] = warm[at[n - 1]] /\ at[n - 1] \in others
    BY <1>4, <1>5, <1>6, <1>7, <1>9
  <2>2. CASE m = 1
    <3>1. all[m].shape = image.shape /\ all[m].scale = image.scale /\ image.scale \in Scales
      BY <1>2, <1>6, <2>2 DEF Images
    <3>2. all[n].scale \in Scales
      <4>1. n \in 1 .. Len(all)
        BY <1>7
      <4>2. all[n] \in Entry
        BY <1>6, <4>1, ElementOfSeq
      <4> QED
        BY <4>2 DEF Entry
    <3> QED
      BY <1>2, <2>1, <3>1, <3>2, CloseSymmetric
  <2>3. CASE m # 1
    <3>1. /\ m \in 2 .. 1 + Len(kept) /\ m - 1 \in 1 .. Len(kept) /\ m - 1 < n - 1
          /\ all[m] = warm[at[m - 1]] /\ at[m - 1] \in others
      <4>1. m \in 2 .. 1 + Len(kept) /\ m - 1 \in 1 .. Len(kept) /\ m - 1 < n - 1
        BY <1>4, <1>6, <1>7, <1>9, <2>3
      <4> QED
        BY <1>5, <1>6, <4>1
    <3>2. at[m - 1] < at[n - 1] /\ at[m - 1] \in Int /\ at[n - 1] \in Int
      BY <1>5, <2>1, <3>1
    <3>3. at[m - 1] # at[n - 1] /\ at[m - 1] \in DOMAIN warm /\ at[n - 1] \in DOMAIN warm
      BY <1>2, <2>1, <3>1, <3>2
    <3> QED
      BY <2>1, <3>1, <3>3 DEF OneRigEach
  <2> QED
    BY <2>2, <2>3
<1>10. OneRigEach(Stored(i))
  <2>1. ASSUME NEW m \in 1 .. last, NEW n \in 1 .. last, m # n
        PROVE  all[m].shape # all[n].shape \/ ~Close(all[m].scale, all[n].scale)
    <3>1. m < n \/ n < m
      BY <1>7, <2>1
    <3>2. all[m].scale \in Scales /\ all[n].scale \in Scales
      <4>1. m \in 1 .. Len(all) /\ n \in 1 .. Len(all)
        BY <1>7
      <4>2. all[m] \in Entry /\ all[n] \in Entry
        BY <1>6, <4>1, ElementOfSeq
      <4> QED
        BY <4>2 DEF Entry
    <3> QED
      BY <1>9, <3>1, <3>2, CloseSymmetric
  <2> QED
    BY <1>8, <2>1 DEF OneRigEach
<1> QED
  BY <1>7, <1>8, <1>10

-----------------------------------------------------------------------------
(* The inductive invariant.                                                 *)

\* A band with every scale the hint leaves open.
Reaches(band) ==
  \A s \in Scales : (\A h \in DOMAIN hint : InBand(s, hint[h])) => InBand(s, band)

\* The last of the bands to come covers all that is to be searched, so that a
\* solve that ends with it exhausted has missed nothing.
LadderInv ==
  /\ LadderTypeOK
  /\ OneSlotPerRig
  /\ NoSolutionIsExhaustive
  /\ phase = "ladder" => bands # <<>> /\ Reaches(bands[Len(bands)])

\* The ladder ends with a band that has every scale the hint leaves open.
LEMMA LadderReaches ==
  ASSUME LadderTypeOK
  PROVE  Ladder \in Seq(Ranges) /\ Ladder # <<>> /\ Reaches(Ladder[Len(Ladder)])
<1>1. Bands \subseteq Ranges
  BY LadderAssumption DEF LadderAssumption, Bands, Scales, Ranges, Lo, Hi
<1>2. CASE hint # <<>>
  <2>1. hint \in Seq(Bands) /\ Len(hint) <= 1
    BY <1>2, LadderAssumption DEF LadderTypeOK, LadderAssumption
  <2>2. hint \in Seq(Ranges) /\ Len(hint) = 1 /\ DOMAIN hint = 1 .. Len(hint)
    <3>1. Len(hint) \in Nat \ {0}
      BY <1>2, <2>1, EmptySeq
    <3> QED
      <4>1. hint \in Seq(Ranges)
        BY <1>1, <2>1, SeqMonotonic
      <4>2. DOMAIN hint = 1 .. Len(hint)
        BY <4>1, LenProperties
      <4>3. PICK k \in Nat \ {0} : k = Len(hint)
        BY <3>1
      <4>4. k = 1
        BY <2>1, <4>3
      <4> QED
        BY <4>1, <4>2, <4>3, <4>4
  <2>3. Reaches(hint[Len(hint)])
    BY <2>2 DEF Reaches
  <2> QED
    BY <1>2, <2>2, <2>3 DEF Ladder
<1>3. CASE hint = <<>>
  <2> DEFINE guesses == [n \in DOMAIN warm |-> WarmBand(warm[n])]
             all == guesses \o Default \o <<Wide>>
  <2>1. /\ DOMAIN warm = 1 .. Len(warm) /\ Len(warm) \in Nat
        /\ \A n \in DOMAIN warm : warm[n].scale \in Scales
    <3>1. warm \in Seq(Entry)
      BY DEF LadderTypeOK, Entry
    <3>2. DOMAIN warm = 1 .. Len(warm) /\ Len(warm) \in Nat /\ \A n \in 1 .. Len(warm) : warm[n] \in Entry
      BY <3>1, LenProperties
    <3> QED
      BY <3>2 DEF Entry
  <2>2. Lo(Wide) \in Nat /\ Hi(Wide) \in Nat /\ Lo(Wide) + 5 <= Hi(Wide) /\ Wide \in Ranges
    BY LadderAssumption DEF LadderAssumption, Ranges, Lo, Hi
  <2>3. ASSUME NEW n \in DOMAIN warm
        PROVE  WarmBand(warm[n]) \in Ranges /\ ~CoversWide(WarmBand(warm[n]))
    <3>1. PICK s \in Int : s = warm[n].scale
      BY <2>1, <2>2 DEF Scales
    <3>2. WarmBand(warm[n]) = <<s - 2, s + 2>>
      BY <3>1 DEF WarmBand
    <3>3. <<s - 2, s + 2>> \in Ranges /\ Lo(<<s - 2, s + 2>>) = s - 2 /\ Hi(<<s - 2, s + 2>>) = s + 2
      BY <3>1 DEF Ranges, Lo, Hi
    <3>4. ~(s - 2 <= Lo(Wide) /\ s + 2 >= Hi(Wide))
      BY <2>2, <3>1
    <3> QED
      BY <3>2, <3>3, <3>4 DEF CoversWide, Covers
  <2>4. guesses \in Seq(Ranges) /\ Len(guesses) = Len(warm)
    BY <2>1, <2>3
  <2>5. \A i \in 1 .. Len(guesses) : ~CoversWide(guesses[i])
    BY <2>1, <2>3, <2>4
  <2>6. Default \in Seq(Ranges) /\ <<Wide>> \in Seq(Ranges)
    <3>1. Default \in Seq(Bands)
      BY LadderAssumption DEF LadderAssumption
    <3> QED
      BY <1>1, <2>2, <3>1, SeqMonotonic
  <2> HIDE DEF guesses
  <2>7. all \in Seq(Ranges)
    BY <2>4, <2>6, ConcatProperties
  <2>8. Ladder = Retained(all)
    BY <1>3 DEF Ladder, guesses
  <2>9. /\ Retained(all) \in Seq(Ranges)
        /\ Len(Retained(all)) \in Nat \ {0}
        /\ CoversWide(Retained(all)[Len(Retained(all))])
    BY <2>4, <2>5, <2>7, LastIsWide
  <2> HIDE DEF all
  <2>10. ASSUME NEW band \in Ranges, CoversWide(band) PROVE Reaches(band)
    <3>1. band[1] \in Int /\ band[2] \in Int
      BY DEF Ranges, Lo, Hi
    <3> QED
      BY <2>2, <2>10, <3>1 DEF Reaches, CoversWide, Covers, InBand, Scales, Lo, Hi
  <2>11. Retained(all)[Len(Retained(all))] \in Ranges
    BY <2>9, ElementOfSeq
  <2>12. Retained(all) # <<>>
    BY <2>9, EmptySeq
  <2> QED
    BY <2>8, <2>9, <2>10, <2>11, <2>12
<1> QED
  BY <1>2, <1>3

\* One image after the other, the invariant holds.
LEMMA LadderInvariance == LadderSpec => []LadderInv
<1>1. LadderInit => LadderInv
  <2> SUFFICES ASSUME LadderInit PROVE LadderInv
    OBVIOUS
  <2>1. LadderTypeOK
    BY LadderAssumption, EmptySeq DEF LadderAssumption, LadderInit, LadderTypeOK
  <2> QED
    BY <2>1 DEF LadderInit, LadderInv, OneSlotPerRig, NoSolutionIsExhaustive
<1>2. LadderInv /\ [LadderNext]_ladderVars => LadderInv'
  <2> SUFFICES ASSUME LadderInv, [LadderNext]_ladderVars PROVE LadderInv'
    OBVIOUS
  <2>0. /\ LadderTypeOK /\ OneRigEach(warm) /\ warm \in Seq(Entry) /\ image \in Images
        /\ LadderAssumption
    BY LadderAssumption DEF LadderInv, OneSlotPerRig, OneRigEach, LadderTypeOK, Entry
  <2>1. CASE Begin
    <3>1. LadderTypeOK'
      BY <2>0, <2>1, EmptySeq DEF Begin, LadderTypeOK, LadderAssumption
    <3> QED
      BY <2>1, <3>1 DEF Begin, LadderInv, OneSlotPerRig, NoSolutionIsExhaustive
  \* What a solution leaves: the list as store_warm makes it, and an idle engine.
  <2>2. ASSUME NEW i \in DOMAIN Indexes, warm' = Stored(i), phase' = "idle",
               outcome' \in {"warm", "found"}, clock' \in Nat,
               UNCHANGED <<image, hint, bands, searched, solves>>
        PROVE  LadderInv'
    <3>1. Stored(i) \in Seq(Entry) /\ Len(Stored(i)) <= Slots /\ OneRigEach(Stored(i))
      BY <2>0, StoredFacts
    <3>2. LadderTypeOK'
      BY <2>0, <2>2, <3>1 DEF LadderTypeOK, Entry
    <3>3. OneSlotPerRig'
      BY <2>2, <3>1 DEF OneSlotPerRig, OneRigEach
    <3> QED
      BY <2>2, <3>2, <3>3 DEF LadderInv, NoSolutionIsExhaustive
  <2>3. CASE WarmHit
    <3> DEFINE i == warm[Min(WarmHits)].index
    <3>1. WarmHits \in SUBSET Nat /\ WarmHits # {} /\ WarmHits \subseteq DOMAIN warm
      <4>1. WarmHits \subseteq DOMAIN warm
        BY DEF WarmHits
      <4>2. DOMAIN warm \subseteq Nat
        BY <2>0, LenProperties
      <4> QED
        BY <2>3, <4>1, <4>2 DEF WarmHit
    <3>2. \E x \in WarmHits : \A y \in WarmHits : x <= y
      BY <3>1, LeastNatural
    <3>3. Min(WarmHits) \in WarmHits
      BY <3>2 DEF Min
    <3>4. warm[Min(WarmHits)] \in Entry
      BY <2>0, <3>1, <3>3, LenProperties
    <3>5. i \in DOMAIN Indexes
      BY <3>4 DEF Entry
    <3>6. /\ warm' = Stored(i) /\ phase' = "idle" /\ outcome' = "warm" /\ clock' \in Nat
          /\ UNCHANGED <<image, hint, bands, searched, solves>>
      BY <2>0, <2>3 DEF WarmHit, LadderTypeOK
    <3> HIDE DEF i
    <3> QED
      BY <2>2, <3>5, <3>6
  <2>4. CASE BuildLadder
    <3>1. Ladder \in Seq(Ranges) /\ Ladder # <<>> /\ Reaches(Ladder[Len(Ladder)])
      BY <2>0, LadderReaches
    <3>2. /\ bands' = Ladder /\ phase' = "ladder"
          /\ UNCHANGED <<warm, image, hint, clock, searched, outcome, solves>>
      BY <2>4 DEF BuildLadder
    <3>3. LadderTypeOK'
      BY <2>0, <3>1, <3>2 DEF LadderTypeOK
    <3>4. (bands # <<>> /\ Reaches(bands[Len(bands)]))'
      BY <3>1, <3>2 DEF Reaches
    <3>5. OneSlotPerRig' /\ NoSolutionIsExhaustive'
      BY <3>2 DEF LadderInv, OneSlotPerRig, NoSolutionIsExhaustive
    <3> QED
      BY <3>3, <3>4, <3>5 DEF LadderInv
  <2>5. CASE SearchFinds
    <3>1. PICK i \in DOMAIN Indexes : warm' = Stored(i)
      BY <2>5 DEF SearchFinds
    <3>2. /\ phase' = "idle" /\ outcome' = "found"
          /\ UNCHANGED <<image, hint, bands, searched, solves>>
          /\ clock' \in clock .. AttemptDeadline + 1
      BY <2>5 DEF SearchFinds
    <3>3. clock \in Nat /\ AttemptDeadline \in Int
      BY <2>0 DEF LadderTypeOK, LadderAssumption, AttemptDeadline, Min2
    <3>4. clock' \in Nat
      BY <3>2, <3>3
    <3> QED
      BY <2>2, <3>1, <3>2, <3>4
  \* A search without a solution. The last one that is not out of time was
  \* searched to the end.
  <2>6. ASSUME NEW t \in Nat, phase = "ladder", NextBand(t), searched \subseteq searched',
               Len(bands) = 1 /\ t <= Timeout => bands[1] \in searched'
        PROVE  LadderInv'
    <3>1. /\ bands \in Seq(Ranges) /\ bands # <<>> /\ Len(bands) \in Nat \ {0}
          /\ Reaches(bands[Len(bands)])
      BY <2>0, <2>6, EmptySeq DEF LadderInv, LadderTypeOK
    <3>2. /\ Tail(bands) \in Seq(Ranges) /\ Len(Tail(bands)) = Len(bands) - 1
          /\ \A i \in 1 .. Len(Tail(bands)) : Tail(bands)[i] = bands[i + 1]
      BY <3>1, HeadTailProperties
    <3>3. /\ clock' = t /\ bands' = Tail(bands) /\ UNCHANGED <<warm, image, hint, solves>>
          /\ \/ t <= Timeout /\ Len(bands) # 1 /\ phase' = "ladder" /\ outcome' = outcome
             \/ t > Timeout /\ phase' = "idle" /\ outcome' = "timeout"
             \/ t <= Timeout /\ Len(bands) = 1 /\ phase' = "idle" /\ outcome' = "none"
      BY <2>0, <2>6 DEF NextBand, LadderAssumption
    <3>4. LadderTypeOK'
      BY <2>0, <3>2, <3>3 DEF LadderTypeOK
    <3>5. OneSlotPerRig'
      BY <3>3 DEF LadderInv, OneSlotPerRig
    <3>6. NoSolutionIsExhaustive'
      <4>1. CASE outcome' = outcome
        BY <2>6, <3>3, <4>1 DEF LadderInv, NoSolutionIsExhaustive
      <4>2. CASE Len(bands) = 1 /\ t <= Timeout
        BY <2>6, <3>1, <3>3, <4>2 DEF Reaches, NoSolutionIsExhaustive
      <4> QED
        BY <3>3, <4>1, <4>2 DEF NoSolutionIsExhaustive
    <3>7. phase' = "ladder" => (bands # <<>> /\ Reaches(bands[Len(bands)]))'
      <4> SUFFICES ASSUME phase' = "ladder" PROVE (bands # <<>> /\ Reaches(bands[Len(bands)]))'
        OBVIOUS
      <4>1. Len(bands) # 1
        BY <3>3
      <4>2. PICK n \in Nat : n = Len(bands) - 1 /\ n >= 1 /\ n + 1 = Len(bands)
        <5>1. PICK k \in Nat \ {0} : k = Len(bands)
          BY <3>1
        <5>2. k - 1 \in Nat /\ k - 1 >= 1 /\ (k - 1) + 1 = k
          BY <4>1, <5>1
        <5> QED
          BY <5>1, <5>2
      <4>3. Len(Tail(bands)) = n /\ n \in 1 .. n
        BY <3>2, <4>2
      <4>4. Tail(bands)[n] = bands[n + 1]
        BY <3>2, <4>3
      <4>5. Tail(bands) # <<>>
        <5>1. Len(<<>>) = 0
          BY EmptySeq
        <5> QED
          BY <4>2, <4>3, <5>1
      <4>6. Tail(bands) # <<>> /\ Tail(bands)[Len(Tail(bands))] = bands[Len(bands)]
        BY <4>2, <4>3, <4>4, <4>5
      <4> QED
        BY <3>1, <3>3, <4>6 DEF Reaches
    <3> QED
      BY <3>4, <3>5, <3>6, <3>7 DEF LadderInv
  <2>7. /\ clock \in Nat /\ Timeout \in Nat /\ AttemptDeadline \in Nat
        /\ Len(bands) = 1 => AttemptDeadline = Timeout
    <3>1. clock \in Nat /\ Timeout \in Nat /\ Slice \in Nat
      BY <2>0 DEF LadderTypeOK, LadderAssumption
    <3>2. AttemptDeadline \in Nat
      BY <3>1 DEF AttemptDeadline, Min2
    <3>3. Len(bands) = 1 => AttemptDeadline = Timeout
      BY DEF AttemptDeadline
    <3> QED
      BY <3>1, <3>2, <3>3
  <2>8. phase = "ladder" => /\ bands \in Seq(Ranges) /\ bands # <<>> /\ Head(bands) = bands[1]
                            /\ Head(bands) \in Ranges
    BY <2>0, HeadTailProperties DEF LadderInv, LadderTypeOK
  <2>9. CASE SearchMisses
    <3>1. PICK e \in Efforts : NextBand(clock + e * Width(Head(bands)))
      BY <2>9 DEF SearchMisses
    <3>2. phase = "ladder" /\ searched' = searched \cup {Head(bands)}
      BY <2>9 DEF SearchMisses
    <3>3. clock + e * Width(Head(bands)) \in Nat
      <4>1. PICK lo \in Int, hi \in Int : Lo(Head(bands)) = lo /\ Hi(Head(bands)) = hi /\ lo <= hi
        BY <2>8, <3>2 DEF Ranges, Lo, Hi
      <4>2. PICK w \in Nat : w = Width(Head(bands))
        BY <4>1 DEF Width
      <4>3. e \in Nat /\ e * w \in Nat
        BY <2>0 DEF LadderAssumption
      <4> QED
        BY <2>7, <4>2, <4>3
    <3> QED
      BY <2>6, <2>8, <3>1, <3>2, <3>3
  <2>10. CASE SearchExpires
    <3>1. phase = "ladder" /\ UNCHANGED searched /\ NextBand(AttemptDeadline + 1)
      BY <2>10 DEF SearchExpires
    <3>2. AttemptDeadline + 1 \in Nat /\ ~(Len(bands) = 1 /\ AttemptDeadline + 1 <= Timeout)
      BY <2>7
    <3> QED
      BY <2>6, <3>1, <3>2
  <2>11. CASE UNCHANGED ladderVars
    BY <2>11 DEF ladderVars, LadderInv, LadderTypeOK, OneSlotPerRig, NoSolutionIsExhaustive, Reaches
  <2> QED
    BY <2>1, <2>3, <2>4, <2>5, <2>9, <2>10, <2>11 DEF LadderNext
<1> QED
  BY <1>1, <1>2, PTL DEF LadderSpec

\* One slot per rig (engine.rs, store_warm): whatever is solved in whatever
\* order, the warm list has no two entries of one rig.
THEOREM OneSlot == LadderSpec => []OneSlotPerRig
<1>1. LadderInv => OneSlotPerRig
  BY DEF LadderInv
<1> QED
  BY <1>1, LadderInvariance, PTL

\* A solve that ends with no solution has searched every scale the hint leaves
\* open to the end (engine.rs, solve_field), whatever was warm or configured,
\* and for any timeout, slice and set of index files.
THEOREM NothingUntried == LadderSpec => []NoSolutionIsExhaustive
<1>1. LadderInv => NoSolutionIsExhaustive
  BY DEF LadderInv
<1> QED
  BY <1>1, LadderInvariance, PTL

\* Every variable keeps its type and the warm list its slots.
THEOREM LadderTypes == LadderSpec => []LadderTypeOK
<1>1. LadderInv => LadderTypeOK
  BY DEF LadderInv
<1> QED
  BY <1>1, LadderInvariance, PTL
==============================================================================
