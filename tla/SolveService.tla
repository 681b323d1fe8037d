---------------------------- MODULE SolveService ----------------------------
(***************************************************************************)
(* The solve service of fl-server: the job store (store.rs), the bounded   *)
(* channel and its single worker thread (worker.rs), and the HTTP handlers *)
(* that put jobs in and wait for them (solve.rs, v1.rs, nova.rs).          *)
(*                                                                         *)
(* Handlers run concurrently and synchronise only on the id counter, the   *)
(* two maps' locks and the channel, so a handler is one action per atomic  *)
(* operation of those.  Between two sleeps of await_job a handler has no   *)
(* await point: a client that disconnects can cut it short only there.     *)
(***************************************************************************)
EXTENDS Naturals, Sequences, FiniteSets

CONSTANTS
  V1,         \* requests to POST /api/v1/solve: the handler waits for the job
  Nova,       \* requests to POST /api/upload: answered at once, then polled
  Capacity    \* bound of the channel, sync_channel(8) in worker.rs

ASSUME ServiceAssumption ==
  /\ V1 \cap Nova = {}
  /\ Capacity \in Nat \ {0}

Requests == V1 \cup Nova

VARIABLES
  next,     \* Store.next, the counter behind every submission and job id
  subs,     \* Store.subs: submission id -> job id
  jobs,     \* Store.jobs: job id -> status; "full" is the queue-full Failure
  queue,    \* the channel's buffered tasks, by job id
  worker,   \* "idle" in recv, "solving", or "dead" after a panic
  task,     \* the job the worker is solving, 0 if none
  pc,       \* pc[r]: where the handler (later the nova client) of r is
  sub,      \* sub[r], job[r]: the ids the handler of r drew
  job,
  seen,     \* seen[r]: the job id the nova client of r read from its submission
  told      \* told[r]: the answer the client of r has

vars == <<next, subs, jobs, queue, worker, task, pc, sub, job, seen, told>>
store == <<next, subs, jobs>>
channel == <<queue, worker, task>>
local == <<sub, job, seen>>

Statuses == {"solving", "success", "failure", "full"}
Labels == {"form", "sub_id", "job_id", "sub_in", "job_in", "full",
           "await", "acked", "polled", "done"}
Answers == {"nothing", "bad_request", "busy", "success", "failure",
            "timeout", "left", "missing"}

\* HashMap::insert.
Insert(map, key, value) ==
  [k \in DOMAIN map \cup {key} |-> IF k = key THEN value ELSE map[k]]

Goto(r, label) == pc' = [pc EXCEPT ![r] = label]

Tell(r, answer) == told' = [told EXCEPT ![r] = answer]

Init ==
  /\ next = 0
  /\ subs = <<>>
  /\ jobs = <<>>
  /\ queue = <<>>
  /\ worker = "idle"
  /\ task = 0
  /\ pc = [r \in Requests |-> "form"]
  /\ sub = [r \in Requests |-> 0]
  /\ job = [r \in Requests |-> 0]
  /\ seen = [r \in Requests |-> 0]
  /\ told = [r \in Requests |-> "nothing"]

-----------------------------------------------------------------------------
(* Handlers: validate, create the submission and the job, enqueue.          *)

\* The form is unreadable, has no file, or its observer or hints are refused:
\* every one of these checks comes before the store is touched.
Refuse(r) ==
  /\ pc[r] = "form"
  /\ Goto(r, "done")
  /\ Tell(r, "bad_request")
  /\ UNCHANGED <<store, channel, local>>

\* Store::create, first fetch_add.
DrawSubId(r) ==
  /\ pc[r] = "form"
  /\ next' = next + 1
  /\ sub' = [sub EXCEPT ![r] = next + 1]
  /\ Goto(r, "sub_id")
  /\ UNCHANGED <<subs, jobs, channel, job, seen, told>>

\* A job id taken from the value before the add, as fetch_add returns it.
MutDrawJobIdWithoutIncrement(r) ==
  /\ pc[r] = "sub_id"
  /\ next' = next + 1
  /\ job' = [job EXCEPT ![r] = next]
  /\ Goto(r, "job_id")
  /\ UNCHANGED <<subs, jobs, channel, sub, seen, told>>

\* Store::create, second fetch_add; another request may have drawn in between.
DrawJobId(r) ==
  /\ pc[r] = "sub_id"
  /\ next' = next + 1
  /\ job' = [job EXCEPT ![r] = next + 1]
  /\ Goto(r, "job_id")
  /\ UNCHANGED <<subs, jobs, channel, sub, seen, told>>

\* Store::create, under the write lock of subs, released before the next.
InsertSub(r) ==
  /\ pc[r] = "job_id"
  /\ subs' = Insert(subs, sub[r], job[r])
  /\ Goto(r, "sub_in")
  /\ UNCHANGED <<next, jobs, channel, local, told>>

\* Store::create, under the write lock of jobs.
InsertJob(r) ==
  /\ pc[r] = "sub_in"
  /\ jobs' = Insert(jobs, job[r], "solving")
  /\ Goto(r, "job_in")
  /\ UNCHANGED <<next, subs, channel, local, told>>

\* What the handler does once its task is in the channel: v1 waits for the
\* job, nova's upload answers with the submission id.
Accepted(r) == IF r \in V1 THEN "await" ELSE "acked"

\* enqueue: try_send finds the worker's receiver alive and room in the buffer.
TrySend(r) ==
  /\ pc[r] = "job_in"
  /\ worker # "dead"
  /\ Len(queue) < Capacity
  /\ queue' = Append(queue, job[r])
  /\ Goto(r, Accepted(r))
  /\ UNCHANGED <<store, worker, task, local, told>>

\* enqueue: try_send returns Full or Disconnected; both are is_err().
SendFails(r) ==
  /\ pc[r] = "job_in"
  /\ worker = "dead" \/ Len(queue) >= Capacity
  /\ Goto(r, "full")
  /\ UNCHANGED <<store, channel, local, told>>

\* Answers 503 and leaves the job as it was created.
MutTurnAwayWithoutFinish(r) ==
  /\ pc[r] = "full"
  /\ Goto(r, "done")
  /\ Tell(r, "busy")
  /\ UNCHANGED <<store, channel, local>>

\* enqueue: the failed send is recorded on the job, then answered with 503.
TurnAway(r) ==
  /\ pc[r] = "full"
  /\ jobs' = [jobs EXCEPT ![job[r]] = "full"]
  /\ Goto(r, "done")
  /\ Tell(r, "busy")
  /\ UNCHANGED <<next, subs, channel, local>>

-----------------------------------------------------------------------------
(* Waiting: await_job's loop for v1, submission and job polls for nova.     *)

\* A reader that takes any finished job for a solved one.
MutReportFinishedAsSolved(j) ==
  IF j \notin DOMAIN jobs THEN "missing"
  ELSE IF jobs[j] = "solving" THEN "nothing" ELSE "success"

\* What a reader of Store::job makes of the entry of job j.
Report(j) ==
  IF j \notin DOMAIN jobs THEN "missing"
  ELSE CASE jobs[j] = "solving" -> "nothing"
         [] jobs[j] = "success" -> "success"
         [] OTHER -> "failure"

\* await_job finds the job finished (or vanished) and returns.
AwaitReturns(r) ==
  /\ pc[r] = "await"
  /\ Report(job[r]) # "nothing"
  /\ Goto(r, "done")
  /\ Tell(r, Report(job[r]))
  /\ UNCHANGED <<store, channel, local>>

\* A wait that gives up only while the worker lives.
MutAwaitTimesOutOnlyAlive(r) ==
  /\ pc[r] = "await"
  /\ worker # "dead"
  /\ Report(job[r]) = "nothing"
  /\ Goto(r, "done")
  /\ Tell(r, "timeout")
  /\ UNCHANGED <<store, channel, local>>

\* A wait that records its own timeout on the job.
MutAwaitTimesOutFailsJob(r) ==
  /\ pc[r] = "await"
  /\ Report(job[r]) = "nothing"
  /\ jobs' = [jobs EXCEPT ![job[r]] = "failure"]
  /\ Goto(r, "done")
  /\ Tell(r, "timeout")
  /\ UNCHANGED <<next, subs, channel, local>>

\* await_job finds the job still solving after its deadline: 504.  The clock
\* is abstracted: the deadline may have passed at any poll.
AwaitTimesOut(r) ==
  /\ pc[r] = "await"
  /\ Report(job[r]) = "nothing"
  /\ Goto(r, "done")
  /\ Tell(r, "timeout")
  /\ UNCHANGED <<store, channel, local>>

\* The client disconnects and axum drops the handler at its sleep; the task
\* stays in the channel.
Disconnect(r) ==
  /\ pc[r] = "await"
  /\ Goto(r, "done")
  /\ Tell(r, "left")
  /\ UNCHANGED <<store, channel, local>>

\* submission_status, first read: the submission of the acknowledged id.
PollSubmission(r) ==
  /\ pc[r] = "acked"
  /\ LET found == sub[r] \in DOMAIN subs IN
       /\ seen' = IF found THEN [seen EXCEPT ![r] = subs[sub[r]]] ELSE seen
       /\ Goto(r, IF found THEN "polled" ELSE "done")
       /\ Tell(r, IF found THEN "nothing" ELSE "missing")
  /\ UNCHANGED <<store, channel, sub, job>>

\* submission_status, second read, and job_status: the job the submission names.
PollJob(r) ==
  /\ pc[r] = "polled"
  /\ Tell(r, Report(seen[r]))
  /\ Goto(r, IF Report(seen[r]) = "nothing" THEN "acked" ELSE "done")
  /\ UNCHANGED <<store, channel, local>>

-----------------------------------------------------------------------------
(* The worker thread.                                                       *)

\* Waits until two tasks are buffered.
MutRecvLeavesLast ==
  /\ worker = "idle"
  /\ Len(queue) > 1
  /\ task' = Head(queue)
  /\ queue' = Tail(queue)
  /\ worker' = "solving"
  /\ UNCHANGED <<store, pc, local, told>>

\* rx.recv() hands over the oldest task.
Recv ==
  /\ worker = "idle"
  /\ queue # <<>>
  /\ task' = Head(queue)
  /\ queue' = Tail(queue)
  /\ worker' = "solving"
  /\ UNCHANGED <<store, pc, local, told>>

\* solve_image returns; Store::finish overwrites whatever status is there,
\* and does nothing for a job that is not in the map.
Finish ==
  /\ worker = "solving"
  /\ \E s \in {"success", "failure"} :
       jobs' = IF task \in DOMAIN jobs THEN [jobs EXCEPT ![task] = s] ELSE jobs
  /\ worker' = "idle"
  /\ task' = 0
  /\ UNCHANGED <<next, subs, queue, pc, local, told>>

\* solve_image panics (it has reachable panics, kdtree.rs:335 among them, and
\* nothing catches them): the thread unwinds, the receiver and every task
\* still buffered are dropped, and the job being solved keeps its status.
Panic ==
  /\ worker = "solving"
  /\ worker' = "dead"
  /\ task' = 0
  /\ queue' = <<>>
  /\ UNCHANGED <<store, pc, local, told>>

-----------------------------------------------------------------------------
Create(r) == DrawSubId(r) \/ DrawJobId(r) \/ InsertSub(r) \/ InsertJob(r)
Enqueue(r) == TrySend(r) \/ SendFails(r) \/ TurnAway(r)
Await(r) == AwaitReturns(r) \/ AwaitTimesOut(r)
Poll(r) == PollSubmission(r) \/ PollJob(r)

Next ==
  \/ \E r \in Requests : Refuse(r) \/ Create(r) \/ Enqueue(r)
  \/ \E r \in V1 : Await(r) \/ Disconnect(r)
  \/ \E r \in Nova : Poll(r)
  \/ Recv \/ Finish \/ Panic

Spec == Init /\ [][Next]_vars

(* A handler that has started keeps running (tokio polls it; await_job's     *)
(* deadline is a clock), and so does the worker: recv wakes for a task and   *)
(* solve_image returns, its own deadline being checked between candidates.   *)
(* Clients are not fair: a request need not come, nova's client need not     *)
(* poll.                                                                     *)
Fairness ==
  /\ \A r \in Requests : /\ WF_vars(pc[r] # "form" /\ Create(r))
                         /\ WF_vars(Enqueue(r))
  /\ \A r \in V1 : WF_vars(Await(r))
  /\ WF_vars(Recv)
  /\ WF_vars(Finish)

FairSpec == Spec /\ Fairness

-----------------------------------------------------------------------------
(* Properties.                                                              *)

StoreType ==
  /\ next \in Nat
  /\ subs \in [DOMAIN subs -> Nat] /\ DOMAIN subs \subseteq Nat
  /\ jobs \in [DOMAIN jobs -> Statuses] /\ DOMAIN jobs \subseteq Nat

ChannelType ==
  /\ queue \in Seq(Nat)
  /\ Len(queue) <= Capacity
  /\ worker \in {"idle", "solving", "dead"}
  /\ task \in Nat

HandlerType ==
  /\ pc \in [Requests -> Labels]
  /\ sub \in [Requests -> Nat]
  /\ job \in [Requests -> Nat]
  /\ seen \in [Requests -> Nat]
  /\ told \in [Requests -> Answers]

\* Every variable has its type, and the channel never holds more than its
\* bound (sync_channel(8), worker.rs:27).
TypeOK == StoreType /\ ChannelType /\ HandlerType

\* Submissions and jobs share one counter that concurrent uploads draw from
\* in any order (store.rs, create): no id is ever given out twice, neither to
\* two requests nor as both a submission and a job.
IdsNeverShared ==
  \A q, r \in Requests :
    /\ sub[q] # 0 => sub[q] # job[r]
    /\ sub[q] # 0 /\ sub[q] = sub[r] => q = r
    /\ job[q] # 0 /\ job[q] = job[r] => q = r

Buffered(q) == {q[i] : i \in DOMAIN q}

\* The jobs whose task is in the channel or with the worker.
Held == Buffered(queue) \cup ({task} \ {0})

\* A job is recorded as solving exactly while somebody still owes it an
\* outcome: the handler about to send it or to record the failed send
\* (solve.rs, enqueue), or the channel and the worker.  Only the death of the
\* worker thread breaks this: its jobs stay solving.
NoJobLost ==
  \A r \in Requests :
    /\ job[r] \in Held => job[r] \in DOMAIN jobs /\ jobs[job[r]] = "solving"
    /\ job[r] \in DOMAIN jobs /\ jobs[job[r]] = "solving" =>
         \/ pc[r] \in {"job_in", "full"}
         \/ job[r] \in Held
         \/ worker = "dead"

\* What a client is told is what the store says and will go on saying, over
\* both APIs: a reported success or failure is the job's status, a 503 left a
\* job recorded as failed by the queue, and an id the server gave out is
\* always found, submission and job (v1.rs solve, nova.rs upload and
\* submission_status, solve.rs await_job and its "job vanished").
AnswerIsTrue ==
  \A r \in Requests :
    /\ told[r] = "success" => jobs[job[r]] = "success"
    /\ told[r] = "failure" => jobs[job[r]] = "failure"
    /\ told[r] = "busy" => jobs[job[r]] = "full"
    /\ told[r] # "missing"

\* Store::finish overwrites any status, yet no outcome is ever overwritten: a
\* job the queue refused is never solved, and a solved one never changes.
OutcomeIsFinal ==
  [][\A j \in DOMAIN jobs : jobs[j] # "solving" =>
       j \in DOMAIN jobs' /\ jobs'[j] = jobs[j]]_vars

\* A task accepted by the channel gets its outcome, whether or not its client
\* still waits, unless the worker thread has died.
AcceptedJobsFinish ==
  \A r \in Requests :
    pc[r] \in {"await", "acked"} ~>
      worker = "dead" \/ Report(job[r]) \in {"success", "failure"}

\* A client that waits on /api/v1/solve is answered, even when the worker has
\* died with its job: await_job's deadline does not depend on the worker.
WaitingClientsAnswered == \A r \in V1 : pc[r] = "sub_id" ~> told[r] # "nothing"

\* The outcome of a request, as a client can observe it in the store.
Outcome == [r \in Requests |->
  IF job[r] \notin DOMAIN jobs THEN "none"
  ELSE IF jobs[job[r]] = "full" THEN "failure" ELSE jobs[job[r]]]

Promise == INSTANCE SolvePromise WITH outcome <- Outcome

\* The service implements the promise made to each request.
KeepsPromise == Promise!Spec
=============================================================================
