-------------------------------- MODULE Tasks --------------------------------
(***************************************************************************)
(* What the parts behind the API share: requests that run concurrently,    *)
(* each a sequence of transactions and exchanges with the outside; tasks   *)
(* they leave at the Redis broker; and Celery workers that take a task,    *)
(* acknowledge it when it is done and queue it again when it raises.       *)
(*                                                                         *)
(* The broker is a bag of messages: countdowns and competing workers put   *)
(* them in any order, and two messages may be equal.                       *)
(***************************************************************************)
EXTENDS Naturals, FiniteSets, Bags

CONSTANTS
  Requests,     \* concurrent API requests
  Workers,      \* Celery worker processes
  Retries,      \* max_retries of every task, 3 in the code
  None,
  Environments  \* the environments of this instance


(* An environment says which faults there are, which operations are asked  *)
(* for, which queues the worker consumes, and how the company starts.      *)
(* crash: a request or a worker dies.  refuse: something outside rejects   *)
(* a call or is not reached.  lost: it does what was asked and its answer  *)
(* does not arrive.  broker: the broker is not reached.  parallel: several *)
(* requests, and several tasks, are worked on at the same time; without it *)
(* one process serves all requests and one worker all tasks.  database: a  *)
(* commit fails; where nothing came before it nothing has happened.        *)
(* reread: a commit takes effect, and reading its row again fails.         *)
TaskFaults == {"crash", "refuse", "lost", "broker", "parallel", "database", "reread"}

(* How a task is routed: by its name, and sync_request_to_erpnext is not   *)
(* named after its module as the routes expect.  docker-compose.yml starts *)
(* a worker for ComposeQueues.                                             *)
QueueOf(task) ==
  CASE task = "sync" -> "celery"
    [] task = "confirm" -> "integrations"
    [] task = "process" -> "knowledge"
    [] task = "email" -> "notifications"
ComposeQueues == {"calls", "integrations", "notifications", "knowledge"}

CompanyStatus ==
  {"pending_verification", "trial", "active", "inactive", "suspended", "cancelled"}

ASSUME TasksAssumption ==
  Retries \in Nat /\ None \notin Requests \union CompanyStatus

VARIABLES
  env,      \* what happens around the system in this behaviour
  company,  \* the status of the company, None when there is no row
  req,      \* what each request is doing
  queue,    \* messages at the broker
  job       \* the task each worker has taken and not acknowledged, or None

taskVars == <<env, company, req, queue, job>>

TasksInit ==
  /\ env \in Environments
  /\ company = env.company
  /\ req = [q \in Requests |-> [op |-> "idle"]]
  /\ queue = EmptyBag
  /\ job = [w \in Workers |-> None]

-----------------------------------------------------------------------------
Idle == [op |-> "idle"]
Fault(f) == f \in env.faults
Suffers(faults) == env.faults \intersect faults # {}
Asked(op) == op \in env.operations
One(S) == CHOOSE x \in S : TRUE
Free(q) == req[q] = Idle /\ (Fault("parallel") \/ q = One(Requests))
At(q, op) == req[q].op = op
Become(q, doing) == req' = [req EXCEPT ![q] = doing]
Working(ops) == {q \in Requests : req[q].op \in ops}

(* delay() by an API request, which carries on when it fails.              *)
Message(task, of) == [task |-> task, of |-> of, tries |-> 0]
Queue(message) == queue' = queue (+) SetToBag({message})
Publish(task, of) ==
  \/ Queue(Message(task, of))
  \/ Fault("broker") /\ UNCHANGED queue

(* What an UPDATE leaves in a column of a row that was seen: a column set   *)
(* to what it was is not written.                                          *)
Written(now, seen, new) == IF new = seen THEN now ELSE new

-----------------------------------------------------------------------------
(* A worker's steps.  Of(w) is what its task is about.                     *)
Of(w) == job[w].of
InJob(w, task, at) == job[w] # None /\ job[w].task = task /\ job[w].at = at
Proceed(w, at) == job' = [job EXCEPT ![w].at = at]
Jobs(task) == {w \in Workers : job[w] # None /\ job[w].task = task}
Pending(task, of) == \E m \in BagToSet(queue) : m.task = task /\ m.of = of

Take(w) ==
  /\ job[w] = None
  /\ Fault("parallel") \/ w = One(Workers)
  /\ \E m \in BagToSet(queue) :
       /\ QueueOf(m.task) \in env.queues
       /\ queue' = queue (-) SetToBag({m})
       /\ job' = [job EXCEPT ![w] = [task |-> m.task, of |-> m.of, tries |-> m.tries,
                                     at |-> "start", saw |-> None]]

Finish(w) == job' = [job EXCEPT ![w] = None] /\ UNCHANGED queue

(* self.retry publishes the task again, unless it has used up its retries  *)
(* or the broker is not reached; either way this message is done with.     *)
Again(w) == [task |-> job[w].task, of |-> Of(w), tries |-> job[w].tries + 1]
MutantTryAgain(w) ==
  /\ job' = [job EXCEPT ![w] = None]
  /\ \/ job[w].tries <= Retries /\ Queue(Again(w))
     \/ Fault("broker") /\ UNCHANGED queue

TryAgain(w) ==
  /\ job' = [job EXCEPT ![w] = None]
  /\ \/ job[w].tries < Retries /\ Queue(Again(w))
     \/ (job[w].tries = Retries \/ Fault("broker")) /\ UNCHANGED queue

(* A worker that dies may lose its task: it is acknowledged late, but the  *)
(* death of a child process alone acknowledges it.                         *)
WorkerDies(w) ==
  /\ Fault("crash") /\ job[w] # None
  /\ job' = [job EXCEPT ![w] = None]
  /\ \/ Queue([task |-> job[w].task, of |-> Of(w), tries |-> job[w].tries])
     \/ UNCHANGED queue

RequestDies(q) == Fault("crash") /\ req[q] # Idle /\ Become(q, Idle)
=============================================================================
