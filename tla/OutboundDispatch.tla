--------------------------- MODULE OutboundDispatch ---------------------------
(***************************************************************************)
(* Outbound calling of one company while its campaigns are being dialled:  *)
(* the Celery worker that reserves recipients and originates their calls,  *)
(* the API handlers that apply provider events, Celery Beat, the users who *)
(* start, pause or cancel campaigns, and the provider placing the calls.   *)
(*                                                                         *)
(* Each action is one database transaction or one call to the provider.    *)
(* What a task or request read in an earlier transaction and still uses is *)
(* kept in its own variable, because SQLAlchemy sessions here neither lock *)
(* nor refresh the rows they have loaded (expire_on_commit is off).        *)
(***************************************************************************)
EXTENDS Naturals, FiniteSets

CONSTANTS
  Campaigns, Recipients, Phones,
  CampaignOf,       \* the campaign whose contact list a recipient row is in
  PhoneOf,          \* the recipient's number, shared by rows of several campaigns
  UnknownZone,      \* recipients whose timezone ZoneInfo may fail to resolve
  Workers,          \* concurrent Celery worker processes
  Handlers,         \* concurrent POST /outbound/events requests
  Users,            \* concurrent requests of company administrators
  MaxConcurrency,   \* campaign.max_concurrency
  CompanyCap,       \* OUTBOUND_MAX_CONCURRENCY_PER_COMPANY
  MaxAttempts,      \* campaign.max_attempts
  AttemptBound,     \* bound of the model: no environment allows more attempts
  Environments      \* the environments of this instance, see Environment

CampaignStatus == {"draft", "ready", "scheduled", "running",
                   "paused", "completed", "cancelled", "failed"}
RecipientStatus == {"pending", "queued", "dialing", "ringing", "answered",
                    "completed", "busy", "no_answer", "failed", "cancelled",
                    "do_not_call"}
CallStatus == {"initiated", "in_progress", "completed", "missed", "failed"}

ActiveStates == {"queued", "dialing", "ringing", "answered"}
Remaining == ActiveStates \union {"pending"}
Retryable == {"busy", "no_answer", "failed"}
Terminal == Retryable \union {"completed", "cancelled", "do_not_call"}
Progress == {"ringing", "answered"}

(* crash: a worker or an API process dies between two transactions.        *)
(* refuse: originate_outbound fails and no call was placed; timeout: it    *)
(* fails although the call was placed.  overtake: an event arrives before  *)
(* the worker has stored the answer to its originate request.  reorder and *)
(* duplicate: events of one call are handled out of order, or twice.       *)
(* window: a recipient is outside its calling window.  minutes: the        *)
(* entitlement check fails.  disconnect: the campaign's phone number has   *)
(* lost its connection.  zone: ZoneInfo cannot resolve some timezones.     *)
(* parallel: several worker processes dispatch at the same time.           *)
Behaviours == {"crash", "refuse", "timeout", "overtake", "reorder", "duplicate",
               "window", "minutes", "disconnect", "zone", "parallel"}

CampaignOps == {"start", "schedule", "pause", "resume", "cancel"}

(* What happens around the system in one behaviour: what goes wrong, what  *)
(* users request, which statuses the provider reports, the contacts that   *)
(* were not suppressed when they were imported, and the bound on attempts. *)
Environment ==
  [faults : SUBSET Behaviours,
   requests : SUBSET (CampaignOps \union {"add_dnc", "delete_dnc"}),
   reports : SUBSET (Progress \union Terminal),
   contacts : SUBSET Recipients,
   attempts : Nat]

ASSUME ConstantsAssumption ==
  /\ IsFiniteSet(Recipients) /\ IsFiniteSet(Workers)
  /\ CampaignOf \in [Recipients -> Campaigns]
  /\ PhoneOf \in [Recipients -> Phones]
  /\ UnknownZone \subseteq Recipients
  /\ MaxConcurrency \in [Campaigns -> Nat]
  /\ CompanyCap \in Nat
  /\ MaxAttempts \in Nat \ {0}
  /\ AttemptBound \in Nat
  /\ Environments \subseteq Environment

(* An attempt is named by its recipient and its attempt_number, the pair   *)
(* that uq_outbound_attempt_recipient_number makes unique.                 *)
Attempts == Recipients \X (1..AttemptBound)
Event == [attempt : Attempts, status : Progress \union Terminal]

(* What apply_event has loaded when it computes its changes.               *)
Loaded == [event : Event, recipient : RecipientStatus, count : Nat,
           campaign : CampaignStatus, attempt : RecipientStatus \union {"none"},
           listed : BOOLEAN]
Request == [op : CampaignOps, campaign : Campaigns, seen : CampaignStatus]

VARIABLES
  env,             \* the environment, chosen at first and never changed
  \* rows of the database
  campaignStatus, recipientStatus, attemptsCount,
  due,             \* next_attempt_at is empty or has passed
  attemptStatus,   \* "none" where no row exists
  callStatus,      \* status of the attempt's Call row
  dnc,             \* phone numbers on the do-not-call list
  \* the Celery queue: campaigns with a dispatch_campaign message
  tasks,
  \* a worker inside _dispatch_campaign
  slots,           \* free slots it counted, before it reserves recipients
  jobs,            \* attempts it reserved and has not originated yet
  placed, failed,  \* the attempt whose outcome it has not committed yet
  \* Celery Beat inside _dispatch_due
  beat, promoting,
  \* requests being served
  loaded,          \* apply_event, before its first commit
  settling,        \* apply_event, before it counts what remains
  completing,      \* apply_event, before it writes COMPLETED
  decided,         \* a user request that read the campaign it will write
  \* the provider and the events it has posted
  provider, events

database == <<campaignStatus, recipientStatus, attemptsCount, due,
              attemptStatus, callStatus, dnc>>
workerVars == <<slots, jobs, placed, failed>>
beatVars == <<beat, promoting>>
handlerVars == <<loaded, settling, completing>>
callVars == <<provider, events>>
vars == <<env, database, tasks, workerVars, beatVars, handlerVars, decided, callVars>>

-----------------------------------------------------------------------------
RecipientsOf(c) == {r \in Recipients : CampaignOf[r] = c}
Active(rs) == {r \in rs : recipientStatus[r] \in ActiveStates}

(* Definitions named Mutant... are plausible bugs; no definition uses them.*)
MutantReusedAttempt(r) == <<r, 1>>
NextAttempt(r) == <<r, attemptsCount[r] + 1>>

MutantFreeOf(cap, used) == cap - used
FreeOf(cap, used) == IF used < cap THEN cap - used ELSE 0
Least(m, n) == IF m < n THEN m ELSE n

MutantFreeSlots(c) == FreeOf(MaxConcurrency[c], Cardinality(Active(RecipientsOf(c))))
FreeSlots(c) ==
  Least(FreeOf(MaxConcurrency[c], Cardinality(Active(RecipientsOf(c)))),
        FreeOf(CompanyCap, Cardinality(Active(Recipients))))

NoSlots == [c \in Campaigns |-> 0]
IdleWorker(w) ==
  /\ slots[w] = NoSlots
  /\ jobs[w] = {} /\ placed[w] = {} /\ failed[w] = {}
IdleHandler(h) == loaded[h] = {} /\ settling[h] = {} /\ completing[h] = {}

(* CampaignService.validate: a campaign is callable when some recipient is *)
(* not suppressed; its audio is taken to be ready.                         *)
Callable(c) == \E r \in RecipientsOf(c) : recipientStatus[r] # "do_not_call"

(* Contacts were imported: every row is PENDING or suppressed.  Some of    *)
(* the campaigns have been started, their first dispatch is queued.        *)
Init ==
  /\ env \in Environments
  /\ recipientStatus \in [Recipients -> {"pending", "do_not_call"}]
  /\ \A r \in Recipients \ env.contacts : recipientStatus[r] = "do_not_call"
  /\ \E started \in SUBSET {c \in Campaigns : Callable(c)} :
       /\ campaignStatus = [c \in Campaigns |->
                              IF c \in started THEN "running" ELSE "ready"]
       /\ tasks = started
  /\ attemptsCount = [r \in Recipients |-> 0]
  /\ due = [r \in Recipients |-> TRUE]
  /\ attemptStatus = [a \in Attempts |-> "none"]
  /\ callStatus = [a \in Attempts |-> "none"]
  /\ dnc = {}
  /\ slots = [w \in Workers |-> NoSlots]
  /\ jobs = [w \in Workers |-> {}]
  /\ placed = [w \in Workers |-> {}]
  /\ failed = [w \in Workers |-> {}]
  /\ beat = "idle" /\ promoting = {}
  /\ loaded = [h \in Handlers |-> {}]
  /\ settling = [h \in Handlers |-> {}]
  /\ completing = [h \in Handlers |-> {}]
  /\ decided = [u \in Users |-> {}]
  /\ provider = [a \in Attempts |-> "idle"]
  /\ events = {}

-----------------------------------------------------------------------------
(* dispatch_campaign: the worker                                           *)

(* It takes a message and counts the free slots; nothing is locked yet.    *)
DispatchRead(w, c) ==
  /\ IdleWorker(w)
  /\ "parallel" \in env.faults \/ \A v \in Workers : IdleWorker(v)
  /\ c \in tasks
  /\ tasks' = tasks \ {c}
  /\ slots' = [slots EXCEPT ![w][c] =
                 IF campaignStatus[c] = "running" THEN FreeSlots(c) ELSE 0]
  /\ UNCHANGED <<env, database, jobs, placed, failed, beatVars, handlerVars,
                 decided, callVars>>

(* One step at a time under the subscription lock, which is taken here     *)
(* and held to the commit.                                                 *)
DispatchPause(w, c) ==
  /\ "minutes" \in env.faults
  /\ slots[w][c] > 0
  /\ slots' = [slots EXCEPT ![w][c] = 0]
  /\ campaignStatus' = [campaignStatus EXCEPT ![c] = "paused"]
  /\ UNCHANGED <<env, recipientStatus, attemptsCount, due, attemptStatus, callStatus,
                 dnc, tasks, jobs, placed, failed, beatVars, handlerVars,
                 decided, callVars>>

MutantCandidatesQueued(c) ==
  {r \in RecipientsOf(c) : /\ recipientStatus[r] \in {"pending", "queued"}
                           /\ attemptsCount[r] < AttemptBound
                           /\ attemptsCount[r] < env.attempts}
MutantCandidatesFirst(c) ==
  {r \in RecipientsOf(c) : recipientStatus[r] = "pending" /\ attemptsCount[r] = 0}
Candidates(c) ==
  {r \in RecipientsOf(c) : /\ recipientStatus[r] = "pending"
                           /\ due[r]
                           /\ attemptsCount[r] < AttemptBound
                           /\ attemptsCount[r] < env.attempts}

Unresolved == IF "zone" \in env.faults THEN UnknownZone ELSE {}

(* The scan of the candidates: those with an unknown timezone fail, those  *)
(* outside their window are deferred, and it stops when the slots are full *)
(* or 5 candidates per slot have been looked at.                           *)
MutantScan(c, free, scanned, taken) ==
  taken = scanned \ Unresolved /\ scanned = Candidates(c)
Scan(c, free, scanned, taken) ==
  /\ taken \subseteq scanned \ Unresolved
  /\ Cardinality(taken) <= free
  /\ Cardinality(scanned) <= 5 * free
  /\ \/ Cardinality(taken) = free
     \/ scanned = Candidates(c)
     \/ Cardinality(scanned) = 5 * free
  /\ "window" \in env.faults \/ scanned \subseteq taken \union Unresolved

Deferred(scanned, taken) ==
  due' = [r \in Recipients |-> due[r] /\ r \notin scanned \ (taken \union Unresolved)]

(* The reservation: attempts_count, QUEUED, the attempt and its call.      *)
DispatchQueue(w, c) ==
  /\ slots[w][c] > 0
  /\ \E scanned \in SUBSET Candidates(c) : \E taken \in SUBSET scanned :
       LET made == {NextAttempt(r) : r \in taken} IN
       /\ Scan(c, slots[w][c], scanned, taken)
       /\ Deferred(scanned, taken)
       /\ attemptsCount' = [r \in Recipients |->
            IF r \in taken THEN attemptsCount[r] + 1 ELSE attemptsCount[r]]
       /\ recipientStatus' = [r \in Recipients |->
            IF r \in taken THEN "queued"
            ELSE IF r \in scanned \intersect Unresolved THEN "failed"
            ELSE recipientStatus[r]]
       /\ attemptStatus' = [a \in Attempts |->
            IF a \in made THEN "queued" ELSE attemptStatus[a]]
       /\ callStatus' = [a \in Attempts |->
            IF a \in made THEN "initiated" ELSE callStatus[a]]
       /\ jobs' = [jobs EXCEPT ![w] = made]
  /\ slots' = [slots EXCEPT ![w][c] = 0]
  /\ UNCHANGED <<env, campaignStatus, dnc, tasks, placed, failed, beatVars,
                 handlerVars, decided, callVars>>

(* The phone number has no connection: what the scan changed is committed  *)
(* together with the campaign's failure.                                   *)
DispatchFail(w, c) ==
  /\ "disconnect" \in env.faults
  /\ slots[w][c] > 0
  /\ \E scanned \in SUBSET Candidates(c) : \E taken \in SUBSET scanned :
       /\ Scan(c, slots[w][c], scanned, taken)
       /\ Deferred(scanned, taken)
       /\ recipientStatus' = [r \in Recipients |->
            IF r \in scanned \intersect Unresolved THEN "failed"
            ELSE recipientStatus[r]]
  /\ slots' = [slots EXCEPT ![w][c] = 0]
  /\ campaignStatus' = [campaignStatus EXCEPT ![c] = "failed"]
  /\ UNCHANGED <<env, attemptsCount, attemptStatus, callStatus, dnc, tasks, jobs,
                 placed, failed, beatVars, handlerVars, decided, callVars>>

(* The request to the provider, which may fail with or without a call.     *)
Originate(w, a) ==
  /\ a \in jobs[w] /\ placed[w] = {} /\ failed[w] = {}
  /\ jobs' = [jobs EXCEPT ![w] = @ \ {a}]
  /\ \/ /\ placed' = [placed EXCEPT ![w] = {a}]
        /\ provider' = [provider EXCEPT ![a] = "dialing"]
        /\ UNCHANGED failed
     \/ /\ "timeout" \in env.faults
        /\ failed' = [failed EXCEPT ![w] = {a}]
        /\ provider' = [provider EXCEPT ![a] = "dialing"]
        /\ UNCHANGED placed
     \/ /\ "refuse" \in env.faults
        /\ failed' = [failed EXCEPT ![w] = {a}]
        /\ UNCHANGED <<placed, provider>>
  /\ UNCHANGED <<env, database, tasks, slots, beatVars, handlerVars, decided, events>>

RecordDialing(w, a) ==
  /\ a \in placed[w]
  /\ placed' = [placed EXCEPT ![w] = {}]
  /\ recipientStatus' = [recipientStatus EXCEPT ![a[1]] = "dialing"]
  /\ attemptStatus' = [attemptStatus EXCEPT ![a] = "dialing"]
  /\ UNCHANGED <<env, campaignStatus, attemptsCount, due, callStatus, dnc, tasks,
                 slots, jobs, failed, beatVars, handlerVars, decided, callVars>>

(* The session still holds the attempts_count it wrote when it queued the  *)
(* recipient, which is the attempt's number.                               *)
MutantRefused(a) == IF a[2] < MaxAttempts THEN "pending" ELSE recipientStatus[a[1]]
Refused(a) == IF a[2] < MaxAttempts THEN "pending" ELSE "failed"

RecordFailure(w, a) ==
  /\ a \in failed[w]
  /\ failed' = [failed EXCEPT ![w] = {}]
  /\ recipientStatus' = [recipientStatus EXCEPT ![a[1]] = Refused(a)]
  /\ due' = [due EXCEPT ![a[1]] = @ /\ Refused(a) # "pending"]
  /\ attemptStatus' = [attemptStatus EXCEPT ![a] = "failed"]
  /\ callStatus' = [callStatus EXCEPT ![a] = "failed"]
  /\ UNCHANGED <<env, campaignStatus, attemptsCount, dnc, tasks, slots, jobs, placed,
                 beatVars, handlerVars, decided, callVars>>

(* The process dies.  Its message is acknowledged late, so the broker may  *)
(* deliver it again; what the process held in memory is gone.              *)
CampaignsOf(w) ==
  {c \in Campaigns : slots[w][c] > 0}
    \union {CampaignOf[a[1]] : a \in jobs[w] \union placed[w] \union failed[w]}

WorkerCrash(w) ==
  /\ "crash" \in env.faults
  /\ ~IdleWorker(w)
  /\ \E redelivered \in SUBSET CampaignsOf(w) : tasks' = tasks \union redelivered
  /\ slots' = [slots EXCEPT ![w] = NoSlots]
  /\ jobs' = [jobs EXCEPT ![w] = {}]
  /\ placed' = [placed EXCEPT ![w] = {}]
  /\ failed' = [failed EXCEPT ![w] = {}]
  /\ UNCHANGED <<env, database, beatVars, handlerVars, decided, callVars>>

WorkerStep(w) ==
  \/ \E c \in Campaigns : DispatchRead(w, c) \/ DispatchQueue(w, c)
                          \/ DispatchPause(w, c) \/ DispatchFail(w, c)
  \/ \E a \in Attempts : Originate(w, a) \/ RecordDialing(w, a) \/ RecordFailure(w, a)

-----------------------------------------------------------------------------
(* dispatch_due_campaigns: Celery Beat                                     *)

(* The scheduled campaigns whose time has come; which ones is left open.   *)
BeatRead ==
  /\ beat = "idle"
  /\ \E ids \in SUBSET {c \in Campaigns : campaignStatus[c] = "scheduled"} :
       /\ promoting' = ids
       /\ beat' = IF ids = {} THEN "enqueue" ELSE "promote"
  /\ UNCHANGED <<env, database, tasks, workerVars, handlerVars, decided, callVars>>

(* UPDATE ... WHERE id IN (...): the status is not looked at again.        *)
BeatPromote ==
  /\ beat = "promote"
  /\ campaignStatus' = [c \in Campaigns |->
                          IF c \in promoting THEN "running" ELSE campaignStatus[c]]
  /\ beat' = "enqueue" /\ promoting' = {}
  /\ UNCHANGED <<env, recipientStatus, attemptsCount, due, attemptStatus, callStatus,
                 dnc, tasks, workerVars, handlerVars, decided, callVars>>

BeatEnqueue ==
  /\ beat = "enqueue"
  /\ tasks' = tasks \union {c \in Campaigns : campaignStatus[c] = "running"}
  /\ beat' = "idle"
  /\ UNCHANGED <<env, database, promoting, workerVars, handlerVars, decided, callVars>>

BeatStep == BeatRead \/ BeatPromote \/ BeatEnqueue

(* A retry delay or a deferral ends.                                       *)
RetryDue(r) ==
  /\ ~due[r]
  /\ due' = [due EXCEPT ![r] = TRUE]
  /\ UNCHANGED <<env, campaignStatus, recipientStatus, attemptsCount, attemptStatus,
                 callStatus, dnc, tasks, workerVars, beatVars, handlerVars,
                 decided, callVars>>

-----------------------------------------------------------------------------
(* apply_event: the handlers of provider events                            *)

EventRead(h, e) ==
  /\ IdleHandler(h)
  /\ e \in events
  /\ \/ events' = events \ {e}
     \/ "duplicate" \in env.faults /\ UNCHANGED events
  /\ loaded' = [loaded EXCEPT ![h] =
       {[event |-> e, recipient |-> recipientStatus[e.attempt[1]],
         count |-> attemptsCount[e.attempt[1]],
         campaign |-> campaignStatus[CampaignOf[e.attempt[1]]],
         attempt |-> attemptStatus[e.attempt],
         listed |-> e.status = "do_not_call" /\ PhoneOf[e.attempt[1]] \in dnc]}]
  /\ UNCHANGED <<env, database, tasks, workerVars, beatVars, settling, completing,
                 decided, provider>>

MutantRetries(l) == /\ l.event.status \in Retryable
                    /\ l.count <= MaxAttempts
                    /\ l.campaign = "running"
Retries(l) == /\ l.event.status \in Retryable
              /\ l.count < MaxAttempts
              /\ l.campaign = "running"

MutantNewStatus(l) == IF Retries(l) THEN "pending"
                      ELSE IF l.event.status \in Retryable \union {"ringing"} THEN l.recipient
                      ELSE l.event.status
NewStatus(l) == IF Retries(l) THEN "pending"
                ELSE IF l.event.status = "ringing" THEN l.recipient
                ELSE l.event.status

MutantOptsOut(l) == l.event.status = "do_not_call" /\ l.listed
OptsOut(l) == l.event.status = "do_not_call" /\ ~l.listed

MutantMissed == {"busy"}
Missed == {"busy", "no_answer"}
NewCall(l, old) ==
  CASE l.event.status = "answered" -> "in_progress"
    [] l.event.status \in {"completed", "do_not_call", "cancelled"} -> "completed"
    [] l.event.status \in Missed -> "missed"
    [] l.event.status = "failed" -> "failed"
    [] OTHER -> old

(* SQLAlchemy writes a column only when its value differs from the one it  *)
(* loaded, so an equal value leaves a concurrent change alone.             *)
EventCommit(h, l) ==
  LET a == l.event.attempt
      r == a[1]
  IN
  /\ l \in loaded[h]
  /\ ~(OptsOut(l) /\ PhoneOf[r] \in dnc)
  /\ loaded' = [loaded EXCEPT ![h] = {}]
  /\ recipientStatus' = [recipientStatus EXCEPT ![r] =
                           IF NewStatus(l) = l.recipient THEN @ ELSE NewStatus(l)]
  /\ due' = [due EXCEPT ![r] = @ /\ ~Retries(l)]
  /\ attemptStatus' = [attemptStatus EXCEPT ![a] =
                         IF l.event.status = l.attempt THEN @ ELSE l.event.status]
  /\ callStatus' = [callStatus EXCEPT ![a] = NewCall(l, @)]
  /\ dnc' = IF OptsOut(l) THEN dnc \union {PhoneOf[r]} ELSE dnc
  /\ settling' = [settling EXCEPT ![h] =
                    IF l.campaign = "running" THEN {CampaignOf[r]} ELSE {}]
  /\ UNCHANGED <<env, campaignStatus, attemptsCount, tasks, workerVars, beatVars,
                 completing, decided, callVars>>

(* The number was listed after the handler looked: uq_dnc_company_phone    *)
(* rejects the insert and the whole event is rolled back.                  *)
EventConflict(h, l) ==
  /\ l \in loaded[h]
  /\ OptsOut(l) /\ PhoneOf[l.event.attempt[1]] \in dnc
  /\ loaded' = [loaded EXCEPT ![h] = {}]
  /\ UNCHANGED <<env, database, tasks, workerVars, beatVars, settling, completing,
                 decided, callVars>>

MutantUncalled(c) == Active(RecipientsOf(c))
Uncalled(c) == {r \in RecipientsOf(c) : recipientStatus[r] \in Remaining}

(* The count of the recipients that remain, with the campaign status the   *)
(* handler loaded at its start.                                            *)
EventSettle(h, c) ==
  /\ c \in settling[h]
  /\ settling' = [settling EXCEPT ![h] = {}]
  /\ IF Uncalled(c) # {}
       THEN tasks' = tasks \union {c} /\ UNCHANGED completing
       ELSE completing' = [completing EXCEPT ![h] = {c}] /\ UNCHANGED tasks
  /\ UNCHANGED <<env, database, workerVars, beatVars, loaded, decided, callVars>>

EventComplete(h, c) ==
  /\ c \in completing[h]
  /\ completing' = [completing EXCEPT ![h] = {}]
  /\ campaignStatus' = [campaignStatus EXCEPT ![c] = "completed"]
  /\ UNCHANGED <<env, recipientStatus, attemptsCount, due, attemptStatus, callStatus,
                 dnc, tasks, workerVars, beatVars, loaded, settling, decided,
                 callVars>>

HandlerCrash(h) ==
  /\ "crash" \in env.faults
  /\ ~IdleHandler(h)
  /\ loaded' = [loaded EXCEPT ![h] = {}]
  /\ settling' = [settling EXCEPT ![h] = {}]
  /\ completing' = [completing EXCEPT ![h] = {}]
  /\ UNCHANGED <<env, database, tasks, workerVars, beatVars, decided, callVars>>

HandlerStep(h) ==
  \/ \E e \in events : EventRead(h, e)
  \/ \E l \in loaded[h] : EventCommit(h, l) \/ EventConflict(h, l)
  \/ \E c \in Campaigns : EventSettle(h, c) \/ EventComplete(h, c)

-----------------------------------------------------------------------------
(* start, schedule and set_status: requests of company administrators      *)

Target(op) == CASE op \in {"start", "resume"} -> "running"
                [] op = "schedule" -> "scheduled"
                [] op = "pause" -> "paused"
                [] op = "cancel" -> "cancelled"
Allowed(op) == CASE op = "pause" -> {"running", "scheduled"}
                 [] op = "resume" -> {"paused"}
                 [] op = "cancel" -> {"draft", "ready", "scheduled", "running", "paused"}
                 [] OTHER -> CampaignStatus

UserRead(u, op, c) ==
  /\ op \in env.requests
  /\ decided[u] = {}
  /\ campaignStatus[c] \in Allowed(op)
  /\ decided' = [decided EXCEPT ![u] =
                   {[op |-> op, campaign |-> c, seen |-> campaignStatus[c]]}]
  /\ UNCHANGED <<env, database, tasks, workerVars, beatVars, handlerVars, callVars>>

MutantCancels(q, r) == q.op = "cancel" /\ CampaignOf[r] = q.campaign
Cancels(q, r) == /\ q.op = "cancel" /\ CampaignOf[r] = q.campaign
                 /\ recipientStatus[r] \in {"pending", "queued"}

(* start and schedule validate the contact list here; they and resume need *)
(* remaining minutes, and end without a change when a check fails.         *)
UserWrite(u, q) ==
  LET c == q.campaign IN
  /\ q \in decided[u]
  /\ q.op \in {"start", "schedule"} => Callable(c)
  /\ decided' = [decided EXCEPT ![u] = {}]
  /\ campaignStatus' = [campaignStatus EXCEPT ![c] =
                          IF Target(q.op) = q.seen THEN @ ELSE Target(q.op)]
  /\ recipientStatus' = [r \in Recipients |->
                          IF Cancels(q, r) THEN "cancelled" ELSE recipientStatus[r]]
  /\ tasks' = IF q.op \in {"start", "resume"} THEN tasks \union {c} ELSE tasks
  /\ UNCHANGED <<env, attemptsCount, due, attemptStatus, callStatus, dnc, workerVars,
                 beatVars, handlerVars, callVars>>

UserRefused(u, q) ==
  /\ q \in decided[u]
  /\ \/ q.op \in {"start", "schedule"} /\ ~Callable(q.campaign)
     \/ q.op \in {"start", "schedule", "resume"} /\ "minutes" \in env.faults
  /\ decided' = [decided EXCEPT ![u] = {}]
  /\ UNCHANGED <<env, database, tasks, workerVars, beatVars, handlerVars, callVars>>

AddDnc(p) ==
  /\ "add_dnc" \in env.requests
  /\ p \notin dnc
  /\ dnc' = dnc \union {p}
  /\ UNCHANGED <<env, campaignStatus, recipientStatus, attemptsCount, due,
                 attemptStatus, callStatus, tasks, workerVars, beatVars,
                 handlerVars, decided, callVars>>

DeleteDnc(p) ==
  /\ "delete_dnc" \in env.requests
  /\ p \in dnc
  /\ dnc' = dnc \ {p}
  /\ UNCHANGED <<env, campaignStatus, recipientStatus, attemptsCount, due,
                 attemptStatus, callStatus, tasks, workerVars, beatVars,
                 handlerVars, decided, callVars>>

UserStep ==
  \/ \E u \in Users : \/ \E op \in CampaignOps, c \in Campaigns : UserRead(u, op, c)
                      \/ \E q \in decided[u] : UserWrite(u, q) \/ UserRefused(u, q)
  \/ \E p \in Phones : AddDnc(p) \/ DeleteDnc(p)

-----------------------------------------------------------------------------
(* The provider: Asterisk places the calls and posts their events.         *)

(* Unless the environment reorders, the next event of a call is posted     *)
(* when the previous one has been applied; unless it overtakes, after the  *)
(* worker has stored that the call was placed.                             *)
MayReport(a) ==
  /\ \/ "reorder" \in env.faults
     \/ /\ \A e \in events : e.attempt # a
        /\ \A h \in Handlers : \A l \in loaded[h] : l.event.attempt # a
  /\ "overtake" \in env.faults \/ \A w \in Workers : a \notin placed[w]

Report(a, status, state) ==
  /\ status \in env.reports
  /\ MayReport(a)
  /\ events' = events \union {[attempt |-> a, status |-> status]}
  /\ provider' = [provider EXCEPT ![a] = state]
  /\ UNCHANGED <<env, database, tasks, workerVars, beatVars, handlerVars, decided>>

Ring(a) == provider[a] = "dialing" /\ Report(a, "ringing", "ringing")
Answer(a) == provider[a] \in {"dialing", "ringing"} /\ Report(a, "answered", "answered")
HangUp(a, status) ==
  /\ \/ /\ provider[a] \in {"dialing", "ringing"}
        /\ status \in Retryable \union {"cancelled"}
     \/ /\ provider[a] = "answered"
        /\ status \in {"completed", "do_not_call", "failed"}
  /\ Report(a, status, "over")

ProviderStep(a) == Ring(a) \/ Answer(a) \/ \E status \in Terminal : HangUp(a, status)

-----------------------------------------------------------------------------
Next ==
  \/ \E w \in Workers : WorkerStep(w) \/ WorkerCrash(w)
  \/ BeatStep
  \/ \E r \in Recipients : RetryDue(r)
  \/ \E h \in Handlers : HandlerStep(h) \/ HandlerCrash(h)
  \/ UserStep
  \/ \E a \in Attempts : ProviderStep(a)

Spec == Init /\ [][Next]_vars

(* Workers keep taking messages, Beat fires every 15 seconds, requests are *)
(* served, delays elapse and every call ends.                              *)
Fairness ==
  /\ \A w \in Workers : WF_vars(WorkerStep(w))
  /\ WF_vars(BeatStep)
  /\ \A r \in Recipients : WF_vars(RetryDue(r))
  /\ \A h \in Handlers : WF_vars(HandlerStep(h))
  /\ \A a \in Attempts : WF_vars(ProviderStep(a))

FairSpec == Spec /\ Fairness

-----------------------------------------------------------------------------
(* Properties.  Those that need the environment to spare them something    *)
(* say so in their first line; the README says what breaks otherwise.      *)

Held(w) == jobs[w] \union placed[w] \union failed[w]
Live(a) == provider[a] \in {"dialing", "ringing", "answered"}
InFlight(a) == \/ \E e \in events : e.attempt = a
               \/ \E h \in Handlers : \E l \in loaded[h] : l.event.attempt = a

(* Every variable has its type; a worker has at most one call whose        *)
(* outcome is not committed, a handler at most one event.                  *)
TypeOK ==
  /\ env \in Environments
  /\ campaignStatus \in [Campaigns -> CampaignStatus]
  /\ recipientStatus \in [Recipients -> RecipientStatus]
  /\ attemptsCount \in [Recipients -> 0..AttemptBound]
  /\ due \in [Recipients -> BOOLEAN]
  /\ attemptStatus \in [Attempts -> RecipientStatus \union {"none"}]
  /\ callStatus \in [Attempts -> CallStatus \union {"none"}]
  /\ dnc \subseteq Phones
  /\ tasks \subseteq Campaigns
  /\ slots \in [Workers -> [Campaigns -> Nat]]
  /\ jobs \in [Workers -> SUBSET Attempts]
  /\ placed \in [Workers -> SUBSET Attempts]
  /\ failed \in [Workers -> SUBSET Attempts]
  /\ beat \in {"idle", "promote", "enqueue"} /\ promoting \subseteq Campaigns
  /\ loaded \in [Handlers -> SUBSET Loaded]
  /\ settling \in [Handlers -> SUBSET Campaigns]
  /\ completing \in [Handlers -> SUBSET Campaigns]
  /\ decided \in [Users -> SUBSET Request]
  /\ provider \in [Attempts -> {"idle", "dialing", "ringing", "answered", "over"}]
  /\ events \subseteq Event

(* Unless an originate request can fail although the call was placed, or   *)
(* an event can be applied twice: nobody is ever called twice at once,     *)
(* however many dispatch tasks and event handlers overlap, whatever order  *)
(* events come in, and across worker crashes and redelivered messages.     *)
OneCallAtATime ==
  "timeout" \notin env.faults /\ "duplicate" \notin env.faults =>
    \A a, b \in Attempts : a[1] = b[1] /\ Live(a) /\ Live(b) => a = b

(* In the same environments a recipient is never reserved more often than  *)
(* max_attempts, although the code that reserves never compares the two:   *)
(* it relies on nobody putting an exhausted recipient back to PENDING.     *)
RetryBudget ==
  "timeout" \notin env.faults /\ "duplicate" \notin env.faults =>
    \A r \in Recipients :
      /\ attemptsCount[r] <= MaxAttempts
      /\ recipientStatus[r] = "pending" => attemptsCount[r] < MaxAttempts

(* In every environment: an attempt waiting to be originated was never     *)
(* originated before, is still QUEUED, and no other worker has it, so a    *)
(* redelivered or concurrent dispatch task cannot place the same attempt.  *)
ReservedOnce ==
  \A w \in Workers : \A a \in jobs[w] :
    /\ provider[a] = "idle"
    /\ attemptStatus[a] = "queued"
    /\ \A v \in Workers \ {w} : a \notin Held(v)

(* The environments in which an attempt cannot be spent twice.             *)
Reliable == "timeout" \notin env.faults /\ "duplicate" \notin env.faults

(* How far an attempt has come: its call is reserved from the commit of    *)
(* DispatchQueue until it is placed, dropped when it is refused or its     *)
(* worker dies, and ended until no event that ends it is in flight.        *)
Ending(a) == \/ \E e \in events : e.attempt = a /\ e.status \in Terminal
             \/ \E h \in Handlers : \E l \in loaded[h] :
                  l.event.attempt = a /\ l.event.status \in Terminal
Waiting(a) == \E w \in Workers : a \in jobs[w] \union failed[w]
Stage(a) ==
  CASE attemptStatus[a] = "none" -> "none"
    [] attemptStatus[a] # "none" /\ provider[a] = "idle" ->
         IF Waiting(a) THEN "reserved" ELSE "dropped"
    [] attemptStatus[a] # "none" /\ Live(a) -> "live"
    [] OTHER -> IF Ending(a) THEN "ended" ELSE "settled"

(* In every environment dispatching implements CampaignCalls: an attempt   *)
(* number is reserved once and its call placed at most once; unless        *)
(* answers are lost or events repeated, whoever has an attempt waiting, a  *)
(* call in progress, or the end of one not yet applied is not reserved     *)
(* again, and nobody is reserved more than max_attempts times, although    *)
(* no transaction of the code looks at any of it but the recipient's row.  *)
Calls == INSTANCE CampaignCalls WITH
  reliable <- Reliable, tries <- attemptsCount, call <- [a \in Attempts |-> Stage(a)]

CallsKept == Calls!Spec

(* In every environment: a recipient that was imported as DO_NOT_CALL      *)
(* keeps that status and is never reserved, through starts, cancellations, *)
(* restarts and events of other recipients.                                *)
SuppressedStays ==
  [][\A r \in Recipients :
       recipientStatus[r] = "do_not_call" /\ attemptsCount[r] = 0 =>
         recipientStatus'[r] = "do_not_call" /\ attemptsCount'[r] = 0]_vars

(* Unless users delete entries: whoever opted out during a call is on the  *)
(* company's do-not-call list, also when the same number opts out in two   *)
(* campaigns at once or is being added by hand.                            *)
OptOutListed ==
  "delete_dnc" \notin env.requests =>
    \A r \in Recipients :
      recipientStatus[r] = "do_not_call" /\ attemptsCount[r] > 0 => PhoneOf[r] \in dnc

(* Without crashes: a QUEUED recipient always has a worker that will still *)
(* originate or settle its latest attempt; nothing else would move it on.  *)
QueuedHasWorker ==
  "crash" \notin env.faults =>
    \A r \in Recipients : recipientStatus[r] = "queued" =>
      \E w \in Workers : <<r, attemptsCount[r]>> \in Held(w)

(* Without crashes, reordered or duplicated events and with no opt-out     *)
(* conflicting with another: when a call is over and its events have been  *)
(* applied, its Call row is closed, even if events overtook the worker or  *)
(* the worker believed the originate had failed.                           *)
CallRowsClosed ==
  env.faults \intersect {"crash", "reorder", "duplicate"} = {}
    /\ "do_not_call" \notin env.reports =>
    \A a \in Attempts : provider[a] = "over" /\ ~InFlight(a) =>
      callStatus[a] \in {"completed", "missed", "failed"}

(* When no answer is lost, overtaken, reordered or applied twice: whoever  *)
(* occupies a concurrency slot has a worker about to act on the latest     *)
(* attempt, a call in progress or an event on its way.  A slot no step     *)
(* would release would block its campaign for ever.                        *)
NoSlotLeak ==
  env.faults \intersect {"crash", "timeout", "overtake", "reorder", "duplicate"} = {}
    /\ "do_not_call" \notin env.reports =>
    \A r \in Active(Recipients) :
      LET a == <<r, attemptsCount[r]>> IN
      Live(a) \/ InFlight(a) \/ \E w \in Workers : a \in Held(w)

(* When no answer is lost, overtaken, reordered or applied twice and users *)
(* at most pause and resume: a campaign is COMPLETED only when no contact  *)
(* is left to call or in a call, although the handler that completes it    *)
(* counted in one transaction and writes in another.                       *)
CompletedIsDone ==
  /\ env.faults \intersect {"timeout", "overtake", "reorder", "duplicate"} = {}
  /\ env.requests \subseteq {"pause", "resume"}
  => \A r \in Recipients : campaignStatus[CampaignOf[r]] = "completed" =>
       recipientStatus[r] \notin ActiveStates \union {"pending"}

(* README 622: the worker enforces the concurrency limits of a campaign    *)
(* and of the company.                                                     *)
CapsRespected ==
  /\ \A c \in Campaigns : Cardinality(Active(RecipientsOf(c))) <= MaxConcurrency[c]
  /\ Cardinality(Active(Recipients)) <= CompanyCap

(* No answer is lost, no event is repeated or reordered, and users do not  *)
(* cancel whom a worker that died left QUEUED in a call: then nobody takes *)
(* a slot but by a reservation.                                            *)
Orderly ==
  /\ env.faults \intersect {"timeout", "duplicate", "reorder"} = {}
  /\ "crash" \notin env.faults \/ "cancel" \notin env.requests

(* With one dispatch task at a time both caps hold, although the slots     *)
(* are counted in one transaction and used in another, and the campaigns   *)
(* of a company share the second one.                                      *)
CapsSerial == Orderly /\ "parallel" \notin env.faults => CapsRespected

(* With several the caps can be overrun, but never by more than one full   *)
(* set of slots for each worker that counted before another one reserved.  *)
OverrunBounded ==
  Orderly => Cardinality(Active(Recipients)) <= Cardinality(Workers) * CompanyCap

(* README 622: the worker enforces do-not-call suppression.  No number     *)
(* that is on the list is reserved for a call.                             *)
DncSuppressed ==
  [][\A r \in Recipients :
       attemptsCount'[r] > attemptsCount[r] => PhoneOf[r] \notin dnc]_vars

(* A campaign that was dialling ends: the last handlers to finish, however *)
(* they overlap, do not each leave the completion to the other.            *)
RunningCompletes ==
  \A c \in Campaigns : campaignStatus[c] = "running" ~> campaignStatus[c] = "completed"
=============================================================================
