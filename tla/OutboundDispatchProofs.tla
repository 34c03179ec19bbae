------------------------ MODULE OutboundDispatchProofs ------------------------
(***************************************************************************)
(* Proofs about OutboundDispatch, for any number of campaigns, recipients, *)
(* workers, handlers and users, any caps and any environment.              *)
(***************************************************************************)
EXTENDS OutboundDispatch, FiniteSetTheorems, FunctionTheorems, TLAPS

(* An attempt is a recipient and a number.                                 *)
LEMMA AttemptParts ==
  \A a \in Attempts : a[1] \in Recipients /\ a[2] \in 1..AttemptBound /\ a = <<a[1], a[2]>>
  BY DEF Attempts

(* The slots a worker counts are a natural number.                         *)
LEMMA FreeSlotsType == \A c \in Campaigns : FreeSlots(c) \in Nat
<1> SUFFICES ASSUME NEW c \in Campaigns PROVE FreeSlots(c) \in Nat
  OBVIOUS
<1>1. Cardinality(Active(Recipients)) \in Nat
  <2>1. Active(Recipients) \subseteq Recipients
    BY DEF Active
  <2> QED BY <2>1, ConstantsAssumption, FS_Subset, FS_CardinalityType
<1>2. Cardinality(Active(RecipientsOf(c))) \in Nat
  <2>1. Active(RecipientsOf(c)) \subseteq Recipients
    BY DEF Active, RecipientsOf
  <2> QED BY <2>1, ConstantsAssumption, FS_Subset, FS_CardinalityType
<1>3. \A cap, used \in Nat : FreeOf(cap, used) \in Nat
  BY DEF FreeOf
<1>4. \A m, n \in Nat : Least(m, n) \in Nat
  BY DEF Least
<1>5. MaxConcurrency[c] \in Nat /\ CompanyCap \in Nat
  BY ConstantsAssumption
<1> QED BY <1>1, <1>2, <1>3, <1>4, <1>5 DEF FreeSlots

-----------------------------------------------------------------------------
(* Type correctness                                                        *)

LEMMA InitType == Init => TypeOK
  BY ConstantsAssumption DEF Init, TypeOK, CampaignStatus, RecipientStatus, NoSlots

LEMMA DispatchReadType ==
  ASSUME TypeOK, NEW w \in Workers, NEW c \in Campaigns, DispatchRead(w, c)
  PROVE  TypeOK'
  BY FreeSlotsType DEF DispatchRead, TypeOK, database, beatVars, handlerVars, callVars

LEMMA DispatchPauseType ==
  ASSUME TypeOK, NEW w \in Workers, NEW c \in Campaigns, DispatchPause(w, c)
  PROVE  TypeOK'
  BY DEF DispatchPause, TypeOK, beatVars, handlerVars, callVars, CampaignStatus

(* What the reservation of a set of recipients creates.                    *)
LEMMA ReservedTypes ==
  ASSUME TypeOK, NEW c \in Campaigns, NEW taken \in SUBSET Candidates(c)
  PROVE  /\ taken \subseteq Recipients
         /\ \A r \in taken : NextAttempt(r) \in Attempts /\ attemptsCount[r] + 1 \in 0..AttemptBound
<1>1. taken \subseteq Recipients
  BY DEF Candidates, RecipientsOf
<1>2. \A r \in taken : attemptsCount[r] \in 0..AttemptBound /\ attemptsCount[r] < AttemptBound
  BY <1>1 DEF Candidates, TypeOK
<1> QED BY <1>1, <1>2, ConstantsAssumption DEF NextAttempt, Attempts

LEMMA DispatchQueueType ==
  ASSUME TypeOK, NEW w \in Workers, NEW c \in Campaigns, DispatchQueue(w, c)
  PROVE  TypeOK'
<1>1. PICK scanned \in SUBSET Candidates(c), taken \in SUBSET Candidates(c) :
        /\ Deferred(scanned, taken)
        /\ attemptsCount' = [r \in Recipients |->
             IF r \in taken THEN attemptsCount[r] + 1 ELSE attemptsCount[r]]
        /\ recipientStatus' = [r \in Recipients |->
             IF r \in taken THEN "queued"
             ELSE IF r \in scanned \intersect Unresolved THEN "failed"
             ELSE recipientStatus[r]]
        /\ attemptStatus' = [a \in Attempts |->
             IF a \in {NextAttempt(r) : r \in taken} THEN "queued" ELSE attemptStatus[a]]
        /\ callStatus' = [a \in Attempts |->
             IF a \in {NextAttempt(r) : r \in taken} THEN "initiated" ELSE callStatus[a]]
        /\ jobs' = [jobs EXCEPT ![w] = {NextAttempt(r) : r \in taken}]
  BY DEF DispatchQueue
<1>2. \A r \in taken : NextAttempt(r) \in Attempts /\ attemptsCount[r] + 1 \in 0..AttemptBound
  BY ReservedTypes
<1>3. /\ attemptsCount' \in [Recipients -> 0..AttemptBound]
      /\ recipientStatus' \in [Recipients -> RecipientStatus]
      /\ due' \in [Recipients -> BOOLEAN]
  BY <1>1, <1>2 DEF TypeOK, RecipientStatus, Deferred
<1>4. /\ attemptStatus' \in [Attempts -> RecipientStatus \union {"none"}]
      /\ callStatus' \in [Attempts -> CallStatus \union {"none"}]
      /\ jobs' \in [Workers -> SUBSET Attempts]
  BY <1>1, <1>2 DEF TypeOK, RecipientStatus, CallStatus
<1> QED
  BY <1>3, <1>4 DEF DispatchQueue, TypeOK, beatVars, handlerVars, callVars

LEMMA DispatchFailType ==
  ASSUME TypeOK, NEW w \in Workers, NEW c \in Campaigns, DispatchFail(w, c)
  PROVE  TypeOK'
<1>1. recipientStatus' \in [Recipients -> RecipientStatus] /\ due' \in [Recipients -> BOOLEAN]
  BY DEF DispatchFail, Deferred, TypeOK, RecipientStatus
<1> QED
  BY <1>1 DEF DispatchFail, TypeOK, beatVars, handlerVars, callVars, CampaignStatus

LEMMA OriginateType ==
  ASSUME TypeOK, NEW w \in Workers, NEW a \in Attempts, Originate(w, a)
  PROVE  TypeOK'
<1>1. jobs' \in [Workers -> SUBSET Attempts]
  BY DEF Originate, TypeOK
<1>2. placed' \in [Workers -> SUBSET Attempts] /\ failed' \in [Workers -> SUBSET Attempts]
  <2>1. /\ placed' = placed \/ placed' = [placed EXCEPT ![w] = {a}]
        /\ failed' = failed \/ failed' = [failed EXCEPT ![w] = {a}]
    BY DEF Originate
  <2>2. {a} \in SUBSET Attempts
    OBVIOUS
  <2>3. placed' \in [Workers -> SUBSET Attempts]
    BY <2>1, <2>2 DEF TypeOK
  <2>4. failed' \in [Workers -> SUBSET Attempts]
    BY <2>1, <2>2 DEF TypeOK
  <2> QED BY <2>3, <2>4
<1>3. provider' \in [Attempts -> {"idle", "dialing", "ringing", "answered", "over"}]
  BY DEF Originate, TypeOK
<1> QED
  BY <1>1, <1>2, <1>3 DEF Originate, TypeOK, database, beatVars, handlerVars

LEMMA RecordDialingType ==
  ASSUME TypeOK, NEW w \in Workers, NEW a \in Attempts, RecordDialing(w, a)
  PROVE  TypeOK'
  BY AttemptParts DEF RecordDialing, TypeOK, beatVars, handlerVars, callVars, RecipientStatus

LEMMA RecordFailureType ==
  ASSUME TypeOK, NEW w \in Workers, NEW a \in Attempts, RecordFailure(w, a)
  PROVE  TypeOK'
  BY AttemptParts DEF RecordFailure, Refused, TypeOK, beatVars, handlerVars, callVars,
                      RecipientStatus, CallStatus

LEMMA WorkerCrashType ==
  ASSUME TypeOK, NEW w \in Workers, WorkerCrash(w)
  PROVE  TypeOK'
<1>1. CampaignsOf(w) \subseteq Campaigns
  BY AttemptParts, ConstantsAssumption DEF CampaignsOf, TypeOK
<1> QED
  BY <1>1 DEF WorkerCrash, TypeOK, database, beatVars, handlerVars, callVars, NoSlots

LEMMA BeatType == ASSUME TypeOK, BeatStep PROVE TypeOK'
<1>1. CASE BeatRead
  BY <1>1 DEF BeatRead, TypeOK, database, workerVars, handlerVars, callVars
<1>2. CASE BeatPromote
  BY <1>2 DEF BeatPromote, TypeOK, workerVars, handlerVars, callVars, CampaignStatus
<1>3. CASE BeatEnqueue
  BY <1>3 DEF BeatEnqueue, TypeOK, database, workerVars, handlerVars, callVars
<1> QED BY <1>1, <1>2, <1>3 DEF BeatStep

LEMMA RetryDueType == ASSUME TypeOK, NEW r \in Recipients, RetryDue(r) PROVE TypeOK'
  BY DEF RetryDue, TypeOK, workerVars, beatVars, handlerVars, callVars

(* Stated over the loaded record rather than inside each handler lemma.    *)
LEMMA EventReadType ==
  ASSUME TypeOK, NEW h \in Handlers, NEW e \in events, EventRead(h, e)
  PROVE  TypeOK'
<1>1. e \in Event /\ e.attempt \in Attempts /\ e.attempt[1] \in Recipients
  BY AttemptParts DEF TypeOK, Event
<1>2. attemptsCount[e.attempt[1]] \in Nat
  BY <1>1, ConstantsAssumption DEF TypeOK
<1>3. [event |-> e, recipient |-> recipientStatus[e.attempt[1]],
       count |-> attemptsCount[e.attempt[1]],
       campaign |-> campaignStatus[CampaignOf[e.attempt[1]]],
       attempt |-> attemptStatus[e.attempt],
       listed |-> e.status = "do_not_call" /\ PhoneOf[e.attempt[1]] \in dnc] \in Loaded
  BY <1>1, <1>2, ConstantsAssumption, Zenon DEF TypeOK, Loaded
<1>4. loaded' \in [Handlers -> SUBSET Loaded]
  BY <1>3 DEF EventRead, TypeOK
<1>5. events' \subseteq Event
  BY DEF EventRead, TypeOK
<1> QED
  BY <1>4, <1>5 DEF EventRead, TypeOK, database, workerVars, beatVars

LEMMA LoadedParts ==
  ASSUME TypeOK, NEW h \in Handlers, NEW l \in loaded[h]
  PROVE  /\ l \in Loaded /\ l.event \in Event /\ l.event.attempt \in Attempts
         /\ l.event.attempt[1] \in Recipients
         /\ l.event.attempt[2] \in 1..AttemptBound
         /\ l.event.attempt = <<l.event.attempt[1], l.event.attempt[2]>>
         /\ l.event.status \in Progress \union Terminal
         /\ l.recipient \in RecipientStatus
         /\ l.count \in Nat
<1>1. l \in Loaded
  BY DEF TypeOK
<1>2. l.event \in Event /\ l.recipient \in RecipientStatus /\ l.count \in Nat
  BY <1>1 DEF Loaded
<1>3. l.event.attempt \in Attempts /\ l.event.status \in Progress \union Terminal
  BY <1>2 DEF Event
<1> QED
  BY <1>1, <1>2, <1>3, AttemptParts

LEMMA EventAttempts ==
  ASSUME TypeOK
  PROVE  /\ \A e \in events : e.attempt \in Attempts
         /\ \A h \in Handlers : \A l \in loaded[h] : l.event.attempt \in Attempts
  BY LoadedParts DEF TypeOK, Event

LEMMA NewStatusType ==
  ASSUME NEW l, l.event.status \in Progress \union Terminal, l.recipient \in RecipientStatus
  PROVE  NewStatus(l) \in RecipientStatus
  BY DEF NewStatus, Progress, Terminal, Retryable, RecipientStatus

LEMMA NewCallType ==
  ASSUME NEW l, NEW old \in CallStatus \union {"none"}
  PROVE  NewCall(l, old) \in CallStatus \union {"none"}
  BY DEF NewCall, CallStatus

LEMMA EventCommitType ==
  ASSUME TypeOK, NEW h \in Handlers, NEW l \in loaded[h], EventCommit(h, l)
  PROVE  TypeOK'
<1> DEFINE a == l.event.attempt
           r == a[1]
<1>1. a \in Attempts /\ r \in Recipients /\ l.event.status \in RecipientStatus
  BY LoadedParts DEF Progress, Terminal, Retryable, RecipientStatus
<1>2. NewStatus(l) \in RecipientStatus
  BY LoadedParts, NewStatusType
<1>3. recipientStatus' \in [Recipients -> RecipientStatus]
  BY <1>1, <1>2 DEF EventCommit, TypeOK
<1>4. due' \in [Recipients -> BOOLEAN]
  <2>1. (due[r] /\ ~Retries(l)) \in BOOLEAN
    OBVIOUS
  <2>2. due' = [due EXCEPT ![r] = due[r] /\ ~Retries(l)]
    BY DEF EventCommit
  <2> QED BY <1>1, <2>1, <2>2, Zenon DEF TypeOK
<1>5. attemptStatus' \in [Attempts -> RecipientStatus \union {"none"}]
  BY <1>1 DEF EventCommit, TypeOK
<1>6. callStatus' \in [Attempts -> CallStatus \union {"none"}]
  <2>1. NewCall(l, callStatus[a]) \in CallStatus \union {"none"}
    BY <1>1, NewCallType DEF TypeOK
  <2> QED BY <2>1 DEF EventCommit, TypeOK
<1>7. dnc' \subseteq Phones
  <2>1. dnc' = dnc \/ dnc' = dnc \union {PhoneOf[r]}
    BY DEF EventCommit
  <2>2. PhoneOf[r] \in Phones /\ dnc \subseteq Phones
    BY <1>1, ConstantsAssumption DEF TypeOK
  <2> QED BY <2>1, <2>2
<1>8. settling' \in [Handlers -> SUBSET Campaigns]
  <2>1. settling' = [settling EXCEPT ![h] = {CampaignOf[r]}]
        \/ settling' = [settling EXCEPT ![h] = {}]
    BY DEF EventCommit
  <2>2. CampaignOf[r] \in Campaigns
    BY <1>1, ConstantsAssumption
  <2>3. settling \in [Handlers -> SUBSET Campaigns]
    BY DEF TypeOK
  <2> QED BY <2>1, <2>2, <2>3
<1>9. loaded' \in [Handlers -> SUBSET Loaded]
  BY DEF EventCommit, TypeOK
<1> QED
  BY <1>3, <1>4, <1>5, <1>6, <1>7, <1>8, <1>9
     DEF EventCommit, TypeOK, workerVars, beatVars, callVars

LEMMA HandlerType ==
  ASSUME TypeOK, NEW h \in Handlers, HandlerStep(h) \/ HandlerCrash(h)
  PROVE  TypeOK'
<1>1. CASE \E e \in events : EventRead(h, e)
  BY <1>1, EventReadType
<1>2. CASE \E l \in loaded[h] : EventCommit(h, l)
  BY <1>2, EventCommitType
<1>3. CASE \E l \in loaded[h] : EventConflict(h, l)
  BY <1>3 DEF EventConflict, TypeOK, database, workerVars, beatVars, callVars
<1>4. CASE \E c \in Campaigns : EventSettle(h, c)
  <2>1. PICK c \in Campaigns : EventSettle(h, c)
    BY <1>4
  <2>2. /\ UNCHANGED <<env, database, workerVars, beatVars, loaded, decided, callVars>>
        /\ tasks' = tasks \union {c} \/ tasks' = tasks
        /\ settling' = [settling EXCEPT ![h] = {}]
        /\ completing' = [completing EXCEPT ![h] = {c}] \/ completing' = completing
    BY <2>1 DEF EventSettle
  <2>3. /\ tasks' \subseteq Campaigns
        /\ settling' \in [Handlers -> SUBSET Campaigns]
        /\ completing' \in [Handlers -> SUBSET Campaigns]
    BY <2>2 DEF TypeOK
  <2> QED
    BY <2>2, <2>3 DEF TypeOK, database, workerVars, beatVars, callVars
<1>5. CASE \E c \in Campaigns : EventComplete(h, c)
  <2>1. PICK c \in Campaigns : EventComplete(h, c)
    BY <1>5
  <2>2. /\ completing' \in [Handlers -> SUBSET Campaigns]
        /\ campaignStatus' \in [Campaigns -> CampaignStatus]
    BY <2>1 DEF EventComplete, TypeOK, CampaignStatus
  <2> QED
    BY <2>1, <2>2 DEF EventComplete, TypeOK, workerVars, beatVars, callVars
<1>6. CASE HandlerCrash(h)
  BY <1>6 DEF HandlerCrash, TypeOK, database, workerVars, beatVars, callVars
<1> QED
  BY <1>1, <1>2, <1>3, <1>4, <1>5, <1>6 DEF HandlerStep

LEMMA TargetType == \A op \in CampaignOps : Target(op) \in CampaignStatus
  BY DEF Target, CampaignOps, CampaignStatus

LEMMA UserType == ASSUME TypeOK, UserStep PROVE TypeOK'
<1>1. ASSUME NEW u \in Users, NEW op \in CampaignOps, NEW c \in Campaigns, UserRead(u, op, c)
      PROVE  TypeOK'
  <2>1. [op |-> op, campaign |-> c, seen |-> campaignStatus[c]] \in Request
    BY DEF Request, TypeOK
  <2> QED
    BY <1>1, <2>1 DEF UserRead, TypeOK, database, workerVars, beatVars, handlerVars, callVars
<1>2. ASSUME NEW u \in Users, NEW q \in decided[u], UserWrite(u, q)
      PROVE  TypeOK'
  <2>1. q.op \in CampaignOps /\ q.campaign \in Campaigns
    BY DEF TypeOK, Request
  <2>2. Target(q.op) \in CampaignStatus
    BY <2>1, TargetType
  <2>3. campaignStatus' \in [Campaigns -> CampaignStatus]
    BY <1>2, <2>1, <2>2 DEF UserWrite, TypeOK
  <2>4. recipientStatus' \in [Recipients -> RecipientStatus]
    BY <1>2 DEF UserWrite, TypeOK, RecipientStatus
  <2>5. tasks' \subseteq Campaigns
    BY <1>2, <2>1 DEF UserWrite, TypeOK
  <2>6. decided' \in [Users -> SUBSET Request]
    BY <1>2 DEF UserWrite, TypeOK
  <2> QED
    BY <1>2, <2>3, <2>4, <2>5, <2>6
       DEF UserWrite, TypeOK, workerVars, beatVars, handlerVars, callVars
<1>3. ASSUME NEW u \in Users, NEW q \in decided[u], UserRefused(u, q)
      PROVE  TypeOK'
  BY <1>3 DEF UserRefused, TypeOK, database, workerVars, beatVars, handlerVars, callVars
<1>4. ASSUME NEW p \in Phones, AddDnc(p) \/ DeleteDnc(p)
      PROVE  TypeOK'
  BY <1>4 DEF AddDnc, DeleteDnc, TypeOK, workerVars, beatVars, handlerVars, callVars
<1> QED
  BY <1>1, <1>2, <1>3, <1>4 DEF UserStep

(* What any report of the provider does.                                   *)
LEMMA ProviderParts ==
  ASSUME NEW a \in Attempts, ProviderStep(a)
  PROVE  \E status \in Progress \union Terminal, state \in {"ringing", "answered", "over"} :
           /\ Report(a, status, state)
           /\ provider[a] \in {"dialing", "ringing", "answered"}
           /\ status \in Terminal <=> state = "over"
  BY DEF ProviderStep, Ring, Answer, HangUp, Progress, Terminal, Retryable

LEMMA ProviderType == ASSUME TypeOK, NEW a \in Attempts, ProviderStep(a) PROVE TypeOK'
<1>1. PICK status \in Progress \union Terminal, state \in {"ringing", "answered", "over"} :
        Report(a, status, state)
  BY ProviderParts
<1>2. [attempt |-> a, status |-> status] \in Event
  BY DEF Event
<1> QED
  BY <1>1, <1>2 DEF Report, TypeOK, database, workerVars, beatVars, handlerVars

LEMMA NextType == TypeOK /\ [Next]_vars => TypeOK'
<1> SUFFICES ASSUME TypeOK, [Next]_vars PROVE TypeOK'
  OBVIOUS
<1>1. ASSUME NEW w \in Workers, WorkerStep(w) \/ WorkerCrash(w) PROVE TypeOK'
  BY <1>1, DispatchReadType, DispatchQueueType, DispatchPauseType, DispatchFailType,
     OriginateType, RecordDialingType, RecordFailureType, WorkerCrashType DEF WorkerStep
<1>2. CASE BeatStep
  BY <1>2, BeatType
<1>3. CASE \E r \in Recipients : RetryDue(r)
  BY <1>3, RetryDueType
<1>4. CASE \E h \in Handlers : HandlerStep(h) \/ HandlerCrash(h)
  BY <1>4, HandlerType
<1>5. CASE UserStep
  BY <1>5, UserType
<1>6. CASE \E a \in Attempts : ProviderStep(a)
  BY <1>6, ProviderType
<1>7. CASE UNCHANGED vars
  BY <1>7 DEF TypeOK, vars, database, workerVars, beatVars, handlerVars, callVars
<1> QED
  BY <1>1, <1>2, <1>3, <1>4, <1>5, <1>6, <1>7 DEF Next

(* Every variable keeps its type.                                          *)
THEOREM TypeCorrect == Spec => []TypeOK
<1>1. Init => TypeOK
  BY InitType
<1>2. TypeOK /\ [Next]_vars => TypeOK'
  BY NextType
<1> QED
  BY <1>1, <1>2, PTL DEF Spec

-----------------------------------------------------------------------------
(* Who owns an attempt.  A reserved attempt was never originated and no    *)
(* other worker holds it; whatever is held or was placed has been counted; *)
(* events are of calls that were placed; and a worker that has counted its *)
(* slots, for one campaign, holds no attempt yet.                          *)
JobsFresh == \A w \in Workers : \A a \in jobs[w] :
  provider[a] = "idle" /\ attemptStatus[a] = "queued" /\ a \notin placed[w] \union failed[w]
HeldApart == \A v, w \in Workers : v # w => Held(v) \intersect Held(w) = {}
Counted == \A a \in Attempts :
  provider[a] # "idle" \/ (\E w \in Workers : a \in Held(w)) => a[2] <= attemptsCount[a[1]]
EventsOfCalls ==
  /\ \A e \in events : provider[e.attempt] # "idle"
  /\ \A h \in Handlers : \A l \in loaded[h] : provider[l.event.attempt] # "idle"
SlotsFirst == \A w \in Workers : \A c \in Campaigns : slots[w][c] > 0 =>
  Held(w) = {} /\ \A d \in Campaigns \ {c} : slots[w][d] = 0
Ownership == JobsFresh /\ HeldApart /\ Counted /\ EventsOfCalls /\ SlotsFirst

LEMMA InitOwnership == Init => Ownership
  BY DEF Init, Ownership, JobsFresh, HeldApart, Counted, EventsOfCalls, SlotsFirst, Held,
         NoSlots

(* Steps that leave alone all that Ownership speaks of.                    *)
LEMMA OwnershipFrame ==
  ASSUME Ownership,
         UNCHANGED <<jobs, placed, failed, slots, provider, attemptStatus, attemptsCount>>,
         events' \subseteq events,
         \A h \in Handlers : loaded'[h] \subseteq loaded[h]
  PROVE  Ownership'
  BY DEF Ownership, JobsFresh, HeldApart, Counted, EventsOfCalls, SlotsFirst, Held

(* Steps that change at most the counted slots of an idle worker, or clear *)
(* those of a worker that had some.                                        *)
LEMMA SlotsOwnership ==
  ASSUME TypeOK, Ownership, NEW w \in Workers, NEW c \in Campaigns, NEW n \in Nat,
         slots' = [slots EXCEPT ![w][c] = n],
         IdleWorker(w) \/ n = 0,
         UNCHANGED <<jobs, placed, failed, provider, attemptStatus, attemptsCount,
                     events, loaded>>
  PROVE  Ownership'
<1>1. SlotsFirst'
  BY DEF Ownership, SlotsFirst, Held, IdleWorker, NoSlots, TypeOK
<1> QED
  BY <1>1 DEF Ownership, JobsFresh, HeldApart, Counted, EventsOfCalls, Held

LEMMA DispatchQueueOwnership ==
  ASSUME TypeOK, Ownership, NEW w \in Workers, NEW c \in Campaigns, DispatchQueue(w, c)
  PROVE  Ownership'
<1>1. PICK taken \in SUBSET Candidates(c) :
        /\ attemptsCount' = [r \in Recipients |->
             IF r \in taken THEN attemptsCount[r] + 1 ELSE attemptsCount[r]]
        /\ attemptStatus' = [a \in Attempts |->
             IF a \in {NextAttempt(r) : r \in taken} THEN "queued" ELSE attemptStatus[a]]
        /\ jobs' = [jobs EXCEPT ![w] = {NextAttempt(r) : r \in taken}]
  BY DEF DispatchQueue
<1> DEFINE made == {NextAttempt(r) : r \in taken}
<1>2. taken \subseteq Recipients /\ made \subseteq Attempts
  BY ReservedTypes
<1>3. slots[w][c] > 0 /\ slots' = [slots EXCEPT ![w][c] = 0]
  BY DEF DispatchQueue
<1>4. UNCHANGED <<placed, failed, provider, events, loaded>>
  BY DEF DispatchQueue, handlerVars, callVars
<1>5. Held(w) = {} /\ \A d \in Campaigns \ {c} : slots[w][d] = 0
  BY <1>3 DEF Ownership, SlotsFirst
<1>6. \A a \in made : a[1] \in taken /\ a[2] = attemptsCount[a[1]] + 1
  BY DEF NextAttempt
<1>7. \A a \in made : ~(a[2] <= attemptsCount[a[1]])
  <2>1. \A r \in Recipients : attemptsCount[r] \in Nat
    BY ConstantsAssumption DEF TypeOK
  <2>2. \A r \in Recipients : ~(attemptsCount[r] + 1 <= attemptsCount[r])
    BY <2>1
  <2> HIDE DEF made
  <2> QED BY <1>2, <1>6, <2>2
<1>8. \A a \in made : provider[a] = "idle" /\ \A v \in Workers : a \notin Held(v)
  BY <1>2, <1>7 DEF Ownership, Counted
<1>9. Held(w)' = made /\ \A v \in Workers \ {w} : Held(v)' = Held(v) /\ jobs'[v] = jobs[v]
  BY <1>1, <1>4, <1>5 DEF Held, TypeOK
<1>10. JobsFresh'
  <2>1. \A a \in made : attemptStatus'[a] = "queued"
    BY <1>1, <1>2
  <2>2. \A v \in Workers : \A a \in jobs[v] : a \in Attempts /\ attemptStatus'[a] = "queued"
    BY <1>1 DEF Ownership, JobsFresh, TypeOK
  <2>3. jobs'[w] = made /\ placed[w] = {} /\ failed[w] = {}
    BY <1>1, <1>5 DEF Held, TypeOK
  <2> QED
    BY <1>4, <1>8, <1>9, <2>1, <2>2, <2>3 DEF Ownership, JobsFresh
<1>11. HeldApart'
  BY <1>8, <1>9 DEF Ownership, HeldApart
<1>12. Counted'
  <2> SUFFICES ASSUME NEW a \in Attempts,
                      provider'[a] # "idle" \/ \E v \in Workers : a \in Held(v)'
               PROVE  a[2] <= attemptsCount'[a[1]]
    BY DEF Counted
  <2>1. /\ a[1] \in Recipients /\ a[2] \in Nat
        /\ attemptsCount[a[1]] \in Nat /\ attemptsCount'[a[1]] \in Nat
        /\ attemptsCount[a[1]] <= attemptsCount'[a[1]]
        /\ a[1] \in taken => attemptsCount'[a[1]] = attemptsCount[a[1]] + 1
    BY <1>1, AttemptParts, ConstantsAssumption DEF TypeOK
  <2>2. CASE a \in made
    BY <1>6, <2>1, <2>2
  <2>3. CASE a \notin made
    <3>1. a[2] <= attemptsCount[a[1]]
      BY <1>4, <1>9, <2>3 DEF Ownership, Counted
    <3> QED BY <2>1, <3>1
  <2> QED BY <2>2, <2>3
<1>13. EventsOfCalls'
  BY <1>4 DEF Ownership, EventsOfCalls
<1>14. SlotsFirst'
  BY <1>3, <1>5, <1>9 DEF Ownership, SlotsFirst, TypeOK
<1> QED
  BY <1>10, <1>11, <1>12, <1>13, <1>14 DEF Ownership

LEMMA OriginateOwnership ==
  ASSUME TypeOK, Ownership, NEW w \in Workers, NEW a \in Attempts, Originate(w, a)
  PROVE  Ownership'
<1>1. a \in jobs[w] /\ placed[w] = {} /\ failed[w] = {}
  BY DEF Originate
<1>2. jobs' = [jobs EXCEPT ![w] = @ \ {a}]
  BY DEF Originate
<1>3. \/ placed' = [placed EXCEPT ![w] = {a}] /\ failed' = failed
      \/ placed' = placed /\ failed' = [failed EXCEPT ![w] = {a}]
  BY DEF Originate
<1>4. provider' = provider \/ provider' = [provider EXCEPT ![a] = "dialing"]
  BY DEF Originate
<1>5. UNCHANGED <<slots, attemptStatus, attemptsCount, events, loaded>>
  BY DEF Originate, database, handlerVars
<1>6. \A v \in Workers : Held(v)' = Held(v)
  BY <1>1, <1>2, <1>3 DEF Held, TypeOK
<1>7. \A v \in Workers : /\ a \notin jobs'[v]
                         /\ jobs'[v] \subseteq jobs[v]
                         /\ v # w => placed'[v] = placed[v] /\ failed'[v] = failed[v]
                         /\ placed'[w] \union failed'[w] = {a}
  BY <1>1, <1>2, <1>3 DEF Ownership, HeldApart, Held, TypeOK
<1>8. JobsFresh'
  <2>1. \A b \in Attempts : b # a => provider'[b] = provider[b]
    BY <1>4 DEF TypeOK
  <2>2. \A v \in Workers : jobs'[v] \subseteq Attempts
    BY <1>7 DEF TypeOK
  <2> QED
    BY <1>5, <1>7, <2>1, <2>2 DEF Ownership, JobsFresh
<1>9. Counted'
  <2>1. a \in Held(w)
    BY <1>1 DEF Held
  <2>2. \A b \in Attempts : provider'[b] # "idle" => provider[b] # "idle" \/ b = a
    BY <1>4 DEF TypeOK
  <2>3. \A b \in Attempts : provider'[b] # "idle" \/ (\E v \in Workers : b \in Held(v)') =>
          provider[b] # "idle" \/ (\E v \in Workers : b \in Held(v))
    BY <1>6, <2>1, <2>2
  <2> QED
    BY <1>5, <2>3 DEF Ownership, Counted
<1>10. EventsOfCalls'
  <2>1. \A b \in Attempts : provider[b] # "idle" => provider'[b] # "idle"
    BY <1>4 DEF TypeOK
  <2> QED
    BY <1>5, <2>1, EventAttempts DEF Ownership, EventsOfCalls
<1> QED
  BY <1>5, <1>6, <1>8, <1>9, <1>10 DEF Ownership, HeldApart, SlotsFirst

(* A worker that drops attempts it no longer has in its jobs, and writes   *)
(* the rows of those attempts only.                                        *)
LEMMA SettleOwnership ==
  ASSUME TypeOK, Ownership, NEW w \in Workers, NEW a \in placed[w] \union failed[w],
         UNCHANGED <<jobs, slots, provider, attemptsCount, events, loaded>>,
         \A v \in Workers : placed'[v] \subseteq placed[v] /\ failed'[v] \subseteq failed[v],
         \A b \in Attempts : b # a => attemptStatus'[b] = attemptStatus[b]
  PROVE  Ownership'
<1>1. \A v \in Workers : Held(v)' \subseteq Held(v)
  BY DEF Held
<1>2. \A v \in Workers : a \notin jobs[v]
  BY DEF Ownership, JobsFresh, HeldApart, Held
<1>3. JobsFresh'
  BY <1>2 DEF Ownership, JobsFresh, TypeOK
<1>4. Counted'
  BY <1>1 DEF Ownership, Counted
<1> QED
  BY <1>1, <1>3, <1>4 DEF Ownership, HeldApart, EventsOfCalls, SlotsFirst

LEMMA RecordOwnership ==
  ASSUME TypeOK, Ownership, NEW w \in Workers, NEW a \in Attempts,
         RecordDialing(w, a) \/ RecordFailure(w, a)
  PROVE  Ownership'
<1>1. a \in placed[w] \union failed[w]
  BY DEF RecordDialing, RecordFailure
<1>2. UNCHANGED <<jobs, slots, provider, attemptsCount, events, loaded>>
  BY DEF RecordDialing, RecordFailure, handlerVars, callVars
<1>3. \A v \in Workers : placed'[v] \subseteq placed[v] /\ failed'[v] \subseteq failed[v]
  <2>1. /\ placed' = placed \/ placed' = [placed EXCEPT ![w] = {}]
        /\ failed' = failed \/ failed' = [failed EXCEPT ![w] = {}]
    BY DEF RecordDialing, RecordFailure
  <2> QED BY <2>1 DEF TypeOK
<1>4. \A b \in Attempts : b # a => attemptStatus'[b] = attemptStatus[b]
  <2>1. attemptStatus' = attemptStatus \/ \E s : attemptStatus' = [attemptStatus EXCEPT ![a] = s]
    BY DEF RecordDialing, RecordFailure
  <2> QED BY <2>1 DEF TypeOK
<1> QED
  BY <1>1, <1>2, <1>3, <1>4, SettleOwnership

LEMMA WorkerCrashOwnership ==
  ASSUME TypeOK, Ownership, NEW w \in Workers, WorkerCrash(w)
  PROVE  Ownership'
<1>1. UNCHANGED <<provider, attemptStatus, attemptsCount, events, loaded>>
  BY DEF WorkerCrash, database, handlerVars, callVars
<1>2. Held(w)' = {} /\ jobs'[w] = {} /\ slots'[w] = NoSlots
  BY DEF WorkerCrash, Held, TypeOK
<1>3. \A v \in Workers \ {w} : /\ Held(v)' = Held(v) /\ jobs'[v] = jobs[v]
                               /\ placed'[v] = placed[v] /\ failed'[v] = failed[v]
                               /\ slots'[v] = slots[v]
  BY DEF WorkerCrash, Held, TypeOK
<1>4. SlotsFirst'
  BY <1>2, <1>3 DEF Ownership, SlotsFirst, NoSlots
<1>5. JobsFresh' /\ HeldApart' /\ Counted'
  BY <1>1, <1>2, <1>3 DEF Ownership, JobsFresh, HeldApart, Counted
<1> QED
  BY <1>1, <1>4, <1>5 DEF Ownership, EventsOfCalls

LEMMA WorkerOwnership ==
  ASSUME TypeOK, Ownership, NEW w \in Workers, WorkerStep(w) \/ WorkerCrash(w)
  PROVE  Ownership'
<1>1. ASSUME NEW c \in Campaigns, DispatchRead(w, c) PROVE Ownership'
  <2>1. PICK n \in Nat : slots' = [slots EXCEPT ![w][c] = n]
    BY <1>1, FreeSlotsType DEF DispatchRead
  <2> QED
    BY <1>1, <2>1, SlotsOwnership DEF DispatchRead, database, handlerVars, callVars
<1>2. ASSUME NEW c \in Campaigns, DispatchPause(w, c) \/ DispatchFail(w, c) PROVE Ownership'
  <2>1. /\ slots' = [slots EXCEPT ![w][c] = 0]
        /\ UNCHANGED <<jobs, placed, failed, provider, attemptStatus, attemptsCount,
                       events, loaded>>
    BY <1>2 DEF DispatchPause, DispatchFail, handlerVars, callVars
  <2> QED
    BY <2>1, SlotsOwnership
<1> QED
  BY <1>1, <1>2, DispatchQueueOwnership, OriginateOwnership, RecordOwnership,
     WorkerCrashOwnership DEF WorkerStep

LEMMA HandlerOwnership ==
  ASSUME TypeOK, Ownership, NEW h \in Handlers, HandlerStep(h) \/ HandlerCrash(h)
  PROVE  Ownership'
<1>1. ASSUME NEW e \in events, EventRead(h, e) PROVE Ownership'
  <2>1. /\ UNCHANGED <<jobs, placed, failed, slots, provider, attemptStatus, attemptsCount>>
        /\ events' \subseteq events
    BY <1>1 DEF EventRead, database, workerVars
  <2>2. \A k \in Handlers : \A l \in loaded'[k] : l \in loaded[k] \/ l.event = e
    BY <1>1 DEF EventRead, TypeOK
  <2>3. EventsOfCalls'
    BY <2>1, <2>2 DEF Ownership, EventsOfCalls
  <2> QED
    BY <2>1, <2>3 DEF Ownership, JobsFresh, HeldApart, Counted, SlotsFirst, Held
<1>2. ASSUME NEW l \in loaded[h], EventCommit(h, l) PROVE Ownership'
  <2> DEFINE a == l.event.attempt
  <2>1. UNCHANGED <<jobs, placed, failed, slots, provider, attemptsCount, events>>
    BY <1>2 DEF EventCommit, workerVars, callVars
  <2>2. \A k \in Handlers : loaded'[k] \subseteq loaded[k]
    BY <1>2 DEF EventCommit, TypeOK
  <2>3. \A b \in Attempts : b # a => attemptStatus'[b] = attemptStatus[b]
    BY <1>2 DEF EventCommit, TypeOK
  <2>4. \A v \in Workers : a \notin jobs[v]
    BY DEF Ownership, JobsFresh, EventsOfCalls
  <2>5. \A v \in Workers : jobs[v] \subseteq Attempts
    BY DEF TypeOK
  <2>6. JobsFresh'
    BY <2>1, <2>3, <2>4, <2>5 DEF Ownership, JobsFresh
  <2> QED
    BY <2>1, <2>2, <2>6 DEF Ownership, HeldApart, Counted, EventsOfCalls, SlotsFirst, Held
<1>3. ASSUME \/ \E l \in loaded[h] : EventConflict(h, l)
             \/ \E c \in Campaigns : EventSettle(h, c) \/ EventComplete(h, c)
             \/ HandlerCrash(h)
      PROVE  Ownership'
  <2>1. /\ UNCHANGED <<jobs, placed, failed, slots, provider, attemptStatus, attemptsCount>>
        /\ events' \subseteq events
    BY <1>3 DEF EventConflict, EventSettle, EventComplete, HandlerCrash, database,
                workerVars, callVars
  <2>2. \A k \in Handlers : loaded'[k] \subseteq loaded[k]
    BY <1>3 DEF EventConflict, EventSettle, EventComplete, HandlerCrash, TypeOK
  <2> QED
    BY <2>1, <2>2, OwnershipFrame
<1> QED
  BY <1>1, <1>2, <1>3 DEF HandlerStep

LEMMA ProviderOwnership ==
  ASSUME TypeOK, Ownership, NEW a \in Attempts, ProviderStep(a)
  PROVE  Ownership'
<1>1. PICK status \in Progress \union Terminal, state \in {"ringing", "answered", "over"} :
        Report(a, status, state) /\ provider[a] \in {"dialing", "ringing", "answered"}
  BY ProviderParts
<1>2. UNCHANGED <<jobs, placed, failed, slots, attemptStatus, attemptsCount, loaded>>
  BY <1>1 DEF Report, database, workerVars, handlerVars
<1>3. \A b \in Attempts : provider'[b] # "idle" <=> provider[b] # "idle"
  BY <1>1 DEF Report, TypeOK
<1>4. JobsFresh'
  BY <1>2, <1>3 DEF Ownership, JobsFresh, TypeOK
<1>5. EventsOfCalls'
  <2>1. \A e \in events' : e \in events \/ e.attempt = a
    BY <1>1 DEF Report
  <2> QED
    BY <1>1, <1>2, <1>3, <2>1, EventAttempts DEF Ownership, EventsOfCalls
<1> QED
  BY <1>2, <1>3, <1>4, <1>5 DEF Ownership, HeldApart, Counted, SlotsFirst, Held

LEMMA NextOwnership == TypeOK /\ Ownership /\ [Next]_vars => Ownership'
<1> SUFFICES ASSUME TypeOK, Ownership, [Next]_vars PROVE Ownership'
  OBVIOUS
<1>1. ASSUME BeatStep \/ (\E r \in Recipients : RetryDue(r)) \/ UserStep \/ UNCHANGED vars
      PROVE  Ownership'
  <2>1. UNCHANGED <<jobs, placed, failed, slots, provider, attemptStatus, attemptsCount,
                    events, loaded>>
    BY <1>1 DEF BeatStep, BeatRead, BeatPromote, BeatEnqueue, RetryDue, UserStep, UserRead,
                UserWrite, UserRefused, AddDnc, DeleteDnc, vars, database, workerVars,
                beatVars, handlerVars, callVars
  <2> QED
    BY <2>1, OwnershipFrame
<1> QED
  BY <1>1, WorkerOwnership, HandlerOwnership, ProviderOwnership DEF Next

(* In every behaviour a reserved attempt is fresh, counted and held by one *)
(* worker, and every event is of a placed call.                            *)
THEOREM OwnershipInvariant == Spec => [](TypeOK /\ Ownership)
<1>1. Init => TypeOK /\ Ownership
  BY InitType, InitOwnership
<1>2. TypeOK /\ Ownership /\ [Next]_vars => TypeOK' /\ Ownership'
  BY NextType, NextOwnership
<1> QED
  BY <1>1, <1>2, PTL DEF Spec

(* No attempt is originated twice, in any environment.                     *)
THEOREM ReservedOnceHolds == Spec => []ReservedOnce
<1>1. TypeOK /\ Ownership => ReservedOnce
  BY DEF Ownership, JobsFresh, HeldApart, Held, ReservedOnce
<1> QED
  BY <1>1, OwnershipInvariant, PTL

-----------------------------------------------------------------------------
(* Suppression and opt-outs                                                *)

(* The steps that write the recipient rows.                                *)
LEMMA RowSteps ==
  ASSUME [Next]_vars
  PROVE  \/ UNCHANGED <<recipientStatus, attemptsCount>>
         \/ \E w \in Workers, c \in Campaigns : DispatchQueue(w, c) \/ DispatchFail(w, c)
         \/ \E w \in Workers, a \in Attempts : RecordDialing(w, a) \/ RecordFailure(w, a)
         \/ \E h \in Handlers : \E l \in loaded[h] : EventCommit(h, l)
         \/ \E u \in Users : \E q \in decided[u] : UserWrite(u, q)
<1>1. ASSUME NEW w \in Workers,
             \/ \E c \in Campaigns : DispatchRead(w, c) \/ DispatchPause(w, c)
             \/ \E a \in Attempts : Originate(w, a)
             \/ WorkerCrash(w)
      PROVE  UNCHANGED <<recipientStatus, attemptsCount>>
  BY <1>1 DEF DispatchRead, DispatchPause, Originate, WorkerCrash, database
<1>2. ASSUME NEW h \in Handlers,
             \/ \E e \in events : EventRead(h, e)
             \/ \E l \in loaded[h] : EventConflict(h, l)
             \/ \E c \in Campaigns : EventSettle(h, c) \/ EventComplete(h, c)
             \/ HandlerCrash(h)
      PROVE  UNCHANGED <<recipientStatus, attemptsCount>>
  BY <1>2 DEF EventRead, EventConflict, EventSettle, EventComplete, HandlerCrash, database
<1>3. ASSUME \/ \E u \in Users : \/ \E op \in CampaignOps, c \in Campaigns : UserRead(u, op, c)
                                 \/ \E q \in decided[u] : UserRefused(u, q)
             \/ \E p \in Phones : AddDnc(p) \/ DeleteDnc(p)
             \/ BeatStep \/ \E r \in Recipients : RetryDue(r)
             \/ UNCHANGED vars
      PROVE  UNCHANGED <<recipientStatus, attemptsCount>>
  BY <1>3 DEF UserRead, UserRefused, AddDnc, DeleteDnc, BeatStep, BeatRead, BeatPromote,
              BeatEnqueue, RetryDue, vars, database
<1>4. ASSUME NEW a \in Attempts, ProviderStep(a)
      PROVE  UNCHANGED <<recipientStatus, attemptsCount>>
  BY <1>4, ProviderParts DEF Report, database
<1> QED
  BY <1>1, <1>2, <1>3, <1>4 DEF Next, WorkerStep, HandlerStep, UserStep

(* Whom a reservation touches.                                             *)
LEMMA DispatchRows ==
  ASSUME NEW w \in Workers, NEW c \in Campaigns, DispatchQueue(w, c) \/ DispatchFail(w, c),
         NEW r \in Recipients
  PROVE  \/ recipientStatus'[r] = recipientStatus[r] /\ attemptsCount'[r] = attemptsCount[r]
         \/ recipientStatus[r] = "pending" /\ recipientStatus'[r] \in {"queued", "failed"}
  BY DEF DispatchQueue, DispatchFail, Candidates

(* A counted attempt belongs to a recipient that has been reserved.        *)
LEMMA CountedPositive ==
  ASSUME TypeOK, Ownership, NEW a \in Attempts,
         provider[a] # "idle" \/ \E w \in Workers : a \in Held(w)
  PROVE  attemptsCount[a[1]] # 0
<1>1. a[2] <= attemptsCount[a[1]]
  BY DEF Ownership, Counted
<1>2. a[2] \in Nat \ {0}
  BY AttemptParts, ConstantsAssumption
<1> QED BY <1>1, <1>2

LEMMA SuppressedStep ==
  ASSUME TypeOK, Ownership, [Next]_vars, NEW r \in Recipients,
         recipientStatus[r] = "do_not_call", attemptsCount[r] = 0
  PROVE  recipientStatus'[r] = "do_not_call" /\ attemptsCount'[r] = 0
<1>1. CASE UNCHANGED <<recipientStatus, attemptsCount>>
  BY <1>1
<1>2. CASE \E w \in Workers, c \in Campaigns : DispatchQueue(w, c) \/ DispatchFail(w, c)
  BY <1>2, DispatchRows
<1>3. CASE \E w \in Workers, a \in Attempts : RecordDialing(w, a) \/ RecordFailure(w, a)
  <2>1. PICK w \in Workers, a \in Attempts : RecordDialing(w, a) \/ RecordFailure(w, a)
    BY <1>3
  <2>2. a \in Held(w)
    BY <2>1 DEF RecordDialing, RecordFailure, Held
  <2>3. a[1] # r
    BY <2>2, CountedPositive
  <2> QED
    BY <2>1, <2>3 DEF RecordDialing, RecordFailure, TypeOK
<1>4. CASE \E h \in Handlers : \E l \in loaded[h] : EventCommit(h, l)
  <2>1. PICK h \in Handlers : \E l \in loaded[h] : EventCommit(h, l)
    BY <1>4
  <2>2. PICK l \in loaded[h] : EventCommit(h, l)
    BY <2>1
  <2>3. l.event.attempt \in Attempts /\ provider[l.event.attempt] # "idle"
    BY EventAttempts DEF Ownership, EventsOfCalls
  <2>4. l.event.attempt[1] # r
    BY <2>3, CountedPositive
  <2> QED
    BY <2>2, <2>4 DEF EventCommit, TypeOK
<1>5. CASE \E u \in Users : \E q \in decided[u] : UserWrite(u, q)
  BY <1>5 DEF UserWrite, Cancels
<1> QED
  BY <1>1, <1>2, <1>3, <1>4, <1>5, RowSteps

(* Suppressed contacts are never reserved and never revived.               *)
THEOREM SuppressedStaysHolds == Spec => SuppressedStays
<1>1. TypeOK /\ Ownership /\ [Next]_vars =>
        \A r \in Recipients :
          recipientStatus[r] = "do_not_call" /\ attemptsCount[r] = 0 =>
            recipientStatus'[r] = "do_not_call" /\ attemptsCount'[r] = 0
  BY SuppressedStep
<1> QED
  BY <1>1, OwnershipInvariant, PTL DEF Spec, SuppressedStays

(* A handler that saw a number listed still finds it listed.               *)
ListedSeen == \A h \in Handlers : \A l \in loaded[h] :
  l.listed => PhoneOf[l.event.attempt[1]] \in dnc

LEMMA LoadedSteps ==
  ASSUME TypeOK, [Next]_vars
  PROVE  \/ \A h \in Handlers : loaded'[h] \subseteq loaded[h]
         \/ \E h \in Handlers : \E e \in events : EventRead(h, e)
<1>1. ASSUME NEW w \in Workers, WorkerStep(w) \/ WorkerCrash(w) PROVE UNCHANGED loaded
  BY <1>1 DEF WorkerStep, WorkerCrash, DispatchRead, DispatchQueue, DispatchPause,
              DispatchFail, Originate, RecordDialing, RecordFailure, handlerVars
<1>2. ASSUME BeatStep \/ (\E r \in Recipients : RetryDue(r)) \/ UserStep
               \/ (\E a \in Attempts : ProviderStep(a)) \/ UNCHANGED vars
      PROVE  UNCHANGED loaded
  BY <1>2, ProviderParts
     DEF BeatStep, BeatRead, BeatPromote, BeatEnqueue, RetryDue, UserStep, UserRead, UserWrite,
         UserRefused, AddDnc, DeleteDnc, Report, vars, handlerVars
<1>3. ASSUME NEW h \in Handlers,
             \/ \E l \in loaded[h] : EventCommit(h, l) \/ EventConflict(h, l)
             \/ \E c \in Campaigns : EventSettle(h, c) \/ EventComplete(h, c)
             \/ HandlerCrash(h)
      PROVE  \A k \in Handlers : loaded'[k] \subseteq loaded[k]
  BY <1>3 DEF EventCommit, EventConflict, EventSettle, EventComplete, HandlerCrash, TypeOK
<1> QED
  BY <1>1, <1>2, <1>3 DEF Next, HandlerStep

(* Nothing the system does changes its environment.                        *)
LEMMA EnvRigid == [Next]_vars => UNCHANGED env
<1>1. ASSUME NEW w \in Workers, WorkerStep(w) \/ WorkerCrash(w) PROVE UNCHANGED env
  BY <1>1 DEF WorkerStep, WorkerCrash, DispatchRead, DispatchQueue, DispatchPause,
              DispatchFail, Originate, RecordDialing, RecordFailure
<1>2. ASSUME BeatStep \/ (\E r \in Recipients : RetryDue(r))
               \/ (\E a \in Attempts : ProviderStep(a)) \/ UserStep \/ UNCHANGED vars
      PROVE  UNCHANGED env
  BY <1>2, ProviderParts
     DEF BeatStep, BeatRead, BeatPromote, BeatEnqueue, RetryDue, Report, UserStep, UserRead,
         UserWrite, UserRefused, AddDnc, DeleteDnc, vars
<1>3. ASSUME NEW h \in Handlers, HandlerStep(h) \/ HandlerCrash(h) PROVE UNCHANGED env
  BY <1>3 DEF HandlerStep, EventRead, EventCommit, EventConflict, EventSettle, EventComplete,
              HandlerCrash
<1> QED
  BY <1>1, <1>2, <1>3 DEF Next

LEMMA DncGrows ==
  ASSUME [Next]_vars, "delete_dnc" \notin env.requests
  PROVE  dnc \subseteq dnc'
<1>1. ASSUME NEW w \in Workers, WorkerStep(w) \/ WorkerCrash(w) PROVE UNCHANGED dnc
  BY <1>1 DEF WorkerStep, WorkerCrash, DispatchRead, DispatchQueue, DispatchPause,
              DispatchFail, Originate, RecordDialing, RecordFailure, database
<1>2. ASSUME BeatStep \/ (\E r \in Recipients : RetryDue(r))
               \/ (\E a \in Attempts : ProviderStep(a)) \/ UNCHANGED vars
      PROVE  UNCHANGED dnc
  BY <1>2, ProviderParts
     DEF BeatStep, BeatRead, BeatPromote, BeatEnqueue, RetryDue, Report, vars, database
<1>3. ASSUME NEW h \in Handlers, HandlerStep(h) \/ HandlerCrash(h) PROVE dnc \subseteq dnc'
  BY <1>3 DEF HandlerStep, EventRead, EventCommit, EventConflict, EventSettle, EventComplete,
              HandlerCrash, database
<1>4. CASE UserStep
  BY <1>4 DEF UserStep, UserRead, UserWrite, UserRefused, AddDnc, DeleteDnc, database
<1> QED
  BY <1>1, <1>2, <1>3, <1>4 DEF Next

LEMMA ListedStep ==
  ASSUME TypeOK, ListedSeen, [Next]_vars, "delete_dnc" \notin env.requests
  PROVE  ListedSeen'
<1>1. CASE \A h \in Handlers : loaded'[h] \subseteq loaded[h]
  BY <1>1, DncGrows DEF ListedSeen
<1>2. CASE \E h \in Handlers : \E e \in events : EventRead(h, e)
  <2>1. PICK h \in Handlers : \E e \in events : EventRead(h, e)
    BY <1>2
  <2>2. PICK e \in events : EventRead(h, e)
    BY <2>1
  <2> DEFINE seen == [event |-> e, recipient |-> recipientStatus[e.attempt[1]],
                      count |-> attemptsCount[e.attempt[1]],
                      campaign |-> campaignStatus[CampaignOf[e.attempt[1]]],
                      attempt |-> attemptStatus[e.attempt],
                      listed |-> e.status = "do_not_call" /\ PhoneOf[e.attempt[1]] \in dnc]
  <2>3. loaded' = [loaded EXCEPT ![h] = {seen}]
    BY <2>2 DEF EventRead
  <2>4. seen.event = e /\ (seen.listed => PhoneOf[seen.event.attempt[1]] \in dnc)
    BY Zenon
  <2> HIDE DEF seen
  <2>5. \A k \in Handlers : \A l \in loaded'[k] : l \in loaded[k] \/ l = seen
    BY <2>3 DEF TypeOK
  <2> QED
    BY <2>4, <2>5, DncGrows DEF ListedSeen
<1> QED
  BY <1>1, <1>2, LoadedSteps

LEMMA OptOutStep ==
  ASSUME TypeOK, ListedSeen, OptOutListed, [Next]_vars, "delete_dnc" \notin env.requests
  PROVE  OptOutListed'
<1> SUFFICES ASSUME NEW r \in Recipients,
                    recipientStatus'[r] = "do_not_call", attemptsCount'[r] > 0
             PROVE  PhoneOf[r] \in dnc'
  BY DEF OptOutListed
<1>1. recipientStatus[r] = "do_not_call" /\ attemptsCount[r] > 0 => PhoneOf[r] \in dnc'
  BY DncGrows DEF OptOutListed
<1>2. CASE UNCHANGED <<recipientStatus, attemptsCount>>
  BY <1>1, <1>2
<1>3. CASE \E w \in Workers, c \in Campaigns : DispatchQueue(w, c) \/ DispatchFail(w, c)
  BY <1>1, <1>3, DispatchRows
<1>4. CASE \E w \in Workers, a \in Attempts : RecordDialing(w, a) \/ RecordFailure(w, a)
  BY <1>1, <1>4 DEF RecordDialing, RecordFailure, Refused, TypeOK
<1>5. CASE \E h \in Handlers : \E l \in loaded[h] : EventCommit(h, l)
  <2>1. PICK h \in Handlers : \E l \in loaded[h] : EventCommit(h, l)
    BY <1>5
  <2>2. PICK l \in loaded[h] : EventCommit(h, l)
    BY <2>1
  <2>3. attemptsCount' = attemptsCount
    BY <2>2 DEF EventCommit
  <2>4. CASE recipientStatus'[r] = recipientStatus[r]
    BY <1>1, <2>3, <2>4
  <2>5. CASE recipientStatus'[r] # recipientStatus[r]
    <3>1. r = l.event.attempt[1] /\ NewStatus(l) = "do_not_call" /\ NewStatus(l) # l.recipient
      BY <2>2, <2>5 DEF EventCommit, TypeOK
    <3>2. l.event.status = "do_not_call"
      BY <3>1 DEF NewStatus
    <3>3. CASE l.listed
      BY <3>1, <3>3, DncGrows DEF ListedSeen
    <3>4. CASE ~l.listed
      <4>1. OptsOut(l)
        BY <3>2, <3>4 DEF OptsOut
      <4> QED
        BY <2>2, <3>1, <4>1 DEF EventCommit
    <3> QED
      BY <3>3, <3>4
  <2> QED
    BY <2>4, <2>5
<1>6. CASE \E u \in Users : \E q \in decided[u] : UserWrite(u, q)
  BY <1>1, <1>6 DEF UserWrite
<1> QED
  BY <1>2, <1>3, <1>4, <1>5, <1>6, RowSteps

(* Who opted out stays listed while nobody removes entries.                *)
THEOREM OptOutListedHolds == Spec => []OptOutListed
<1> DEFINE Inv == TypeOK /\ ("delete_dnc" \notin env.requests => ListedSeen /\ OptOutListed)
<1>1. Init => Inv
  BY InitType, ConstantsAssumption DEF Init, ListedSeen, OptOutListed
<1>2. Inv /\ [Next]_vars => Inv'
  BY NextType, ListedStep, OptOutStep, EnvRigid
<1>3. Inv => OptOutListed
  BY DEF OptOutListed
<1> QED
  BY <1>1, <1>2, <1>3, PTL DEF Spec

-----------------------------------------------------------------------------
(* Every QUEUED recipient is held by a worker                              *)

(* A worker commits the outcome of one call before it places the next.     *)
OneOutcome == \A w \in Workers : \A a, b \in placed[w] \union failed[w] : a = b

LEMMA OutcomeStep == TypeOK /\ OneOutcome /\ [Next]_vars => OneOutcome'
<1> SUFFICES ASSUME TypeOK, OneOutcome, [Next]_vars PROVE OneOutcome'
  OBVIOUS
<1>1. ASSUME NEW w \in Workers,
             \/ \E c \in Campaigns : DispatchRead(w, c) \/ DispatchQueue(w, c)
                                     \/ DispatchPause(w, c) \/ DispatchFail(w, c)
             \/ \E a \in Attempts : RecordDialing(w, a) \/ RecordFailure(w, a)
             \/ WorkerCrash(w)
      PROVE  \A v \in Workers : placed'[v] \subseteq placed[v] /\ failed'[v] \subseteq failed[v]
  <2>1. /\ placed' = placed \/ placed' = [placed EXCEPT ![w] = {}]
        /\ failed' = failed \/ failed' = [failed EXCEPT ![w] = {}]
    BY <1>1 DEF DispatchRead, DispatchQueue, DispatchPause, DispatchFail, RecordDialing,
                RecordFailure, WorkerCrash
  <2> QED
    BY <2>1 DEF TypeOK
<1>2. ASSUME BeatStep \/ (\E r \in Recipients : RetryDue(r)) \/ UserStep
               \/ (\E h \in Handlers : HandlerStep(h) \/ HandlerCrash(h))
               \/ (\E a \in Attempts : ProviderStep(a)) \/ UNCHANGED vars
      PROVE  UNCHANGED <<placed, failed>>
  BY <1>2, ProviderParts
     DEF BeatStep, BeatRead, BeatPromote, BeatEnqueue, RetryDue, UserStep, UserRead, UserWrite,
         UserRefused, AddDnc, DeleteDnc, HandlerStep, EventRead, EventCommit, EventConflict,
         EventSettle, EventComplete, HandlerCrash, Report, vars, workerVars
<1>3. ASSUME NEW w \in Workers, NEW a \in Attempts, Originate(w, a) PROVE OneOutcome'
  <2>1. \/ placed' = [placed EXCEPT ![w] = {a}] /\ failed' = failed
        \/ placed' = placed /\ failed' = [failed EXCEPT ![w] = {a}]
    BY <1>3 DEF Originate
  <2>2. placed[w] = {} /\ failed[w] = {}
    BY <1>3 DEF Originate
  <2>3. \A v \in Workers : \/ placed'[v] \union failed'[v] = placed[v] \union failed[v]
                           \/ placed'[v] \union failed'[v] = {a}
    BY <2>1, <2>2 DEF TypeOK
  <2> QED
    BY <2>3 DEF OneOutcome
<1> QED
  BY <1>1, <1>2, <1>3 DEF Next, WorkerStep, OneOutcome

(* QueuedHasWorker does not depend on the steps that keep the rows and let *)
(* no worker drop an attempt.                                              *)
LEMMA QueuedFrame ==
  ASSUME QueuedHasWorker, UNCHANGED <<env, attemptsCount>>,
         \A r \in Recipients : recipientStatus'[r] = "queued" => recipientStatus[r] = "queued",
         \A w \in Workers : Held(w) \subseteq Held(w)'
  PROVE  QueuedHasWorker'
  BY DEF QueuedHasWorker

LEMMA QueuedDispatch ==
  ASSUME TypeOK, Ownership, QueuedHasWorker,
         NEW w \in Workers, NEW c \in Campaigns, DispatchQueue(w, c)
  PROVE  QueuedHasWorker'
<1>1. PICK scanned \in SUBSET Candidates(c), taken \in SUBSET Candidates(c) :
        /\ attemptsCount' = [r \in Recipients |->
             IF r \in taken THEN attemptsCount[r] + 1 ELSE attemptsCount[r]]
        /\ recipientStatus' = [r \in Recipients |->
             IF r \in taken THEN "queued"
             ELSE IF r \in scanned \intersect Unresolved THEN "failed"
             ELSE recipientStatus[r]]
        /\ jobs' = [jobs EXCEPT ![w] = {NextAttempt(r) : r \in taken}]
  BY DEF DispatchQueue
<1>2. Held(w) = {}
  BY DEF DispatchQueue, Ownership, SlotsFirst
<1>3. UNCHANGED <<env, placed, failed>>
  BY DEF DispatchQueue
<1>4. \A v \in Workers : Held(v) \subseteq Held(v)'
  BY <1>1, <1>2, <1>3 DEF Held, TypeOK
<1>5. \A r \in taken : <<r, attemptsCount'[r]>> \in Held(w)'
  <2>1. taken \subseteq Recipients
    BY DEF Candidates, RecipientsOf
  <2>2. jobs'[w] = {NextAttempt(r) : r \in taken}
    BY <1>1 DEF TypeOK
  <2> QED
    BY <1>1, <2>1, <2>2 DEF Held, NextAttempt
<1> QED
  BY <1>1, <1>3, <1>4, <1>5 DEF QueuedHasWorker

(* The recorded outcome takes its recipient out of QUEUED.                 *)
LEMMA QueuedRecord ==
  ASSUME TypeOK, OneOutcome, QueuedHasWorker, NEW w \in Workers, NEW a \in Attempts,
         RecordDialing(w, a) \/ RecordFailure(w, a)
  PROVE  QueuedHasWorker'
<1>1. a \in placed[w] \union failed[w] /\ UNCHANGED <<env, jobs, attemptsCount>>
  BY DEF RecordDialing, RecordFailure
<1>2. \A r \in Recipients : recipientStatus'[r] = "queued" =>
        recipientStatus[r] = "queued" /\ r # a[1]
  BY AttemptParts DEF RecordDialing, RecordFailure, Refused, TypeOK
<1>3. \A v \in Workers : Held(v) \ {a} \subseteq Held(v)'
  <2>1. placed[w] \union failed[w] = {a}
    BY <1>1 DEF OneOutcome
  <2>2. \A v \in Workers \ {w} : placed'[v] = placed[v] /\ failed'[v] = failed[v]
    BY DEF RecordDialing, RecordFailure, TypeOK
  <2> QED
    BY <1>1, <2>1, <2>2 DEF Held
<1>4. \A r \in Recipients : r # a[1] => <<r, attemptsCount[r]>> # a
  OBVIOUS
<1> QED
  BY <1>1, <1>2, <1>3, <1>4 DEF QueuedHasWorker

(* A handler writes QUEUED only where it found QUEUED, and then nothing.   *)
LEMMA QueuedCommit ==
  ASSUME TypeOK, QueuedHasWorker, NEW h \in Handlers, NEW l \in loaded[h], EventCommit(h, l)
  PROVE  QueuedHasWorker'
<1>1. NewStatus(l) = "queued" => NewStatus(l) = l.recipient
  <2>1. l.event.status # "queued"
    BY LoadedParts DEF Progress, Terminal, Retryable
  <2> QED
    BY <2>1 DEF NewStatus
<1>2. \A r \in Recipients : recipientStatus'[r] = "queued" => recipientStatus[r] = "queued"
  BY <1>1 DEF EventCommit, TypeOK
<1>3. UNCHANGED <<env, attemptsCount, jobs, placed, failed>>
  BY DEF EventCommit, workerVars
<1> QED
  BY <1>2, <1>3, QueuedFrame DEF Held

LEMMA QueuedStep ==
  ASSUME TypeOK, Ownership, OneOutcome, QueuedHasWorker, [Next]_vars
  PROVE  QueuedHasWorker'
<1> SUFFICES ASSUME "crash" \notin env.faults PROVE QueuedHasWorker'
  BY EnvRigid DEF QueuedHasWorker
<1>1. ASSUME NEW w \in Workers,
             NEW c \in Campaigns, DispatchRead(w, c) \/ DispatchPause(w, c) \/ DispatchFail(w, c)
      PROVE  QueuedHasWorker'
  <2>1. UNCHANGED <<env, attemptsCount, jobs, placed, failed>>
    BY <1>1 DEF DispatchRead, DispatchPause, DispatchFail, database
  <2>2. \A r \in Recipients : recipientStatus'[r] = "queued" => recipientStatus[r] = "queued"
    BY <1>1 DEF DispatchRead, DispatchPause, DispatchFail, database
  <2> QED
    BY <2>1, <2>2, QueuedFrame DEF Held
<1>2. ASSUME NEW w \in Workers, NEW a \in Attempts, Originate(w, a) PROVE QueuedHasWorker'
  <2>1. UNCHANGED <<env, recipientStatus, attemptsCount>>
    BY <1>2 DEF Originate, database
  <2>2. \A v \in Workers : Held(v) \subseteq Held(v)'
    <3>1. /\ jobs' = [jobs EXCEPT ![w] = @ \ {a}]
          /\ \/ placed' = [placed EXCEPT ![w] = {a}] /\ failed' = failed
             \/ placed' = placed /\ failed' = [failed EXCEPT ![w] = {a}]
          /\ placed[w] = {} /\ failed[w] = {}
      BY <1>2 DEF Originate
    <3> QED BY <3>1 DEF Held, TypeOK
  <2> QED
    BY <2>1, <2>2, QueuedFrame
<1>3. ASSUME NEW h \in Handlers,
             \/ \E e \in events : EventRead(h, e)
             \/ \E l \in loaded[h] : EventConflict(h, l)
             \/ \E c \in Campaigns : EventSettle(h, c) \/ EventComplete(h, c)
             \/ HandlerCrash(h)
      PROVE  UNCHANGED <<env, recipientStatus, attemptsCount, jobs, placed, failed>>
  BY <1>3 DEF EventRead, EventConflict, EventSettle, EventComplete, HandlerCrash, database,
              workerVars
<1>4. ASSUME BeatStep \/ (\E r \in Recipients : RetryDue(r))
               \/ (\E a \in Attempts : ProviderStep(a)) \/ UNCHANGED vars
      PROVE  UNCHANGED <<env, recipientStatus, attemptsCount, jobs, placed, failed>>
  BY <1>4, ProviderParts
     DEF BeatStep, BeatRead, BeatPromote, BeatEnqueue, RetryDue, Report, vars, database,
         workerVars
<1>5. ASSUME UserStep PROVE QueuedHasWorker'
  <2>1. UNCHANGED <<env, attemptsCount, jobs, placed, failed>>
    BY <1>5 DEF UserStep, UserRead, UserWrite, UserRefused, AddDnc, DeleteDnc, database,
                workerVars
  <2>2. \A r \in Recipients : recipientStatus'[r] = "queued" => recipientStatus[r] = "queued"
    BY <1>5 DEF UserStep, UserRead, UserWrite, UserRefused, AddDnc, DeleteDnc, database
  <2> QED
    BY <2>1, <2>2, QueuedFrame DEF Held
<1>6. ASSUME UNCHANGED <<env, recipientStatus, attemptsCount, jobs, placed, failed>>
      PROVE  QueuedHasWorker'
  BY <1>6, QueuedFrame DEF Held
<1>7. ASSUME NEW w \in Workers, WorkerStep(w) \/ WorkerCrash(w) PROVE QueuedHasWorker'
  BY <1>1, <1>2, <1>7, QueuedDispatch, QueuedRecord DEF WorkerStep, WorkerCrash
<1>8. ASSUME NEW h \in Handlers, HandlerStep(h) \/ HandlerCrash(h) PROVE QueuedHasWorker'
  BY <1>3, <1>6, <1>8, QueuedCommit DEF HandlerStep
<1> QED
  BY <1>4, <1>5, <1>6, <1>7, <1>8 DEF Next

(* Without crashes nobody is left QUEUED with no worker to call them.      *)
THEOREM QueuedHasWorkerHolds == Spec => []QueuedHasWorker
<1>1. Init => OneOutcome /\ QueuedHasWorker
  BY DEF Init, OneOutcome, QueuedHasWorker
<1>2. TypeOK /\ Ownership /\ OneOutcome /\ QueuedHasWorker /\ [Next]_vars =>
        OneOutcome' /\ QueuedHasWorker'
  BY OutcomeStep, QueuedStep
<1> QED
  BY <1>1, <1>2, OwnershipInvariant, PTL DEF Spec

-----------------------------------------------------------------------------
(* One call at a time.  A recipient has at most one token: an attempt that *)
(* is reserved, refused, being talked on, or ended by an event nobody has  *)
(* applied yet.  The token is the latest attempt, its recipient is not     *)
(* PENDING, and whoever makes the recipient PENDING again spends it.       *)
Ends(e) == e.status \in Terminal
Token(a) == \/ \E w \in Workers : a \in jobs[w] \union failed[w]
            \/ Live(a)
            \/ \E e \in events : e.attempt = a /\ Ends(e)
            \/ \E h \in Handlers : \E l \in loaded[h] : l.event.attempt = a /\ Ends(l.event)
TokenLatest == \A a \in Attempts : Token(a) =>
  a[2] = attemptsCount[a[1]] /\ recipientStatus[a[1]] # "pending"
TokenKinds ==
  /\ \A w \in Workers : \A a \in failed[w] : provider[a] = "idle"
  /\ \A e \in events : Ends(e) => provider[e.attempt] = "over"
  /\ \A h \in Handlers : \A l \in loaded[h] : Ends(l.event) =>
       provider[l.event.attempt] = "over" /\ l.count = attemptsCount[l.event.attempt[1]]
TokenOnce ==
  /\ \A e, f \in events : Ends(e) /\ Ends(f) /\ e.attempt = f.attempt => e = f
  /\ \A e \in events : \A h \in Handlers : \A l \in loaded[h] :
       Ends(e) /\ Ends(l.event) => e.attempt # l.event.attempt
  /\ \A h, k \in Handlers : \A l \in loaded[h] : \A m \in loaded[k] :
       Ends(l.event) /\ Ends(m.event) /\ l.event.attempt = m.event.attempt => h = k /\ l = m
Budget == \A r \in Recipients :
  /\ attemptsCount[r] <= MaxAttempts
  /\ recipientStatus[r] = "pending" => attemptsCount[r] < MaxAttempts
OneToken == TokenLatest /\ TokenKinds /\ TokenOnce /\ Budget

LEMMA InitToken == Init => OneToken
  BY ConstantsAssumption
     DEF Init, OneToken, TokenLatest, TokenKinds, TokenOnce, Budget, Token, Live

(* Steps that create no token, no PENDING recipient and no call.           *)
LEMMA TokenFrame ==
  ASSUME OneToken, UNCHANGED <<attemptsCount, provider>>,
         \A r \in Recipients : recipientStatus'[r] = "pending" => recipientStatus[r] = "pending",
         \A w \in Workers : jobs'[w] \subseteq jobs[w] /\ failed'[w] \subseteq failed[w],
         events' \subseteq events,
         \A h \in Handlers : loaded'[h] \subseteq loaded[h]
  PROVE  OneToken'
<1>1. \A a \in Attempts : Token(a)' => Token(a)
  BY DEF Token, Live
<1>2. TokenLatest'
  BY <1>1, AttemptParts DEF OneToken, TokenLatest
<1>3. TokenKinds' /\ TokenOnce'
  BY DEF OneToken, TokenKinds, TokenOnce
<1>4. Budget'
  BY DEF OneToken, Budget
<1> QED
  BY <1>2, <1>3, <1>4 DEF OneToken

(* Spending a token lets its recipient be reserved again.                  *)
LEMMA SpendToken ==
  ASSUME TypeOK, OneToken, NEW a \in Attempts, Token(a), UNCHANGED attemptsCount,
         \A r \in Recipients : r # a[1] => recipientStatus'[r] = recipientStatus[r],
         recipientStatus'[a[1]] = "pending" => a[2] < MaxAttempts,
         \A b \in Attempts : Token(b)' => Token(b) /\ b # a
  PROVE  TokenLatest' /\ Budget'
<1>1. a[2] = attemptsCount[a[1]]
  BY DEF OneToken, TokenLatest
<1>2. \A b \in Attempts : Token(b)' => b[1] # a[1]
  BY <1>1, AttemptParts DEF OneToken, TokenLatest
<1>3. TokenLatest'
  BY <1>2, AttemptParts DEF OneToken, TokenLatest
<1>4. Budget'
  BY <1>1 DEF OneToken, Budget
<1> QED
  BY <1>3, <1>4

LEMMA DispatchQueueToken ==
  ASSUME TypeOK, Ownership, OneToken,
         NEW w \in Workers, NEW c \in Campaigns, DispatchQueue(w, c)
  PROVE  OneToken'
<1>1. PICK scanned \in SUBSET Candidates(c), taken \in SUBSET Candidates(c) :
        /\ attemptsCount' = [r \in Recipients |->
             IF r \in taken THEN attemptsCount[r] + 1 ELSE attemptsCount[r]]
        /\ recipientStatus' = [r \in Recipients |->
             IF r \in taken THEN "queued"
             ELSE IF r \in scanned \intersect Unresolved THEN "failed"
             ELSE recipientStatus[r]]
        /\ jobs' = [jobs EXCEPT ![w] = {NextAttempt(r) : r \in taken}]
  BY DEF DispatchQueue
<1> DEFINE made == {NextAttempt(r) : r \in taken}
<1>2. UNCHANGED <<failed, provider, events, loaded>>
  BY DEF DispatchQueue, handlerVars, callVars
<1>3. taken \subseteq Recipients /\ \A r \in taken : recipientStatus[r] = "pending"
  BY DEF Candidates, RecipientsOf
<1>4. \A a \in made : a[1] \in taken /\ a[2] = attemptsCount[a[1]] + 1
  BY DEF NextAttempt
<1>5. \A a \in Attempts : Token(a)' => Token(a) \/ a \in made
  <2>1. \A v \in Workers : jobs'[v] \subseteq jobs[v] \union made
    BY <1>1 DEF TypeOK
  <2> QED
    BY <1>2, <2>1 DEF Token, Live
<1>6. \A a \in Attempts : Token(a) => a[1] \notin taken
  BY <1>3 DEF OneToken, TokenLatest
<1>7. TokenLatest'
  <2> SUFFICES ASSUME NEW a \in Attempts, Token(a)'
               PROVE  a[2] = attemptsCount'[a[1]] /\ recipientStatus'[a[1]] # "pending"
    BY DEF TokenLatest
  <2>1. CASE a \in made
    BY <1>1, <1>3, <1>4, <2>1
  <2>2. CASE Token(a)
    BY <1>1, <1>6, <2>2, AttemptParts DEF OneToken, TokenLatest
  <2> QED
    BY <1>5, <2>1, <2>2
<1>8. TokenKinds'
  <2>1. \A h \in Handlers : \A l \in loaded[h] : Ends(l.event) => Token(l.event.attempt)
    BY DEF Token
  <2>2. \A h \in Handlers : \A l \in loaded[h] : Ends(l.event) =>
          attemptsCount'[l.event.attempt[1]] = attemptsCount[l.event.attempt[1]]
    BY <1>1, <1>6, <2>1, EventAttempts, AttemptParts
  <2> QED
    BY <1>2, <2>2 DEF OneToken, TokenKinds
<1>9. TokenOnce'
  BY <1>2 DEF OneToken, TokenOnce
<1>10. Budget'
  <2>1. \A r \in Recipients : attemptsCount[r] \in Nat
    BY ConstantsAssumption DEF TypeOK
  <2>2. \A r \in taken : attemptsCount[r] < MaxAttempts
    BY <1>3 DEF OneToken, Budget
  <2>3. \A r \in taken : attemptsCount[r] + 1 <= MaxAttempts
    BY <1>3, <2>1, <2>2, ConstantsAssumption
  <2> QED
    BY <1>1, <2>3 DEF OneToken, Budget
<1> QED
  BY <1>7, <1>8, <1>9, <1>10 DEF OneToken

LEMMA OriginateToken ==
  ASSUME TypeOK, Ownership, OneToken, Reliable,
         NEW w \in Workers, NEW a \in Attempts, Originate(w, a)
  PROVE  OneToken'
<1>1. a \in jobs[w] /\ provider[a] = "idle" /\ Token(a)
  BY DEF Originate, Ownership, JobsFresh, Token
<1>2. jobs' = [jobs EXCEPT ![w] = @ \ {a}]
  BY DEF Originate
<1>3. \/ failed' = failed /\ provider' = [provider EXCEPT ![a] = "dialing"]
      \/ failed' = [failed EXCEPT ![w] = {a}] /\ provider' = provider
  BY DEF Originate, Reliable
<1>4. UNCHANGED <<recipientStatus, attemptsCount, events, loaded>>
  BY DEF Originate, database, handlerVars
<1>5. \A b \in Attempts : b # a => provider'[b] = provider[b]
  BY <1>3 DEF TypeOK
<1>6. \A v \in Workers : jobs'[v] \subseteq jobs[v] /\ failed'[v] \subseteq failed[v] \union {a}
  BY <1>2, <1>3 DEF TypeOK
<1>7. \A b \in Attempts : Token(b)' => Token(b)
  BY <1>1, <1>4, <1>5, <1>6 DEF Token, Live
<1>8. TokenLatest' /\ Budget'
  BY <1>4, <1>7 DEF OneToken, TokenLatest, Budget
<1>9. /\ \A e \in events : e.attempt # a
      /\ \A h \in Handlers : \A l \in loaded[h] : l.event.attempt # a
  BY <1>1 DEF Ownership, EventsOfCalls
<1>10. \A v \in Workers : \A b \in failed'[v] : provider'[b] = "idle"
  <2>1. CASE failed' = failed /\ provider' = [provider EXCEPT ![a] = "dialing"]
    <3>1. \A v \in Workers : a \notin failed[v]
      BY <1>1 DEF Ownership, JobsFresh, HeldApart, Held
    <3> QED
      BY <1>5, <2>1, <3>1 DEF OneToken, TokenKinds, TypeOK
  <2>2. CASE failed' = [failed EXCEPT ![w] = {a}] /\ provider' = provider
    BY <1>1, <1>6, <2>2 DEF OneToken, TokenKinds
  <2> QED
    BY <1>3, <2>1, <2>2
<1>11. TokenKinds'
  BY <1>4, <1>5, <1>9, <1>10, EventAttempts DEF OneToken, TokenKinds
<1>12. TokenOnce'
  BY <1>4 DEF OneToken, TokenOnce
<1> QED
  BY <1>8, <1>11, <1>12 DEF OneToken

LEMMA RecordFailureToken ==
  ASSUME TypeOK, Ownership, OneToken, NEW w \in Workers, NEW a \in Attempts, RecordFailure(w, a)
  PROVE  OneToken'
<1>1. a \in failed[w] /\ provider[a] = "idle" /\ Token(a)
  BY DEF RecordFailure, OneToken, TokenKinds, Token
<1>2. UNCHANGED <<attemptsCount, jobs, provider, events, loaded>>
  BY DEF RecordFailure, handlerVars, callVars
<1>3. failed' = [failed EXCEPT ![w] = {}]
  BY DEF RecordFailure
<1>4. ~Token(a)'
  <2>1. \A v \in Workers : a \notin jobs[v] /\ a \notin failed'[v]
    BY <1>1, <1>3 DEF Ownership, JobsFresh, HeldApart, Held, TypeOK
  <2>2. /\ \A e \in events : e.attempt # a
        /\ \A h \in Handlers : \A l \in loaded[h] : l.event.attempt # a
    BY <1>1 DEF Ownership, EventsOfCalls
  <2> QED
    BY <1>1, <1>2, <2>1, <2>2 DEF Token, Live
<1>5. \A v \in Workers : failed'[v] \subseteq failed[v]
  BY <1>3 DEF TypeOK
<1>6. \A b \in Attempts : Token(b)' => Token(b)
  BY <1>2, <1>5 DEF Token, Live
<1>7. /\ \A r \in Recipients : r # a[1] => recipientStatus'[r] = recipientStatus[r]
      /\ recipientStatus'[a[1]] = "pending" => a[2] < MaxAttempts
  BY AttemptParts DEF RecordFailure, Refused, TypeOK
<1>8. TokenLatest' /\ Budget'
  BY <1>1, <1>2, <1>4, <1>6, <1>7, SpendToken
<1>9. TokenKinds' /\ TokenOnce'
  BY <1>2, <1>5 DEF OneToken, TokenKinds, TokenOnce
<1> QED
  BY <1>8, <1>9 DEF OneToken

LEMMA EventReadToken ==
  ASSUME TypeOK, Ownership, OneToken, Reliable,
         NEW h \in Handlers, NEW e \in events, EventRead(h, e)
  PROVE  OneToken'
<1> DEFINE seen == [event |-> e, recipient |-> recipientStatus[e.attempt[1]],
                    count |-> attemptsCount[e.attempt[1]],
                    campaign |-> campaignStatus[CampaignOf[e.attempt[1]]],
                    attempt |-> attemptStatus[e.attempt],
                    listed |-> e.status = "do_not_call" /\ PhoneOf[e.attempt[1]] \in dnc]
<1>1. loaded' = [loaded EXCEPT ![h] = {seen}] /\ loaded[h] = {}
  BY DEF EventRead, IdleHandler
<1>2. seen.event = e /\ seen.count = attemptsCount[e.attempt[1]]
  OBVIOUS
<1> HIDE DEF seen
<1>3. events' = events \ {e}
  BY DEF EventRead, Reliable
<1>4. UNCHANGED <<recipientStatus, attemptsCount, jobs, failed, provider>>
  BY DEF EventRead, database, workerVars
<1>5. \A k \in Handlers : loaded'[k] = IF k = h THEN {seen} ELSE loaded[k]
  BY <1>1 DEF TypeOK
<1>6. \A a \in Attempts : Token(a)' => Token(a)
  BY <1>2, <1>3, <1>4, <1>5 DEF Token, Live
<1>7. TokenLatest' /\ Budget'
  BY <1>4, <1>6 DEF OneToken, TokenLatest, Budget
<1>8. TokenKinds'
  BY <1>2, <1>3, <1>4, <1>5 DEF OneToken, TokenKinds
<1>9. TokenOnce'
  BY <1>1, <1>2, <1>3, <1>5 DEF OneToken, TokenOnce
<1> QED
  BY <1>7, <1>8, <1>9 DEF OneToken

LEMMA EventCommitToken ==
  ASSUME TypeOK, Ownership, OneToken, NEW h \in Handlers, NEW l \in loaded[h], EventCommit(h, l)
  PROVE  OneToken'
<1> DEFINE a == l.event.attempt
<1>1. UNCHANGED <<attemptsCount, jobs, failed, provider, events>>
  BY DEF EventCommit, workerVars, callVars
<1>2. loaded' = [loaded EXCEPT ![h] = {}]
  BY DEF EventCommit
<1>3. \A k \in Handlers : loaded'[k] \subseteq loaded[k]
  BY <1>2 DEF TypeOK
<1>4. CASE ~Retries(l)
  <2>1. NewStatus(l) = "pending" => NewStatus(l) = l.recipient
    BY <1>4, LoadedParts DEF NewStatus, Progress, Terminal, Retryable
  <2>2. \A r \in Recipients : recipientStatus'[r] = "pending" => recipientStatus[r] = "pending"
    BY <2>1 DEF EventCommit, TypeOK
  <2> QED
    BY <1>1, <1>3, <2>2, TokenFrame
<1>5. CASE Retries(l)
  <2>1. Ends(l.event) /\ a \in Attempts
    BY <1>5, EventAttempts DEF Retries, Ends, Terminal
  <2>2. Token(a) /\ provider[a] = "over" /\ l.count = attemptsCount[a[1]]
    BY <2>1 DEF Token, OneToken, TokenKinds
  <2>3. a[2] < MaxAttempts
    BY <1>5, <2>1, <2>2 DEF Retries, OneToken, TokenLatest
  <2>4. ~Token(a)'
    <3>1. \A v \in Workers : a \notin jobs[v] /\ a \notin failed[v]
      BY <2>2 DEF Ownership, JobsFresh, OneToken, TokenKinds
    <3>2. \A e \in events : ~(e.attempt = a /\ Ends(e))
      BY <2>1 DEF OneToken, TokenOnce
    <3>3. \A k \in Handlers : \A m \in loaded'[k] : ~(m.event.attempt = a /\ Ends(m.event))
      BY <1>2, <2>1 DEF OneToken, TokenOnce, TypeOK
    <3> QED
      BY <1>1, <2>2, <3>1, <3>2, <3>3 DEF Token, Live
  <2>5. \A b \in Attempts : Token(b)' => Token(b)
    BY <1>1, <1>3 DEF Token, Live
  <2>6. \A r \in Recipients : r # a[1] => recipientStatus'[r] = recipientStatus[r]
    BY DEF EventCommit, TypeOK
  <2>7. TokenLatest' /\ Budget'
    BY <1>1, <2>1, <2>2, <2>3, <2>4, <2>5, <2>6, SpendToken
  <2>8. TokenKinds' /\ TokenOnce'
    BY <1>1, <1>3 DEF OneToken, TokenKinds, TokenOnce
  <2> QED
    BY <2>7, <2>8 DEF OneToken
<1> QED
  BY <1>4, <1>5

LEMMA ProviderToken ==
  ASSUME TypeOK, Ownership, OneToken, NEW a \in Attempts, ProviderStep(a)
  PROVE  OneToken'
<1>1. PICK status \in Progress \union Terminal, state \in {"ringing", "answered", "over"} :
        /\ Report(a, status, state)
        /\ provider[a] \in {"dialing", "ringing", "answered"}
        /\ status \in Terminal <=> state = "over"
  BY ProviderParts
<1> DEFINE posted == [attempt |-> a, status |-> status]
<1>2. events' = events \union {posted} /\ provider' = [provider EXCEPT ![a] = state]
  BY <1>1 DEF Report
<1>3. posted.attempt = a /\ (Ends(posted) <=> state = "over")
  BY <1>1 DEF Ends
<1> HIDE DEF posted
<1>4. UNCHANGED <<recipientStatus, attemptsCount, jobs, failed, loaded>>
  BY <1>1 DEF Report, database, workerVars, handlerVars
<1>5. Token(a)
  BY <1>1 DEF Token, Live
<1>6. provider'[a] = state /\ \A b \in Attempts : b # a => provider'[b] = provider[b]
  BY <1>2 DEF TypeOK
<1>7. \A b \in Attempts : Token(b)' => Token(b)
  BY <1>2, <1>3, <1>4, <1>5, <1>6 DEF Token, Live
<1>8. TokenLatest' /\ Budget'
  BY <1>4, <1>7 DEF OneToken, TokenLatest, Budget
<1>9. /\ \A w \in Workers : a \notin failed[w]
      /\ \A e \in events : Ends(e) => e.attempt # a
      /\ \A h \in Handlers : \A l \in loaded[h] : Ends(l.event) => l.event.attempt # a
  BY <1>1 DEF OneToken, TokenKinds
<1>10. TokenKinds'
  BY <1>2, <1>3, <1>4, <1>6, <1>9, EventAttempts DEF OneToken, TokenKinds, TypeOK
<1>11. TokenOnce'
  BY <1>2, <1>3, <1>4, <1>9 DEF OneToken, TokenOnce
<1> QED
  BY <1>8, <1>10, <1>11 DEF OneToken

LEMMA WorkerToken ==
  ASSUME TypeOK, Ownership, OneToken, Reliable, NEW w \in Workers,
         WorkerStep(w) \/ WorkerCrash(w)
  PROVE  OneToken'
<1>1. ASSUME \/ \E c \in Campaigns : DispatchRead(w, c) \/ DispatchPause(w, c) \/ DispatchFail(w, c)
             \/ \E a \in Attempts : RecordDialing(w, a)
             \/ WorkerCrash(w)
      PROVE  OneToken'
  <2>1. UNCHANGED <<attemptsCount, provider, events, loaded>>
    BY <1>1 DEF DispatchRead, DispatchPause, DispatchFail, RecordDialing, WorkerCrash,
                database, handlerVars, callVars
  <2>2. \A r \in Recipients : recipientStatus'[r] = "pending" => recipientStatus[r] = "pending"
    BY <1>1 DEF DispatchRead, DispatchPause, DispatchFail, RecordDialing, WorkerCrash,
                database, TypeOK
  <2>3. \A v \in Workers : jobs'[v] \subseteq jobs[v] /\ failed'[v] \subseteq failed[v]
    BY <1>1 DEF DispatchRead, DispatchPause, DispatchFail, RecordDialing, WorkerCrash, TypeOK
  <2> QED
    BY <2>1, <2>2, <2>3, TokenFrame
<1> QED
  BY <1>1, DispatchQueueToken, OriginateToken, RecordFailureToken DEF WorkerStep

LEMMA HandlerToken ==
  ASSUME TypeOK, Ownership, OneToken, Reliable, NEW h \in Handlers,
         HandlerStep(h) \/ HandlerCrash(h)
  PROVE  OneToken'
<1>1. ASSUME \/ \E l \in loaded[h] : EventConflict(h, l)
             \/ \E c \in Campaigns : EventSettle(h, c) \/ EventComplete(h, c)
             \/ HandlerCrash(h)
      PROVE  OneToken'
  <2>1. UNCHANGED <<recipientStatus, attemptsCount, jobs, failed, provider, events>>
    BY <1>1 DEF EventConflict, EventSettle, EventComplete, HandlerCrash, database, workerVars,
                callVars
  <2>2. \A k \in Handlers : loaded'[k] \subseteq loaded[k]
    BY <1>1 DEF EventConflict, EventSettle, EventComplete, HandlerCrash, TypeOK
  <2> QED
    BY <2>1, <2>2, TokenFrame
<1> QED
  BY <1>1, EventReadToken, EventCommitToken DEF HandlerStep

LEMMA NextToken == Reliable /\ TypeOK /\ Ownership /\ OneToken /\ [Next]_vars => OneToken'
<1> SUFFICES ASSUME Reliable, TypeOK, Ownership, OneToken, [Next]_vars PROVE OneToken'
  OBVIOUS
<1>1. ASSUME BeatStep \/ (\E r \in Recipients : RetryDue(r)) \/ UserStep \/ UNCHANGED vars
      PROVE  OneToken'
  <2>1. UNCHANGED <<attemptsCount, jobs, failed, provider, events, loaded>>
    BY <1>1 DEF BeatStep, BeatRead, BeatPromote, BeatEnqueue, RetryDue, UserStep, UserRead,
                UserWrite, UserRefused, AddDnc, DeleteDnc, vars, database, workerVars,
                beatVars, handlerVars, callVars
  <2>2. \A r \in Recipients : recipientStatus'[r] = "pending" => recipientStatus[r] = "pending"
    BY <1>1 DEF BeatStep, BeatRead, BeatPromote, BeatEnqueue, RetryDue, UserStep, UserRead,
                UserWrite, UserRefused, AddDnc, DeleteDnc, vars, database
  <2> QED
    BY <2>1, <2>2, TokenFrame
<1> QED
  BY <1>1, WorkerToken, HandlerToken, ProviderToken DEF Next

(* While no answer is lost and no event repeated, the token is unique.     *)
THEOREM TokenInvariant == Spec => [](Reliable => OneToken)
<1>1. Init => OneToken
  BY InitToken
<1>2. TypeOK /\ Ownership /\ (Reliable => OneToken) /\ [Next]_vars => (Reliable => OneToken)'
  BY NextToken, EnvRigid DEF Reliable
<1> QED
  BY <1>1, <1>2, OwnershipInvariant, PTL DEF Spec

(* No two calls of a recipient at once, and no call beyond max_attempts.   *)
THEOREM OneCallAtATimeHolds == Spec => []OneCallAtATime
<1>1. TypeOK /\ (Reliable => OneToken) => OneCallAtATime
  <2> SUFFICES ASSUME OneToken, NEW a \in Attempts, NEW b \in Attempts,
                      a[1] = b[1], Live(a), Live(b)
               PROVE  a = b
    BY DEF OneCallAtATime, Reliable
  <2>1. a[2] = attemptsCount[a[1]] /\ b[2] = attemptsCount[b[1]]
    BY DEF OneToken, TokenLatest, Token
  <2> QED
    BY <2>1, AttemptParts
<1> QED
  BY <1>1, OwnershipInvariant, TokenInvariant, PTL

(* Nobody is reserved more than max_attempts times.                        *)
THEOREM RetryBudgetHolds == Spec => []RetryBudget
<1>1. (Reliable => OneToken) => RetryBudget
  BY DEF OneToken, Budget, RetryBudget, Reliable
<1> QED
  BY <1>1, TokenInvariant, PTL

-----------------------------------------------------------------------------
(* Events of one call, in order.  A handler serves one event, and only     *)
(* what the provider reports.  Unless events are reordered or repeated, a  *)
(* call has one event on its way at a time, and when it is over that is    *)
(* the one that ends it.                                                   *)
OneLoaded == \A h \in Handlers : \A l, m \in loaded[h] : l = m
Reported ==
  /\ \A e \in events : e.status \in env.reports
  /\ \A h \in Handlers : \A l \in loaded[h] : l.event.status \in env.reports
OneInFlight ==
  /\ \A e, f \in events : e.attempt = f.attempt => e = f
  /\ \A e \in events : \A h \in Handlers : \A l \in loaded[h] : e.attempt # l.event.attempt
  /\ \A h, k \in Handlers : \A l \in loaded[h] : \A m \in loaded[k] :
       l.event.attempt = m.event.attempt => h = k /\ l = m
OverEnds ==
  /\ \A e \in events : provider[e.attempt] = "over" => Ends(e)
  /\ \A h \in Handlers : \A l \in loaded[h] : provider[l.event.attempt] = "over" => Ends(l.event)

InOrder == "reorder" \notin env.faults /\ "duplicate" \notin env.faults
Flow == OneLoaded /\ Reported /\ (InOrder => OneInFlight /\ OverEnds)

(* The steps that change what is in flight.                                *)
Over(a) == provider[a] = "over"
NoneEnds == \A a \in Attempts : Over(a)' => Over(a)
LEMMA FlowSteps ==
  ASSUME TypeOK, [Next]_vars
  PROVE  \/ UNCHANGED <<events, loaded>> /\ NoneEnds
         \/ \E h \in Handlers : \E e \in events : EventRead(h, e)
         \/ \E h \in Handlers : \E l \in loaded[h] : EventCommit(h, l) \/ EventConflict(h, l)
         \/ \E h \in Handlers : HandlerCrash(h)
         \/ \E a \in Attempts : ProviderStep(a)
<1>1. ASSUME NEW w \in Workers, WorkerStep(w) \/ WorkerCrash(w)
      PROVE  UNCHANGED <<events, loaded>> /\ NoneEnds
  <2>1. UNCHANGED <<events, loaded>>
    BY <1>1 DEF WorkerStep, WorkerCrash, DispatchRead, DispatchQueue, DispatchPause,
                DispatchFail, Originate, RecordDialing, RecordFailure, handlerVars, callVars
  <2>2. provider' = provider \/ \E a \in Attempts : provider' = [provider EXCEPT ![a] = "dialing"]
    BY <1>1 DEF WorkerStep, WorkerCrash, DispatchRead, DispatchQueue, DispatchPause,
                DispatchFail, Originate, RecordDialing, RecordFailure, callVars
  <2>3. NoneEnds
    BY <2>2 DEF NoneEnds, Over, TypeOK
  <2> QED BY <2>1, <2>3
<1>2. ASSUME \/ BeatStep \/ (\E r \in Recipients : RetryDue(r)) \/ UserStep \/ UNCHANGED vars
             \/ \E h \in Handlers : \E c \in Campaigns : EventSettle(h, c) \/ EventComplete(h, c)
      PROVE  UNCHANGED <<events, loaded>> /\ NoneEnds
  <2>1. UNCHANGED <<events, loaded, provider>>
    BY <1>2 DEF BeatStep, BeatRead, BeatPromote, BeatEnqueue, RetryDue, UserStep, UserRead,
                UserWrite, UserRefused, AddDnc, DeleteDnc, vars, EventSettle, EventComplete,
                handlerVars, callVars
  <2> QED BY <2>1 DEF NoneEnds, Over
<1> QED
  BY <1>1, <1>2 DEF Next, HandlerStep

(* Less in flight, and no call that ends.                                  *)
LEMMA FlowShrinks ==
  ASSUME TypeOK, Flow, NoneEnds, UNCHANGED env, events' \subseteq events,
         \A h \in Handlers : loaded'[h] \subseteq loaded[h]
  PROVE  Flow'
<1>1. OneLoaded' /\ Reported'
  BY DEF Flow, OneLoaded, Reported
<1>2. OneInFlight => OneInFlight'
  BY DEF OneInFlight
<1>3. OverEnds => OverEnds'
  BY EventAttempts DEF OverEnds, NoneEnds, Over
<1> QED BY <1>1, <1>2, <1>3 DEF Flow, InOrder

(* What a handler knows that has read an event.                            *)
LEMMA ReadSeen ==
  ASSUME NEW h \in Handlers, NEW e \in events, EventRead(h, e)
  PROVE  \E seen : /\ loaded' = [loaded EXCEPT ![h] = {seen}]
                   /\ seen.event = e /\ seen.recipient = recipientStatus[e.attempt[1]]
<1> DEFINE s == [event |-> e, recipient |-> recipientStatus[e.attempt[1]],
                 count |-> attemptsCount[e.attempt[1]],
                 campaign |-> campaignStatus[CampaignOf[e.attempt[1]]],
                 attempt |-> attemptStatus[e.attempt],
                 listed |-> e.status = "do_not_call" /\ PhoneOf[e.attempt[1]] \in dnc]
<1>1. loaded' = [loaded EXCEPT ![h] = {s}]
  BY DEF EventRead
<1>2. s.event = e /\ s.recipient = recipientStatus[e.attempt[1]]
  OBVIOUS
<1> HIDE DEF s
<1> QED BY <1>1, <1>2

LEMMA ReadFlow ==
  ASSUME TypeOK, Flow, NEW h \in Handlers, NEW e \in events, EventRead(h, e)
  PROVE  Flow'
<1>1. PICK seen : loaded' = [loaded EXCEPT ![h] = {seen}] /\ seen.event = e
  BY ReadSeen
<1>2. /\ loaded[h] = {} /\ UNCHANGED <<env, provider>>
      /\ events' \subseteq events /\ (InOrder => events' = events \ {e})
  BY DEF EventRead, IdleHandler, InOrder
<1>3. \A k \in Handlers : loaded'[k] = IF k = h THEN {seen} ELSE loaded[k]
  BY <1>1 DEF TypeOK
<1>4. OneLoaded' /\ Reported'
  BY <1>1, <1>2, <1>3 DEF Flow, OneLoaded, Reported
<1>5. ASSUME InOrder PROVE OneInFlight' /\ OverEnds'
  <2>1. OneInFlight /\ OverEnds /\ events' = events \ {e}
    BY <1>2, <1>5 DEF Flow
  <2>2. OneInFlight'
    BY <1>1, <1>2, <1>3, <2>1 DEF OneInFlight
  <2>3. OverEnds'
    BY <1>1, <1>2, <1>3, <2>1 DEF OverEnds
  <2> QED BY <2>2, <2>3
<1> QED BY <1>2, <1>4, <1>5 DEF Flow, InOrder

LEMMA ReportFlow ==
  ASSUME TypeOK, Flow, NEW a \in Attempts, ProviderStep(a)
  PROVE  Flow'
<1>1. PICK status \in Progress \union Terminal, state \in {"ringing", "answered", "over"} :
        Report(a, status, state) /\ (status \in Terminal <=> state = "over")
  BY ProviderParts
<1>2. PICK posted : /\ events' = events \union {posted} /\ posted.attempt = a
                    /\ posted.status = status
  <2> DEFINE p == [attempt |-> a, status |-> status]
  <2>1. events' = events \union {p}
    BY <1>1 DEF Report
  <2>2. p.attempt = a /\ p.status = status
    OBVIOUS
  <2> HIDE DEF p
  <2> QED BY <2>1, <2>2
<1>3. /\ UNCHANGED <<env, loaded>> /\ status \in env.reports
      /\ provider' = [provider EXCEPT ![a] = state]
  BY <1>1 DEF Report, handlerVars
<1>4. OneLoaded' /\ Reported'
  BY <1>2, <1>3 DEF Flow, OneLoaded, Reported
<1>5. ASSUME InOrder PROVE OneInFlight' /\ OverEnds'
  <2>1. /\ OneInFlight /\ OverEnds
        /\ \A e \in events : e.attempt # a
        /\ \A h \in Handlers : \A l \in loaded[h] : l.event.attempt # a
    BY <1>1, <1>5 DEF Flow, InOrder, Report, MayReport
  <2>2. OneInFlight'
    BY <1>2, <1>3, <2>1 DEF OneInFlight
  <2>3. \A b \in Attempts : provider'[b] = IF b = a THEN state ELSE provider[b]
    BY <1>3 DEF TypeOK
  <2>4. OverEnds'
    BY <1>1, <1>2, <1>3, <2>1, <2>3, EventAttempts DEF OverEnds, Ends
  <2> QED BY <2>2, <2>4
<1> QED BY <1>3, <1>4, <1>5 DEF Flow, InOrder

LEMMA FlowStep == TypeOK /\ Flow /\ [Next]_vars => Flow'
<1> SUFFICES ASSUME TypeOK, Flow, [Next]_vars PROVE Flow'
  OBVIOUS
<1>1. CASE UNCHANGED <<events, loaded>> /\ NoneEnds
  BY <1>1, EnvRigid, FlowShrinks
<1>2. CASE \E h \in Handlers :
             (\E l \in loaded[h] : EventCommit(h, l) \/ EventConflict(h, l)) \/ HandlerCrash(h)
  <2>1. PICK h \in Handlers : loaded' = [loaded EXCEPT ![h] = {}] /\ UNCHANGED <<events, provider>>
    BY <1>2 DEF EventCommit, EventConflict, HandlerCrash, callVars
  <2>2. \A k \in Handlers : loaded'[k] \subseteq loaded[k]
    BY <2>1 DEF TypeOK
  <2> QED BY <2>1, <2>2, EnvRigid, FlowShrinks DEF NoneEnds, Over
<1> QED BY <1>1, <1>2, FlowSteps, ReadFlow, ReportFlow

LEMMA InitFlow == Init => Flow
  BY DEF Init, Flow, OneLoaded, Reported, OneInFlight, OverEnds

(* The steps that write the call rows.                                     *)
LEMMA CallSteps ==
  ASSUME [Next]_vars
  PROVE  \/ UNCHANGED callStatus
         \/ \E w \in Workers, c \in Campaigns : DispatchQueue(w, c)
         \/ \E w \in Workers, a \in Attempts : RecordFailure(w, a)
         \/ \E h \in Handlers : \E l \in loaded[h] : EventCommit(h, l)
<1>1. ASSUME NEW w \in Workers,
             \/ \E c \in Campaigns : DispatchRead(w, c) \/ DispatchPause(w, c) \/ DispatchFail(w, c)
             \/ \E a \in Attempts : Originate(w, a) \/ RecordDialing(w, a)
             \/ WorkerCrash(w)
      PROVE  UNCHANGED callStatus
  BY <1>1 DEF DispatchRead, DispatchPause, DispatchFail, Originate, RecordDialing, WorkerCrash,
              database
<1>2. ASSUME NEW h \in Handlers,
             \/ \E e \in events : EventRead(h, e)
             \/ \E l \in loaded[h] : EventConflict(h, l)
             \/ \E c \in Campaigns : EventSettle(h, c) \/ EventComplete(h, c)
             \/ HandlerCrash(h)
      PROVE  UNCHANGED callStatus
  BY <1>2 DEF EventRead, EventConflict, EventSettle, EventComplete, HandlerCrash, database
<1>3. ASSUME BeatStep \/ (\E r \in Recipients : RetryDue(r)) \/ UserStep
               \/ (\E a \in Attempts : ProviderStep(a)) \/ UNCHANGED vars
      PROVE  UNCHANGED callStatus
  BY <1>3, ProviderParts
     DEF BeatStep, BeatRead, BeatPromote, BeatEnqueue, RetryDue, UserStep, UserRead, UserWrite,
         UserRefused, AddDnc, DeleteDnc, Report, vars, database
<1> QED
  BY <1>1, <1>2, <1>3 DEF Next, WorkerStep, HandlerStep

(* A commit ends the flight of its own event and of no other.              *)
LEMMA StillInFlight ==
  ASSUME TypeOK, OneLoaded, NEW h \in Handlers, NEW l \in loaded[h],
         loaded' = [loaded EXCEPT ![h] = {}], UNCHANGED events,
         NEW a \in Attempts, a # l.event.attempt
  PROVE  InFlight(a) => InFlight(a)'
<1>1. \A k \in Handlers : loaded'[k] = IF k = h THEN {} ELSE loaded[k]
  BY DEF TypeOK
<1>2. \A m \in loaded[h] : m.event.attempt # a
  BY DEF OneLoaded
<1> QED BY <1>1, <1>2 DEF InFlight

LEMMA ReadKeepsFlight ==
  ASSUME TypeOK, NEW h \in Handlers, NEW e \in events, EventRead(h, e), NEW a \in Attempts
  PROVE  InFlight(a)' <=> InFlight(a)
<1>1. PICK seen : loaded' = [loaded EXCEPT ![h] = {seen}] /\ seen.event = e
  BY ReadSeen
<1>2. loaded[h] = {} /\ events' \subseteq events /\ events \ {e} \subseteq events'
  BY DEF EventRead, IdleHandler
<1>3. \A k \in Handlers : loaded'[k] = IF k = h THEN {seen} ELSE loaded[k]
  BY <1>1 DEF TypeOK
<1> QED BY <1>1, <1>2, <1>3 DEF InFlight

Sealed == {"completed", "missed", "failed"}
LEMMA EndSeals ==
  ASSUME NEW l, NEW old, Ends(l.event)
  PROVE  NewCall(l, old) \in Sealed
  BY DEF NewCall, Ends, Terminal, Retryable, Missed, Sealed

LEMMA ClosedStep ==
  ASSUME TypeOK, Ownership, Flow, CallRowsClosed, [Next]_vars
  PROVE  CallRowsClosed'
<1> SUFFICES ASSUME env.faults \intersect {"crash", "reorder", "duplicate"} = {},
                    "do_not_call" \notin env.reports,
                    NEW a \in Attempts, Over(a)', ~InFlight(a)'
             PROVE  callStatus'[a] \in Sealed
  BY EnvRigid DEF CallRowsClosed, Sealed, Over
<1>1. InOrder /\ OneInFlight /\ OverEnds /\ OneLoaded /\ Reported
  BY DEF InOrder, Flow
<1>2. Over(a) /\ ~InFlight(a) => callStatus[a] \in Sealed
  BY DEF CallRowsClosed, Over, Sealed
<1>3. ASSUME Over(a), ~InFlight(a), \A h \in Handlers : \A l \in loaded[h] : ~EventCommit(h, l)
      PROVE  callStatus'[a] \in Sealed
  <2>1. ASSUME NEW w \in Workers, NEW c \in Campaigns, DispatchQueue(w, c)
        PROVE  callStatus'[a] = callStatus[a]
    <3>1. PICK taken \in SUBSET Candidates(c) :
            callStatus' = [b \in Attempts |->
              IF b \in {NextAttempt(r) : r \in taken} THEN "initiated" ELSE callStatus[b]]
      BY <2>1 DEF DispatchQueue
    <3>2. a[2] <= attemptsCount[a[1]]
      BY <1>3 DEF Ownership, Counted, Over
    <3>3. \A r \in taken : NextAttempt(r)[1] = r /\ NextAttempt(r)[2] = attemptsCount[r] + 1
      BY DEF NextAttempt
    <3>4. a[1] \in Recipients /\ attemptsCount[a[1]] \in Nat
      BY AttemptParts, ConstantsAssumption DEF TypeOK
    <3>5. a \notin {NextAttempt(r) : r \in taken}
      <4>1. SUFFICES ASSUME NEW r \in taken, a = NextAttempt(r) PROVE FALSE
        OBVIOUS
      <4>2. a[1] = r /\ a[2] = attemptsCount[a[1]] + 1
        BY <3>3, <4>1
      <4> QED BY <3>2, <3>4, <4>2
    <3> QED BY <3>1, <3>5
  <2>2. ASSUME NEW w \in Workers, NEW b \in Attempts, RecordFailure(w, b)
        PROVE  callStatus'[a] \in {callStatus[a], "failed"}
    BY <2>2 DEF RecordFailure, TypeOK
  <2> QED BY <1>2, <1>3, <2>1, <2>2, CallSteps DEF Sealed
<1>4. ASSUME NEW h \in Handlers, NEW l \in loaded[h], EventCommit(h, l)
      PROVE  callStatus'[a] \in Sealed
  <2>1. /\ loaded' = [loaded EXCEPT ![h] = {}] /\ UNCHANGED <<events, provider>>
        /\ callStatus' = [callStatus EXCEPT ![l.event.attempt] = NewCall(l, @)]
    BY <1>4 DEF EventCommit, callVars
  <2>2. CASE l.event.attempt = a
    <3>1. Ends(l.event)
      BY <1>1, <2>1, <2>2 DEF OverEnds, Over
    <3>2. callStatus'[a] = NewCall(l, callStatus[a])
      BY <2>1, <2>2 DEF TypeOK
    <3> QED BY <3>1, <3>2, EndSeals
  <2>3. CASE l.event.attempt # a
    <3>1. ~InFlight(a) /\ Over(a)
      BY <1>1, <2>1, <2>3, StillInFlight DEF Over
    <3>2. callStatus'[a] = callStatus[a]
      BY <2>1, <2>3 DEF TypeOK
    <3> QED BY <1>2, <3>1, <3>2
  <2> QED BY <2>2, <2>3
<1>5. ASSUME NEW h \in Handlers, NEW l \in loaded[h], EventConflict(h, l)
      PROVE  FALSE
  BY <1>1, <1>5 DEF EventConflict, OptsOut, Reported
<1>6. ASSUME NEW h \in Handlers, NEW e \in events, EventRead(h, e)
      PROVE  Over(a) /\ ~InFlight(a) /\ callStatus' = callStatus
  BY <1>6, ReadKeepsFlight DEF EventRead, database, Over
<1>7. ASSUME NEW b \in Attempts, ProviderStep(b)
      PROVE  Over(a) /\ ~InFlight(a) /\ callStatus' = callStatus
  <2>1. PICK status, state : Report(b, status, state)
    BY <1>7, ProviderParts
  <2>2. /\ UNCHANGED <<loaded, callStatus>> /\ provider' = [provider EXCEPT ![b] = state]
        /\ events' = events \union {[attempt |-> b, status |-> status]}
    BY <2>1 DEF Report, database, handlerVars
  <2>3. InFlight(b)'
    <3>1. [attempt |-> b, status |-> status].attempt = b
      OBVIOUS
    <3> QED BY <2>2, <3>1 DEF InFlight
  <2>4. a # b /\ ~InFlight(a)
    BY <2>2, <2>3 DEF InFlight
  <2> QED BY <2>2, <2>4 DEF Over, TypeOK
<1>8. CASE UNCHANGED <<events, loaded>> /\ NoneEnds
  BY <1>3, <1>4, <1>8 DEF InFlight, NoneEnds
<1> QED
  BY <1>2, <1>4, <1>5, <1>6, <1>7, <1>8, FlowSteps DEF HandlerCrash

(* Whatever overtakes the worker, or makes it believe that the originate   *)
(* request failed: when a call is over and its events have been applied,   *)
(* its Call row is closed (apply_event, _dispatch_campaign).               *)
THEOREM CallRowsClosedHolds == Spec => []CallRowsClosed
<1>1. Init => Flow /\ CallRowsClosed
  BY InitFlow DEF Init, CallRowsClosed
<1>2. TypeOK /\ Ownership /\ Flow /\ CallRowsClosed /\ [Next]_vars => Flow' /\ CallRowsClosed'
  BY FlowStep, ClosedStep
<1> QED BY <1>1, <1>2, OwnershipInvariant, PTL DEF Spec

-----------------------------------------------------------------------------
(* Who is called has a slot.  Where no answer is lost and events come once *)
(* and in order, the recipient of a token is active, or was cancelled and  *)
(* is in the hands of a worker that is about to write its row again.       *)
InHand(a) == \E w \in Workers : a \in Held(w)
Engaged(a) == \/ recipientStatus[a[1]] \in ActiveStates
              \/ "cancel" \in env.requests /\ InHand(a)
TokensEngaged == \A a \in Attempts : Token(a) => Engaged(a)

(* Users do what the environment lets them.                                *)
Asked == \A u \in Users : \A q \in decided[u] : q.op \in env.requests

LEMMA AskedStep == TypeOK /\ Asked /\ [Next]_vars => Asked'
<1> SUFFICES ASSUME TypeOK, Asked, [Next]_vars PROVE Asked'
  OBVIOUS
<1>1. ASSUME NEW u \in Users, NEW op \in CampaignOps, NEW c \in Campaigns, UserRead(u, op, c)
      PROVE  Asked'
  <2>1. PICK q : decided' = [decided EXCEPT ![u] = {q}] /\ q.op = op
    <3> DEFINE p == [op |-> op, campaign |-> c, seen |-> campaignStatus[c]]
    <3>1. decided' = [decided EXCEPT ![u] = {p}]
      BY <1>1 DEF UserRead
    <3>2. p.op = op
      OBVIOUS
    <3> HIDE DEF p
    <3> QED BY <3>1, <3>2
  <2>2. op \in env.requests /\ UNCHANGED env
    BY <1>1 DEF UserRead
  <2> QED BY <2>1, <2>2 DEF Asked, TypeOK
<1>2. ASSUME NEW u \in Users, NEW q \in decided[u], UserWrite(u, q) \/ UserRefused(u, q)
      PROVE  Asked'
  BY <1>2 DEF UserWrite, UserRefused, Asked, TypeOK
<1>3. ASSUME \/ \E w \in Workers : WorkerStep(w) \/ WorkerCrash(w)
             \/ BeatStep
             \/ \E r \in Recipients : RetryDue(r)
             \/ \E h \in Handlers : HandlerStep(h) \/ HandlerCrash(h)
             \/ \E p \in Phones : AddDnc(p) \/ DeleteDnc(p)
             \/ \E a \in Attempts : ProviderStep(a)
             \/ UNCHANGED vars
      PROVE  UNCHANGED decided
  <2>1. ASSUME NEW w \in Workers, WorkerStep(w) \/ WorkerCrash(w) PROVE UNCHANGED decided
    BY <2>1 DEF WorkerStep, WorkerCrash, DispatchRead, DispatchQueue, DispatchPause,
                DispatchFail, Originate, RecordDialing, RecordFailure
  <2>2. ASSUME NEW h \in Handlers, HandlerStep(h) \/ HandlerCrash(h) PROVE UNCHANGED decided
    BY <2>2 DEF HandlerStep, EventRead, EventCommit, EventConflict, EventSettle, EventComplete,
                HandlerCrash
  <2>3. ASSUME \/ BeatStep \/ \E r \in Recipients : RetryDue(r)
               \/ \E p \in Phones : AddDnc(p) \/ DeleteDnc(p)
               \/ (\E a \in Attempts : ProviderStep(a)) \/ UNCHANGED vars
        PROVE  UNCHANGED decided
    BY <2>3, ProviderParts DEF BeatStep, BeatRead, BeatPromote, BeatEnqueue, RetryDue, AddDnc,
                               DeleteDnc, Report, vars
  <2> QED BY <1>3, <2>1, <2>2, <2>3
<1>4. ASSUME UNCHANGED decided PROVE Asked'
  BY <1>4, EnvRigid DEF Asked
<1> QED BY <1>1, <1>2, <1>3, <1>4 DEF Next, UserStep

(* What workers hold changes in four kinds of steps.                       *)
LEMMA HandSteps ==
  ASSUME TypeOK, [Next]_vars
  PROVE  \/ \A w \in Workers : Held(w)' = Held(w)
         \/ \E w \in Workers, c \in Campaigns : DispatchQueue(w, c)
         \/ \E w \in Workers, a \in Attempts : RecordDialing(w, a) \/ RecordFailure(w, a)
         \/ \E w \in Workers : WorkerCrash(w)
<1>1. ASSUME NEW w \in Workers,
             NEW c \in Campaigns, DispatchRead(w, c) \/ DispatchPause(w, c) \/ DispatchFail(w, c)
      PROVE  \A v \in Workers : Held(v)' = Held(v)
  BY <1>1 DEF DispatchRead, DispatchPause, DispatchFail, Held
<1>2. ASSUME NEW w \in Workers, NEW a \in Attempts, Originate(w, a)
      PROVE  \A v \in Workers : Held(v)' = Held(v)
  <2>1. /\ a \in jobs[w] /\ placed[w] = {} /\ failed[w] = {}
        /\ jobs' = [jobs EXCEPT ![w] = @ \ {a}]
        /\ \/ placed' = [placed EXCEPT ![w] = {a}] /\ failed' = failed
           \/ placed' = placed /\ failed' = [failed EXCEPT ![w] = {a}]
    BY <1>2 DEF Originate
  <2> QED BY <2>1 DEF Held, TypeOK
<1>3. ASSUME NEW h \in Handlers, HandlerStep(h) \/ HandlerCrash(h)
      PROVE  \A v \in Workers : Held(v)' = Held(v)
  BY <1>3 DEF HandlerStep, EventRead, EventCommit, EventConflict, EventSettle, EventComplete,
              HandlerCrash, Held, workerVars
<1>4. ASSUME BeatStep \/ (\E r \in Recipients : RetryDue(r)) \/ UserStep
               \/ (\E a \in Attempts : ProviderStep(a)) \/ UNCHANGED vars
      PROVE  \A v \in Workers : Held(v)' = Held(v)
  <2>1. UNCHANGED workerVars
    BY <1>4, ProviderParts
       DEF BeatStep, BeatRead, BeatPromote, BeatEnqueue, RetryDue, UserStep, UserRead, UserWrite,
           UserRefused, AddDnc, DeleteDnc, Report, vars
  <2> QED BY <2>1 DEF Held, workerVars
<1> QED
  BY <1>1, <1>2, <1>3, <1>4 DEF Next, WorkerStep

(* Only a reservation makes tokens.                                        *)
LEMMA TokenSource ==
  ASSUME TypeOK, [Next]_vars, NEW a \in Attempts, Token(a)',
         \A w \in Workers, c \in Campaigns : ~DispatchQueue(w, c)
  PROVE  Token(a)
<1>1. ASSUME \A w \in Workers : jobs'[w] \subseteq jobs[w] /\ failed'[w] \subseteq failed[w],
             UNCHANGED provider, events' \subseteq events,
             \A h \in Handlers : loaded'[h] \subseteq loaded[h]
      PROVE  Token(a)
  BY <1>1 DEF Token, Live
<1>2. ASSUME NEW w \in Workers,
             \/ \E c \in Campaigns : DispatchRead(w, c) \/ DispatchPause(w, c) \/ DispatchFail(w, c)
             \/ \E b \in Attempts : RecordDialing(w, b) \/ RecordFailure(w, b)
             \/ WorkerCrash(w)
      PROVE  Token(a)
  <2>1. UNCHANGED <<provider, events, loaded>>
    BY <1>2 DEF DispatchRead, DispatchPause, DispatchFail, RecordDialing, RecordFailure,
                WorkerCrash, handlerVars, callVars
  <2>2. \A v \in Workers : jobs'[v] \subseteq jobs[v] /\ failed'[v] \subseteq failed[v]
    <3>1. /\ jobs' = jobs \/ jobs' = [jobs EXCEPT ![w] = {}]
          /\ failed' = failed \/ failed' = [failed EXCEPT ![w] = {}]
      BY <1>2 DEF DispatchRead, DispatchPause, DispatchFail, RecordDialing, RecordFailure,
                  WorkerCrash
    <3> QED BY <3>1 DEF TypeOK
  <2> QED BY <1>1, <2>1, <2>2
<1>3. ASSUME NEW w \in Workers, NEW b \in Attempts, Originate(w, b) PROVE Token(a)
  <2>1. b \in jobs[w] /\ Token(b)
    BY <1>3 DEF Originate, Token
  <2>2. /\ jobs' = [jobs EXCEPT ![w] = @ \ {b}]
        /\ failed' = failed \/ failed' = [failed EXCEPT ![w] = {b}]
        /\ provider' = provider \/ provider' = [provider EXCEPT ![b] = "dialing"]
        /\ UNCHANGED <<events, loaded>>
    BY <1>3 DEF Originate, handlerVars
  <2>3. \A v \in Workers : jobs'[v] \subseteq jobs[v] /\ failed'[v] \subseteq failed[v] \union {b}
    BY <2>2 DEF TypeOK
  <2>4. a # b => provider'[a] = provider[a]
    BY <2>2 DEF TypeOK
  <2> QED BY <2>1, <2>2, <2>3, <2>4 DEF Token, Live
<1>4. ASSUME NEW h \in Handlers, NEW e \in events, EventRead(h, e) PROVE Token(a)
  <2>1. PICK seen : loaded' = [loaded EXCEPT ![h] = {seen}] /\ seen.event = e
    BY <1>4, ReadSeen
  <2>2. UNCHANGED <<jobs, failed, provider>> /\ events' \subseteq events
    BY <1>4 DEF EventRead, workerVars
  <2>3. \A k \in Handlers : \A l \in loaded'[k] : l \in loaded[k] \/ l.event = e
    BY <2>1 DEF TypeOK
  <2> QED BY <2>2, <2>3 DEF Token, Live
<1>5. ASSUME NEW h \in Handlers,
             \/ \E l \in loaded[h] : EventCommit(h, l) \/ EventConflict(h, l)
             \/ \E c \in Campaigns : EventSettle(h, c) \/ EventComplete(h, c)
             \/ HandlerCrash(h)
      PROVE  Token(a)
  <2>1. UNCHANGED <<jobs, failed, provider, events>>
    BY <1>5 DEF EventCommit, EventConflict, EventSettle, EventComplete, HandlerCrash, workerVars,
                callVars
  <2>2. \A k \in Handlers : loaded'[k] \subseteq loaded[k]
    BY <1>5 DEF EventCommit, EventConflict, EventSettle, EventComplete, HandlerCrash, TypeOK
  <2> QED BY <1>1, <2>1, <2>2
<1>6. ASSUME NEW b \in Attempts, ProviderStep(b) PROVE Token(a)
  <2>1. PICK status \in Progress \union Terminal, state \in {"ringing", "answered", "over"} :
          Report(b, status, state) /\ provider[b] \in {"dialing", "ringing", "answered"}
    BY <1>6, ProviderParts
  <2>2. /\ UNCHANGED <<jobs, failed, loaded>> /\ Token(b)
        /\ provider' = [provider EXCEPT ![b] = state]
        /\ \A e \in events' : e \in events \/ e.attempt = b
    BY <2>1 DEF Report, workerVars, handlerVars, Token, Live
  <2>3. a # b => provider'[a] = provider[a]
    BY <2>2 DEF TypeOK
  <2> QED BY <2>2, <2>3 DEF Token, Live
<1>7. ASSUME BeatStep \/ (\E r \in Recipients : RetryDue(r)) \/ UserStep \/ UNCHANGED vars
      PROVE  Token(a)
  <2>1. UNCHANGED <<jobs, failed, provider, events, loaded>>
    BY <1>7 DEF BeatStep, BeatRead, BeatPromote, BeatEnqueue, RetryDue, UserStep, UserRead,
                UserWrite, UserRefused, AddDnc, DeleteDnc, vars, workerVars, handlerVars, callVars
  <2> QED BY <1>1, <2>1
<1> QED
  BY <1>2, <1>3, <1>4, <1>5, <1>6, <1>7 DEF Next, WorkerStep, HandlerStep

(* Where events come once and in order, what is in flight is a token.      *)
LEMMA FlightIsToken ==
  ASSUME TypeOK, Ownership, Flow, InOrder, NEW a \in Attempts, InFlight(a)
  PROVE  Token(a)
<1>1. provider[a] # "idle"
  BY DEF InFlight, Ownership, EventsOfCalls
<1>2. CASE Over(a)
  BY <1>2 DEF Flow, OverEnds, InFlight, Token, Over
<1>3. CASE ~Over(a)
  BY <1>1, <1>3 DEF TypeOK, Token, Live, Over
<1> QED BY <1>2, <1>3

(* A recipient has one token at most.                                      *)
LEMMA SameToken ==
  ASSUME OneToken, NEW a \in Attempts, NEW b \in Attempts, Token(a), Token(b), a[1] = b[1]
  PROVE  a = b
  BY AttemptParts DEF OneToken, TokenLatest

(* Nothing comes into anybody's hands, nothing is posted or read.          *)
LEMMA FewerTokens ==
  ASSUME UNCHANGED provider, events' \subseteq events,
         \A w \in Workers : jobs'[w] \subseteq jobs[w] /\ failed'[w] \subseteq failed[w],
         \A h \in Handlers : loaded'[h] \subseteq loaded[h],
         NEW a \in Attempts, Token(a)'
  PROVE  Token(a)
  BY DEF Token, Live

(* The answer to a refused call, and the commit of the event that ends a   *)
(* call, spend its token.                                                  *)
LEMMA RefusalSpends ==
  ASSUME TypeOK, Ownership, OneOutcome, OneToken, NEW w \in Workers, NEW a \in Attempts,
         RecordFailure(w, a)
  PROVE  Token(a) /\ ~Token(a)'
<1>1. a \in failed[w] /\ provider[a] = "idle" /\ Token(a)
  BY DEF RecordFailure, OneToken, TokenKinds, Token
<1>2. UNCHANGED <<jobs, provider, events, loaded>>
  BY DEF RecordFailure, handlerVars, callVars
<1>3. \A v \in Workers : a \notin jobs[v] /\ a \notin failed'[v]
  BY <1>1 DEF RecordFailure, Ownership, JobsFresh, HeldApart, Held, TypeOK
<1>4. /\ \A e \in events : e.attempt # a
      /\ \A h \in Handlers : \A l \in loaded[h] : l.event.attempt # a
  BY <1>1 DEF Ownership, EventsOfCalls
<1> QED BY <1>1, <1>2, <1>3, <1>4 DEF Token, Live

LEMMA EndSpends ==
  ASSUME TypeOK, Ownership, OneToken, NEW h \in Handlers, NEW l \in loaded[h],
         EventCommit(h, l), Ends(l.event), NEW a \in Attempts, a = l.event.attempt
  PROVE  Token(a) /\ ~Token(a)'
<1>1. provider[a] = "over" /\ Token(a)
  BY DEF OneToken, TokenKinds, Token
<1>2. \A v \in Workers : a \notin jobs[v] /\ a \notin failed[v]
  BY <1>1 DEF Ownership, JobsFresh, OneToken, TokenKinds
<1>3. \A e \in events : ~(e.attempt = a /\ Ends(e))
  BY DEF OneToken, TokenOnce
<1>4. loaded' = [loaded EXCEPT ![h] = {}] /\ UNCHANGED <<jobs, failed, provider, events>>
  BY DEF EventCommit, workerVars, callVars
<1>5. \A k \in Handlers : \A m \in loaded'[k] : ~(m.event.attempt = a /\ Ends(m.event))
  BY <1>4 DEF OneToken, TokenOnce, TypeOK
<1> QED BY <1>1, <1>2, <1>3, <1>4, <1>5 DEF Token, Live

(* What a commit writes to the recipient while the call goes on.           *)
LEMMA ProgressWrites ==
  ASSUME TypeOK, NEW h \in Handlers, NEW l \in loaded[h], EventCommit(h, l), ~Ends(l.event),
         NEW r \in Recipients
  PROVE  recipientStatus'[r] \in {recipientStatus[r], "answered"}
<1>1. l.event.status \in Progress
  BY LoadedParts DEF Ends
<1>2. NewStatus(l) \in {l.recipient, "answered"}
  BY <1>1 DEF NewStatus, Retries, Progress, Retryable
<1> QED BY <1>2 DEF EventCommit, TypeOK

LEMMA EngagedDispatch ==
  ASSUME TypeOK, Ownership, OneToken, TokensEngaged, NEW w \in Workers, NEW c \in Campaigns,
         DispatchQueue(w, c)
  PROVE  TokensEngaged'
<1>1. PICK scanned \in SUBSET Candidates(c), taken \in SUBSET Candidates(c) :
        /\ recipientStatus' = [r \in Recipients |->
             IF r \in taken THEN "queued"
             ELSE IF r \in scanned \intersect Unresolved THEN "failed"
             ELSE recipientStatus[r]]
        /\ jobs' = [jobs EXCEPT ![w] = {NextAttempt(r) : r \in taken}]
  BY DEF DispatchQueue
<1> DEFINE made == {NextAttempt(r) : r \in taken}
<1>2. UNCHANGED <<env, placed, failed, provider, events, loaded>> /\ Held(w) = {}
  BY DEF DispatchQueue, handlerVars, callVars, Ownership, SlotsFirst
<1>3. /\ taken \subseteq Recipients /\ \A r \in taken : recipientStatus[r] = "pending"
      /\ \A r \in scanned : recipientStatus[r] = "pending"
  BY DEF Candidates, RecipientsOf
<1>4. \A a \in made : a[1] \in taken
  BY DEF NextAttempt
<1>5. \A a \in Attempts : Token(a)' => Token(a) \/ a \in made
  <2>1. \A v \in Workers : jobs'[v] \subseteq jobs[v] \union made
    BY <1>1 DEF TypeOK
  <2> QED
    BY <1>2, <2>1 DEF Token, Live
<1>6. \A a \in Attempts : InHand(a) => InHand(a)'
  BY <1>1, <1>2 DEF InHand, Held, TypeOK
<1> SUFFICES ASSUME NEW a \in Attempts, Token(a)' PROVE Engaged(a)'
  BY DEF TokensEngaged
<1>7. CASE a \in made
  BY <1>1, <1>3, <1>4, <1>7 DEF Engaged, ActiveStates
<1>8. CASE Token(a)
  <2>1. recipientStatus'[a[1]] = recipientStatus[a[1]]
    BY <1>1, <1>3, <1>8, AttemptParts DEF OneToken, TokenLatest
  <2> QED BY <1>2, <1>6, <1>8, <2>1 DEF TokensEngaged, Engaged
<1> QED BY <1>5, <1>7, <1>8

(* The recipient whose outcome is recorded is DIALING, or out of tokens.   *)
LEMMA EngagedRecord ==
  ASSUME TypeOK, Ownership, OneOutcome, OneToken, TokensEngaged,
         NEW w \in Workers, NEW b \in Attempts, RecordDialing(w, b) \/ RecordFailure(w, b)
  PROVE  TokensEngaged'
<1>1. b \in placed[w] \union failed[w] /\ UNCHANGED <<env, jobs, provider, events, loaded>>
  BY DEF RecordDialing, RecordFailure, handlerVars, callVars
<1>2. \A v \in Workers : Held(v) \ {b} \subseteq Held(v)'
  <2>1. placed[w] \union failed[w] = {b}
    BY <1>1 DEF OneOutcome
  <2>2. \A v \in Workers \ {w} : placed'[v] = placed[v] /\ failed'[v] = failed[v]
    BY DEF RecordDialing, RecordFailure, TypeOK
  <2> QED
    BY <1>1, <2>1, <2>2 DEF Held
<1>3. \A v \in Workers : failed'[v] \subseteq failed[v]
  <2>1. failed' = failed \/ failed' = [failed EXCEPT ![w] = {}]
    BY DEF RecordDialing, RecordFailure
  <2> QED BY <2>1 DEF TypeOK
<1> SUFFICES ASSUME NEW a \in Attempts, Token(a)' PROVE Engaged(a)'
  BY DEF TokensEngaged
<1>4. Token(a)
  BY <1>1, <1>3, FewerTokens
<1>5. CASE a[1] # b[1]
  <2>1. recipientStatus'[a[1]] = recipientStatus[a[1]]
    BY <1>5, AttemptParts DEF RecordDialing, RecordFailure, TypeOK
  <2>2. InHand(a) => InHand(a)'
    BY <1>2, <1>5 DEF InHand
  <2> QED BY <1>1, <1>4, <2>1, <2>2 DEF TokensEngaged, Engaged
<1>6. CASE a[1] = b[1] /\ RecordDialing(w, b)
  BY <1>6, AttemptParts DEF RecordDialing, Engaged, ActiveStates, TypeOK
<1>7. CASE a[1] = b[1] /\ RecordFailure(w, b)
  <2>1. Token(b) /\ ~Token(b)'
    BY <1>7, RefusalSpends
  <2>2. a = b
    BY <1>4, <1>7, <2>1, SameToken
  <2> QED BY <2>1, <2>2
<1> QED BY <1>5, <1>6, <1>7

(* Steps that make no token and release nobody.                            *)
LEMMA EngagedKept ==
  ASSUME TokensEngaged, UNCHANGED env,
         \A a \in Attempts : Token(a)' => Token(a),
         \A r \in Recipients : recipientStatus[r] \in ActiveStates =>
           recipientStatus'[r] \in ActiveStates,
         "cancel" \in env.requests => \A a \in Attempts : InHand(a) => InHand(a)'
  PROVE  TokensEngaged'
  BY AttemptParts DEF TokensEngaged, Engaged

(* The commit of an event that ends a call spends the recipient's token.   *)
LEMMA EngagedCommit ==
  ASSUME TypeOK, Ownership, OneToken, TokensEngaged, Flow, InOrder,
         NEW h \in Handlers, NEW l \in loaded[h], EventCommit(h, l)
  PROVE  TokensEngaged'
<1>1. PICK b \in Attempts : b = l.event.attempt
  BY EventAttempts
<1>2. Token(b)
  BY <1>1, FlightIsToken DEF InFlight
<1>3. /\ UNCHANGED <<env, jobs, placed, failed, provider, events>>
      /\ \A k \in Handlers : loaded'[k] \subseteq loaded[k]
  BY DEF EventCommit, workerVars, callVars, TypeOK
<1>4. \A a \in Attempts : (Token(a)' => Token(a)) /\ (InHand(a) => InHand(a)')
  BY <1>3, FewerTokens DEF InHand, Held
<1>5. CASE Ends(l.event)
  <2> SUFFICES ASSUME NEW a \in Attempts, Token(a)' PROVE Engaged(a)'
    BY DEF TokensEngaged
  <2>1. a # b
    BY <1>1, <1>5, EndSpends
  <2>2. a[1] # b[1]
    BY <1>2, <1>4, <2>1, SameToken
  <2>3. recipientStatus'[a[1]] = recipientStatus[a[1]]
    BY <1>1, <2>2, AttemptParts DEF EventCommit, TypeOK
  <2> QED BY <1>3, <1>4, <2>3 DEF TokensEngaged, Engaged
<1>6. CASE ~Ends(l.event)
  <2>1. \A r \in Recipients : recipientStatus'[r] \in {recipientStatus[r], "answered"}
    BY <1>6, ProgressWrites
  <2> QED BY <1>3, <1>4, <2>1, EngagedKept DEF ActiveStates
<1> QED BY <1>5, <1>6

(* Who is cancelled while QUEUED is in the hands of a worker.              *)
LEMMA EngagedCancel ==
  ASSUME TypeOK, OneToken, TokensEngaged, Asked, QueuedHasWorker, Orderly,
         NEW u \in Users, NEW q \in decided[u], UserWrite(u, q)
  PROVE  TokensEngaged'
<1>1. /\ UNCHANGED <<env, jobs, placed, failed, provider, events, loaded>>
      /\ recipientStatus' = [r \in Recipients |->
           IF Cancels(q, r) THEN "cancelled" ELSE recipientStatus[r]]
  BY DEF UserWrite, workerVars, handlerVars, callVars
<1> SUFFICES ASSUME NEW a \in Attempts, Token(a)' PROVE Engaged(a)'
  BY DEF TokensEngaged
<1>2. Token(a) /\ (InHand(a) => InHand(a)')
  BY <1>1, FewerTokens DEF InHand, Held
<1>3. CASE Cancels(q, a[1])
  <2>1. "cancel" \in env.requests /\ "crash" \notin env.faults
    BY <1>3 DEF Cancels, Asked, Orderly
  <2>2. recipientStatus[a[1]] = "queued" /\ a = <<a[1], attemptsCount[a[1]]>>
    BY <1>2, <1>3, AttemptParts DEF Cancels, OneToken, TokenLatest
  <2>3. InHand(a)
    BY <2>1, <2>2, AttemptParts DEF QueuedHasWorker, InHand
  <2> QED BY <1>1, <1>2, <2>1, <2>3 DEF Engaged
<1>4. CASE ~Cancels(q, a[1])
  BY <1>1, <1>2, <1>4, AttemptParts DEF TokensEngaged, Engaged
<1> QED BY <1>3, <1>4

LEMMA EngagedStep ==
  ASSUME TypeOK, Ownership, OneOutcome, QueuedHasWorker, OneToken, Flow, Asked, Orderly,
         TokensEngaged, [Next]_vars
  PROVE  TokensEngaged'
<1> InOrder /\ UNCHANGED env
  BY EnvRigid DEF Orderly, InOrder
<1>1. ASSUME NEW w \in Workers, WorkerCrash(w) PROVE TokensEngaged'
  <2>1. /\ UNCHANGED <<recipientStatus, provider, events, loaded>>
        /\ \A v \in Workers : jobs'[v] \subseteq jobs[v] /\ failed'[v] \subseteq failed[v]
    BY <1>1 DEF WorkerCrash, database, handlerVars, callVars, TypeOK
  <2>2. \A a \in Attempts : Token(a)' => Token(a)
    BY <2>1, FewerTokens
  <2>3. "cancel" \notin env.requests
    BY <1>1 DEF WorkerCrash, Orderly
  <2> QED BY <2>1, <2>2, <2>3, EngagedKept
<1>2. ASSUME \A w \in Workers, c \in Campaigns : ~DispatchQueue(w, c),
             \A w \in Workers : Held(w)' = Held(w),
             \/ UNCHANGED recipientStatus
             \/ \E w \in Workers, c \in Campaigns : DispatchFail(w, c)
      PROVE  TokensEngaged'
  <2>1. \A a \in Attempts : (Token(a)' => Token(a)) /\ (InHand(a) => InHand(a)')
    BY <1>2, TokenSource DEF InHand
  <2>2. \A r \in Recipients : recipientStatus[r] \in ActiveStates =>
          recipientStatus'[r] \in ActiveStates
    BY <1>2, DispatchRows DEF ActiveStates
  <2> QED BY <2>1, <2>2, EngagedKept
<1> QED
  BY <1>1, <1>2, HandSteps, RowSteps, EngagedDispatch, EngagedRecord, EngagedCommit, EngagedCancel

-----------------------------------------------------------------------------
(* No slot leaks.  Unless events overtake the worker, nothing of a call    *)
(* whose answer is not stored yet is on its way; and a handler that found  *)
(* its recipient inactive is right about that until it commits.            *)
PlacedApart == "overtake" \notin env.faults =>
  \A w \in Workers : \A a \in placed[w] : provider[a] = "dialing" /\ ~InFlight(a)
KnownInactive ==
  \A h \in Handlers : \A l \in loaded[h] :
    l.recipient \notin ActiveStates => recipientStatus[l.event.attempt[1]] \notin ActiveStates

(* The steps that add to what is placed, posted or over.                   *)
LEMMA PlacedSteps ==
  ASSUME TypeOK, [Next]_vars
  PROVE  \/ UNCHANGED provider /\ \A w \in Workers : placed'[w] \subseteq placed[w]
         \/ \E w \in Workers, a \in Attempts : Originate(w, a)
         \/ \E a \in Attempts : ProviderStep(a)
<1>1. ASSUME NEW w \in Workers,
             \/ \E c \in Campaigns : DispatchRead(w, c) \/ DispatchQueue(w, c)
                                     \/ DispatchPause(w, c) \/ DispatchFail(w, c)
             \/ \E a \in Attempts : RecordDialing(w, a) \/ RecordFailure(w, a)
             \/ WorkerCrash(w)
      PROVE  UNCHANGED provider /\ \A v \in Workers : placed'[v] \subseteq placed[v]
  <2>1. UNCHANGED provider /\ (placed' = placed \/ placed' = [placed EXCEPT ![w] = {}])
    BY <1>1 DEF DispatchRead, DispatchQueue, DispatchPause, DispatchFail, RecordDialing,
                RecordFailure, WorkerCrash, callVars
  <2> QED
    BY <2>1 DEF TypeOK
<1>2. ASSUME BeatStep \/ (\E r \in Recipients : RetryDue(r)) \/ UserStep
               \/ (\E h \in Handlers : HandlerStep(h) \/ HandlerCrash(h)) \/ UNCHANGED vars
      PROVE  UNCHANGED <<placed, provider>>
  <2>1. CASE BeatStep \/ (\E r \in Recipients : RetryDue(r)) \/ UNCHANGED vars
    BY <2>1 DEF BeatStep, BeatRead, BeatPromote, BeatEnqueue, RetryDue, vars, workerVars, callVars
  <2>2. CASE UserStep
    BY <2>2 DEF UserStep, UserRead, UserWrite, UserRefused, AddDnc, DeleteDnc, workerVars, callVars
  <2>3. ASSUME NEW h \in Handlers, HandlerStep(h) \/ HandlerCrash(h)
        PROVE  UNCHANGED <<placed, provider>>
    BY <2>3 DEF HandlerStep, EventRead, EventCommit, EventConflict, EventSettle,
                EventComplete, HandlerCrash, workerVars, callVars
  <2> QED BY ONLY <1>2, <2>1, <2>2, <2>3
<1> QED
  BY <1>1, <1>2 DEF Next, WorkerStep

(* Only the provider puts anything in flight.                              *)
LEMMA FlightSource ==
  ASSUME TypeOK, [Next]_vars, NEW a \in Attempts, InFlight(a)', ~ProviderStep(a)
  PROVE  InFlight(a)
<1>1. ASSUME NEW h \in Handlers, loaded' = [loaded EXCEPT ![h] = {}], UNCHANGED events
      PROVE  InFlight(a)
  <2>1. \A k \in Handlers : loaded'[k] \subseteq loaded[k]
    BY <1>1 DEF TypeOK
  <2> QED BY <1>1, <2>1 DEF InFlight
<1>2. ASSUME NEW b \in Attempts, ProviderStep(b) PROVE InFlight(a)
  <2>1. PICK status, state : Report(b, status, state)
    BY <1>2, ProviderParts
  <2>2. PICK posted : events' = events \union {posted} /\ posted.attempt = b
    <3> DEFINE p == [attempt |-> b, status |-> status]
    <3>1. events' = events \union {p} /\ p.attempt = b
      BY <2>1 DEF Report
    <3> HIDE DEF p
    <3> QED BY <3>1
  <2>3. UNCHANGED loaded
    BY <2>1 DEF Report, handlerVars
  <2> QED BY <1>2, <2>2, <2>3 DEF InFlight
<1> QED
  BY <1>1, <1>2, FlowSteps, ReadKeepsFlight
     DEF EventCommit, EventConflict, HandlerCrash, callVars, InFlight

LEMMA PlacedStep ==
  ASSUME TypeOK, Ownership, PlacedApart, [Next]_vars
  PROVE  PlacedApart'
<1> SUFFICES ASSUME "overtake" \notin env.faults, NEW w \in Workers, NEW a \in Attempts,
                    a \in placed'[w]
             PROVE  provider'[a] = "dialing" /\ ~InFlight(a)'
  BY EnvRigid, NextType DEF PlacedApart, TypeOK
<1>1. CASE a \in placed[w]
  <2>1. provider[a] = "dialing" /\ ~InFlight(a)
    BY <1>1 DEF PlacedApart
  <2>2. ~ProviderStep(a)
    BY <1>1, ProviderParts DEF Report, MayReport
  <2>3. provider'[a] = provider[a]
    <3>1. ASSUME NEW b \in Attempts, NEW v \in Workers, Originate(v, b)
          PROVE  b # a /\ (provider' = provider \/ provider' = [provider EXCEPT ![b] = "dialing"])
      BY <2>1, <3>1 DEF Originate, Ownership, JobsFresh
    <3>2. ASSUME NEW b \in Attempts, ProviderStep(b)
          PROVE  b # a /\ \E state : provider' = [provider EXCEPT ![b] = state]
      BY <2>2, <3>2, ProviderParts DEF Report
    <3> QED BY <3>1, <3>2, PlacedSteps DEF TypeOK
  <2> QED BY <2>1, <2>2, <2>3, FlightSource
<1>2. CASE a \notin placed[w]
  <2>1. PICK v \in Workers, b \in Attempts : Originate(v, b)
    <3>1. ASSUME NEW b \in Attempts, ProviderStep(b) PROVE UNCHANGED placed
      BY <3>1, ProviderParts DEF Report, workerVars
    <3> QED BY <1>2, <3>1, PlacedSteps
  <2>2. /\ placed' = placed \/ (placed' = [placed EXCEPT ![v] = {b}]
                                  /\ provider' = [provider EXCEPT ![b] = "dialing"])
        /\ b \in jobs[v] /\ UNCHANGED <<events, loaded>>
    BY <2>1 DEF Originate, handlerVars
  <2>3. a = b /\ provider'[a] = "dialing"
    <3>1. placed' = [placed EXCEPT ![v] = {b}] /\ provider' = [provider EXCEPT ![b] = "dialing"]
      BY <1>2, <2>2
    <3>2. a = b
      BY <1>2, <3>1 DEF TypeOK
    <3> QED BY <3>1, <3>2 DEF TypeOK
  <2>4. ~InFlight(a)
    BY <2>2, <2>3 DEF Ownership, JobsFresh, EventsOfCalls, InFlight
  <2> QED BY <2>2, <2>3, <2>4 DEF InFlight
<1> QED BY <1>1, <1>2

(* A recipient becomes active, or stops being so, for one of these causes. *)
LEMMA InactiveStep ==
  ASSUME TypeOK, Ownership, OneToken, Flow, InOrder, PlacedApart, "overtake" \notin env.faults,
         KnownInactive, [Next]_vars
  PROVE  KnownInactive'
<1> SUFFICES ASSUME NEW h \in Handlers, NEW l \in loaded'[h], l.recipient \notin ActiveStates,
                    NEW a \in Attempts, a = l.event.attempt
             PROVE  recipientStatus'[a[1]] \notin ActiveStates
  <2>1. \A k \in Handlers : \A l \in loaded'[k] : l.event.attempt \in Attempts
    <3>1. loaded' \in [Handlers -> SUBSET Loaded]
      BY NextType DEF TypeOK
    <3> QED BY <3>1 DEF Loaded, Event
  <2> QED BY <2>1 DEF KnownInactive
<1>1. CASE l \in loaded[h]
  <2>1. recipientStatus[a[1]] \notin ActiveStates /\ InFlight(a) /\ Token(a)
    BY <1>1, FlightIsToken DEF KnownInactive, InFlight
  <2>2. recipientStatus[a[1]] # "pending"
    BY <2>1 DEF OneToken, TokenLatest
  <2>3. ASSUME NEW w \in Workers, NEW b \in Attempts, RecordDialing(w, b) PROVE a[1] # b[1]
    <3>1. provider[b] = "dialing" /\ ~InFlight(b)
      BY <2>3 DEF RecordDialing, PlacedApart
    <3>2. Token(b)
      BY <3>1 DEF Token, Live
    <3> QED BY <2>1, <3>1, <3>2, SameToken
  <2>4. ASSUME NEW k \in Handlers, NEW m \in loaded[k], EventCommit(k, m)
        PROVE  recipientStatus'[a[1]] = recipientStatus[a[1]]
    <3>1. PICK b \in Attempts : b = m.event.attempt
      BY EventAttempts
    <3>2. Token(b)
      BY <3>1, FlightIsToken DEF InFlight
    <3>3. a # b
      <4>1. h # k
        BY <2>4 DEF EventCommit, TypeOK
      <4> QED BY <1>1, <3>1, <4>1 DEF Flow, OneInFlight
    <3>4. a[1] # b[1]
      BY <2>1, <3>2, <3>3, SameToken
    <3> QED BY <2>4, <3>1, <3>4, AttemptParts DEF EventCommit, TypeOK
  <2>5. ASSUME NEW w \in Workers, NEW b \in Attempts, RecordDialing(w, b) \/ RecordFailure(w, b)
        PROVE  recipientStatus'[a[1]] \notin ActiveStates
    <3>1. CASE a[1] = b[1]
      BY <2>3, <2>5, <3>1, AttemptParts DEF RecordFailure, Refused, ActiveStates, TypeOK
    <3>2. CASE a[1] # b[1]
      BY <2>1, <2>5, <3>2, AttemptParts DEF RecordFailure, RecordDialing, TypeOK
    <3> QED BY <3>1, <3>2
  <2>6. ASSUME NEW u \in Users, NEW q \in decided[u], UserWrite(u, q)
        PROVE  recipientStatus'[a[1]] \notin ActiveStates
    BY <2>1, <2>6, AttemptParts DEF UserWrite, ActiveStates
  <2>7. ASSUME NEW w \in Workers, NEW c \in Campaigns, DispatchQueue(w, c) \/ DispatchFail(w, c)
        PROVE  recipientStatus'[a[1]] = recipientStatus[a[1]]
    BY <2>2, <2>7, AttemptParts, DispatchRows
  <2> QED BY <2>1, <2>4, <2>5, <2>6, <2>7, RowSteps
<1>2. CASE l \notin loaded[h]
  <2>1. PICK k \in Handlers, e \in events : EventRead(k, e)
    <3>1. ASSUME NEW b \in Attempts, ProviderStep(b) PROVE UNCHANGED loaded
      BY <3>1, ProviderParts DEF Report, handlerVars
    <3> QED
      BY <1>2, <3>1, FlowSteps DEF EventCommit, EventConflict, HandlerCrash, TypeOK
  <2>2. PICK seen : /\ loaded' = [loaded EXCEPT ![k] = {seen}]
                    /\ seen.event = e /\ seen.recipient = recipientStatus[e.attempt[1]]
    BY <2>1, ReadSeen
  <2>3. l = seen
    BY <1>2, <2>2 DEF TypeOK
  <2> QED BY <2>1, <2>2, <2>3 DEF EventRead, database
<1> QED BY <1>1, <1>2

(* Who occupies a slot.                                                    *)
Served(r) == LET a == <<r, attemptsCount[r]>> IN
  a \in Attempts /\ (Live(a) \/ InFlight(a) \/ InHand(a))
Undisturbed ==
  /\ env.faults \intersect {"crash", "timeout", "overtake", "reorder", "duplicate"} = {}
  /\ "do_not_call" \notin env.reports

(* Steps that leave a recipient's row and what serves it alone.            *)
LEMMA StillServed ==
  ASSUME NEW r \in Recipients, Served(r), UNCHANGED attemptsCount,
         \A a \in Attempts : a[1] = r =>
           /\ Live(a) => Live(a)' \/ InFlight(a)'
           /\ InFlight(a) => InFlight(a)'
           /\ InHand(a) => InHand(a)'
  PROVE  Served(r)'
<1>1. PICK a \in Attempts : /\ a = <<r, attemptsCount[r]>> /\ a = <<r, attemptsCount'[r]>>
                            /\ Live(a) \/ InFlight(a) \/ InHand(a)
  BY DEF Served
<1>2. Live(a)' \/ InFlight(a)' \/ InHand(a)'
  BY <1>1
<1> QED BY <1>1, <1>2 DEF Served, Live, InFlight, InHand

(* A commit leaves its recipient active only while the call goes on.       *)
LEMMA CommitServed ==
  ASSUME TypeOK, Ownership, OneToken, Flow, InOrder, KnownInactive,
         NEW h \in Handlers, NEW l \in loaded[h], EventCommit(h, l),
         NEW b \in Attempts, b = l.event.attempt, recipientStatus'[b[1]] \in ActiveStates
  PROVE  Served(b[1])'
<1>1. Token(b) /\ provider[b] # "idle"
  BY FlightIsToken DEF InFlight, Ownership, EventsOfCalls
<1>2. b = <<b[1], attemptsCount[b[1]]>> /\ UNCHANGED <<attemptsCount, provider>>
  BY <1>1, AttemptParts DEF OneToken, TokenLatest, EventCommit, callVars
<1>3. recipientStatus'[b[1]] =
        IF NewStatus(l) = l.recipient THEN recipientStatus[b[1]] ELSE NewStatus(l)
  BY AttemptParts DEF EventCommit, TypeOK
<1>4. ~Ends(l.event)
  <2>1. SUFFICES ASSUME Ends(l.event) PROVE FALSE
    OBVIOUS
  <2>2. NewStatus(l) \notin ActiveStates
    BY <2>1 DEF Ends, NewStatus, Terminal, Retryable, ActiveStates
  <2> QED BY <1>3, <2>2 DEF KnownInactive
<1>5. ~Over(b)
  BY <1>4 DEF Flow, OverEnds, Over
<1>6. Live(b)'
  BY <1>1, <1>2, <1>5 DEF Live, Over, TypeOK
<1>7. b = <<b[1], attemptsCount'[b[1]]>>
  BY <1>2
<1> QED BY <1>6, <1>7 DEF Served, Live

LEMMA QueueServed ==
  ASSUME TypeOK, Ownership, NEW w \in Workers, NEW c \in Campaigns, DispatchQueue(w, c),
         NEW r \in Recipients, recipientStatus'[r] \in ActiveStates,
         recipientStatus[r] \in ActiveStates => Served(r)
  PROVE  Served(r)'
<1>1. PICK scanned \in SUBSET Candidates(c), taken \in SUBSET Candidates(c) :
        /\ attemptsCount' = [s \in Recipients |->
             IF s \in taken THEN attemptsCount[s] + 1 ELSE attemptsCount[s]]
        /\ recipientStatus' = [s \in Recipients |->
             IF s \in taken THEN "queued"
             ELSE IF s \in scanned \intersect Unresolved THEN "failed"
             ELSE recipientStatus[s]]
        /\ jobs' = [jobs EXCEPT ![w] = {NextAttempt(s) : s \in taken}]
  BY DEF DispatchQueue
<1>2. UNCHANGED <<placed, failed, provider, events, loaded>> /\ Held(w) = {}
  BY DEF DispatchQueue, handlerVars, callVars, Ownership, SlotsFirst
<1>3. CASE r \in taken
  <2>1. jobs'[w] = {NextAttempt(s) : s \in taken}
    BY <1>1 DEF TypeOK
  <2>2. <<r, attemptsCount'[r]>> \in jobs'[w] /\ <<r, attemptsCount'[r]>> \in Attempts
    BY <1>1, <1>3, <2>1, ReservedTypes DEF NextAttempt
  <2> QED BY <2>2 DEF Served, InHand, Held
<1>4. CASE r \notin taken
  <2>1. Served(r) /\ attemptsCount'[r] = attemptsCount[r]
    BY <1>1, <1>4 DEF ActiveStates
  <2>2. \A v \in Workers : Held(v) \subseteq Held(v)'
    BY <1>1, <1>2 DEF Held, TypeOK
  <2> QED BY <1>2, <2>1, <2>2 DEF Served, Live, InFlight, InHand
<1> QED BY <1>3, <1>4

(* The worker's steps on an attempt, while no answer is lost.              *)
LEMMA OutcomeServed ==
  ASSUME TypeOK, Ownership, OneOutcome, OneToken, PlacedApart, "overtake" \notin env.faults,
         NEW w \in Workers, NEW b \in Attempts,
         Originate(w, b) \/ RecordDialing(w, b) \/ RecordFailure(w, b),
         NEW r \in Recipients, recipientStatus'[r] \in ActiveStates,
         recipientStatus[r] \in ActiveStates => Served(r)
  PROVE  Served(r)'
<1>1. UNCHANGED <<attemptsCount, events, loaded>>
  BY DEF Originate, RecordDialing, RecordFailure, database, handlerVars, callVars
<1>2. CASE Originate(w, b)
  <2>1. \A a \in Attempts : InHand(a) => InHand(a)'
    <3>1. /\ b \in jobs[w] /\ placed[w] = {} /\ failed[w] = {}
          /\ jobs' = [jobs EXCEPT ![w] = @ \ {b}]
          /\ \/ placed' = [placed EXCEPT ![w] = {b}] /\ failed' = failed
             \/ placed' = placed /\ failed' = [failed EXCEPT ![w] = {b}]
      BY <1>2 DEF Originate
    <3> QED BY <3>1 DEF InHand, Held, TypeOK
  <2>2. /\ provider[b] = "idle" /\ UNCHANGED recipientStatus
        /\ provider' = provider \/ provider' = [provider EXCEPT ![b] = "dialing"]
    BY <1>2 DEF Originate, Ownership, JobsFresh, database
  <2>3. \A a \in Attempts : Live(a) => Live(a)'
    BY <2>2 DEF Live, TypeOK
  <2> QED BY <1>1, <2>1, <2>2, <2>3, StillServed DEF InFlight
<1>3. CASE (RecordDialing(w, b) \/ RecordFailure(w, b)) /\ r # b[1]
  <2>1. recipientStatus'[r] = recipientStatus[r] /\ UNCHANGED <<provider, jobs>>
    BY <1>3 DEF RecordDialing, RecordFailure, TypeOK, callVars
  <2>2. placed[w] \union failed[w] = {b}
    BY <1>3 DEF OneOutcome, RecordDialing, RecordFailure
  <2>3. \A v \in Workers \ {w} : placed'[v] = placed[v] /\ failed'[v] = failed[v]
    BY <1>3 DEF RecordDialing, RecordFailure, TypeOK
  <2>4. \A v \in Workers : Held(v) \ {b} \subseteq Held(v)'
    BY <2>1, <2>2, <2>3 DEF Held
  <2>5. \A a \in Attempts : a[1] = r =>
          (Live(a) => Live(a)') /\ (InFlight(a) => InFlight(a)') /\ (InHand(a) => InHand(a)')
    BY <1>1, <1>3, <2>1, <2>4 DEF Live, InFlight, InHand
  <2> QED BY <1>1, <2>1, <2>5, StillServed
<1>4. CASE RecordDialing(w, b) /\ r = b[1]
  <2>1. Live(b) /\ UNCHANGED provider
    BY <1>4 DEF RecordDialing, PlacedApart, Live, callVars
  <2>2. b = <<r, attemptsCount'[r]>>
    BY <1>1, <1>4, <2>1, AttemptParts DEF OneToken, TokenLatest, Token
  <2> QED BY <2>1, <2>2 DEF Served, Live
<1>5. CASE RecordFailure(w, b) /\ r = b[1]
  BY <1>5 DEF RecordFailure, Refused, ActiveStates, TypeOK
<1> QED BY <1>2, <1>3, <1>4, <1>5

LEMMA NoLeakStep ==
  ASSUME TypeOK, Ownership, OneOutcome, OneToken, Flow, PlacedApart, KnownInactive, Undisturbed,
         \A r \in Active(Recipients) : Served(r), [Next]_vars
  PROVE  \A r \in Active(Recipients)' : Served(r)'
<1> SUFFICES ASSUME NEW r \in Recipients, recipientStatus'[r] \in ActiveStates
             PROVE  Served(r)'
  BY DEF Active
<1>0. /\ InOrder /\ "overtake" \notin env.faults /\ UNCHANGED env
      /\ recipientStatus[r] \in ActiveStates => Served(r)
  BY EnvRigid DEF Undisturbed, InOrder, Active
<1>1. ASSUME NEW w \in Workers, NEW c \in Campaigns, DispatchQueue(w, c) PROVE Served(r)'
  BY <1>0, <1>1, QueueServed
<1>2. ASSUME NEW w \in Workers, NEW a \in Attempts,
             Originate(w, a) \/ RecordDialing(w, a) \/ RecordFailure(w, a)
      PROVE  Served(r)'
  BY <1>0, <1>2, OutcomeServed
<1>3. ASSUME UNCHANGED <<attemptsCount, provider, events, loaded, jobs, placed, failed>>,
             recipientStatus[r] \in ActiveStates
      PROVE  Served(r)'
  BY <1>0, <1>3, StillServed DEF Live, InFlight, InHand, Held
<1>4. ASSUME NEW w \in Workers, NEW c \in Campaigns,
             DispatchRead(w, c) \/ DispatchPause(w, c) \/ DispatchFail(w, c)
      PROVE  Served(r)'
  <2>1. UNCHANGED <<attemptsCount, provider, events, loaded, jobs, placed, failed>>
    BY <1>4 DEF DispatchRead, DispatchPause, DispatchFail, database, handlerVars, callVars
  <2>2. recipientStatus[r] \in ActiveStates
    BY <1>4, DispatchRows DEF DispatchRead, DispatchPause, DispatchFail, database, ActiveStates
  <2> QED BY <1>3, <2>1, <2>2
<1>5. ASSUME \/ BeatStep \/ (\E s \in Recipients : RetryDue(s)) \/ UserStep \/ UNCHANGED vars
             \/ \E h \in Handlers : \E c \in Campaigns : EventSettle(h, c) \/ EventComplete(h, c)
      PROVE  Served(r)'
  <2>1. UNCHANGED <<attemptsCount, provider, events, loaded, jobs, placed, failed>>
    BY <1>5 DEF BeatStep, BeatRead, BeatPromote, BeatEnqueue, RetryDue, UserStep, UserRead,
                UserWrite, UserRefused, AddDnc, DeleteDnc, vars, database, workerVars, handlerVars,
                callVars, EventSettle, EventComplete
  <2>2. recipientStatus[r] \in ActiveStates
    BY <1>5 DEF BeatStep, BeatRead, BeatPromote, BeatEnqueue, RetryDue, UserStep, UserRead,
                UserWrite, UserRefused, AddDnc, DeleteDnc, vars, database, EventSettle,
                EventComplete, ActiveStates
  <2> QED BY <1>3, <2>1, <2>2
<1>6. ASSUME NEW h \in Handlers, NEW e \in events, EventRead(h, e) PROVE Served(r)'
  <2>1. UNCHANGED <<recipientStatus, attemptsCount, provider, jobs, placed, failed>>
    BY <1>6 DEF EventRead, database, workerVars
  <2>2. \A a \in Attempts : InFlight(a) => InFlight(a)'
    BY <1>6, ReadKeepsFlight
  <2> QED BY <1>0, <2>1, <2>2, StillServed DEF Live, InHand, Held
<1>7. ASSUME NEW h \in Handlers, NEW l \in loaded[h], EventCommit(h, l) PROVE Served(r)'
  <2>1. PICK b \in Attempts : b = l.event.attempt
    BY EventAttempts
  <2>2. CASE r = b[1]
    BY <1>0, <1>7, <2>1, <2>2, CommitServed
  <2>3. CASE r # b[1]
    <3>1. /\ UNCHANGED <<attemptsCount, provider, events, jobs, placed, failed>>
          /\ loaded' = [loaded EXCEPT ![h] = {}]
          /\ recipientStatus'[r] = recipientStatus[r]
      BY <1>7, <2>1, <2>3 DEF EventCommit, workerVars, callVars, TypeOK
    <3>2. \A a \in Attempts : a[1] = r => (InFlight(a) => InFlight(a)')
      BY <2>1, <2>3, <3>1, StillInFlight DEF Flow
    <3> QED BY <1>0, <3>1, <3>2, StillServed DEF Live, InHand, Held
  <2> QED BY <2>2, <2>3
<1>8. ASSUME NEW h \in Handlers, NEW l \in loaded[h], EventConflict(h, l) PROVE FALSE
  BY <1>8 DEF EventConflict, OptsOut, Flow, Reported, Undisturbed
<1>9. ASSUME NEW b \in Attempts, ProviderStep(b) PROVE Served(r)'
  <2>1. PICK status, state : Report(b, status, state)
    BY <1>9, ProviderParts
  <2>2. PICK posted : events' = events \union {posted} /\ posted.attempt = b
    <3> DEFINE p == [attempt |-> b, status |-> status]
    <3>1. events' = events \union {p} /\ p.attempt = b
      BY <2>1 DEF Report
    <3> HIDE DEF p
    <3> QED BY <3>1
  <2>3. /\ UNCHANGED <<recipientStatus, attemptsCount, loaded, jobs, placed, failed>>
        /\ provider' = [provider EXCEPT ![b] = state]
    BY <2>1 DEF Report, database, workerVars, handlerVars
  <2>4. \A a \in Attempts : /\ InFlight(a) => InFlight(a)'
                            /\ Live(a) => Live(a)' \/ InFlight(a)'
    BY <2>2, <2>3 DEF InFlight, Live, TypeOK
  <2> QED BY <1>0, <2>3, <2>4, StillServed DEF InHand, Held
<1>10. (\A w \in Workers : ~WorkerCrash(w)) /\ \A h \in Handlers : ~HandlerCrash(h)
  BY DEF WorkerCrash, HandlerCrash, Undisturbed
<1> QED
  BY <1>1, <1>2, <1>4, <1>5, <1>6, <1>7, <1>8, <1>9, <1>10 DEF Next, WorkerStep, HandlerStep

-----------------------------------------------------------------------------
(* The invariants together                                                 *)
DispatchInv ==
  /\ TypeOK /\ Ownership /\ OneOutcome /\ Flow /\ Asked /\ PlacedApart /\ QueuedHasWorker
  /\ Reliable => OneToken
  /\ Orderly => TokensEngaged

LEMMA InitDispatch == Init => DispatchInv
<1>1. Init => OneOutcome /\ Asked /\ PlacedApart /\ QueuedHasWorker /\ TokensEngaged
  BY DEF Init, OneOutcome, Asked, PlacedApart, QueuedHasWorker, TokensEngaged, Token, Live
<1> QED BY <1>1, InitType, InitOwnership, InitFlow, InitToken DEF DispatchInv

LEMMA DispatchStep == DispatchInv /\ [Next]_vars => DispatchInv'
<1> SUFFICES ASSUME DispatchInv, [Next]_vars PROVE DispatchInv'
  OBVIOUS
<1>1. TypeOK' /\ Ownership' /\ OneOutcome' /\ Flow' /\ Asked' /\ PlacedApart' /\ QueuedHasWorker'
  BY NextType, NextOwnership, OutcomeStep, FlowStep, AskedStep, PlacedStep, QueuedStep
     DEF DispatchInv
<1>2. (Reliable => OneToken)'
  BY NextToken, EnvRigid DEF DispatchInv, Reliable
<1>3. (Orderly => TokensEngaged)'
  <2>1. ASSUME Orderly PROVE TokensEngaged'
    <3>1. Reliable
      BY <2>1 DEF Orderly, Reliable
    <3> QED BY <2>1, <3>1, EngagedStep DEF DispatchInv
  <2>2. Orderly' <=> Orderly
    BY EnvRigid DEF Orderly
  <2> QED BY <2>1, <2>2
<1> QED BY <1>1, <1>2, <1>3 DEF DispatchInv

(* In an orderly environment, whoever is called has a slot.                *)
THEOREM DispatchInvariant == Spec => []DispatchInv
  BY InitDispatch, DispatchStep, PTL DEF Spec

(* A slot is never left with nobody to release it, when no answer is lost  *)
(* and events come once, in order and not before the worker has stored     *)
(* that it placed the call (_dispatch_campaign, apply_event).              *)
THEOREM NoSlotLeakHolds == Spec => []NoSlotLeak
<1> DEFINE Slots == Undisturbed => KnownInactive /\ \A r \in Active(Recipients) : Served(r)
<1>1. Init => Slots
  BY DEF Init, KnownInactive, Active, ActiveStates
<1>2. DispatchInv /\ Slots /\ [Next]_vars => Slots'
  <2> SUFFICES ASSUME DispatchInv, Slots, Undisturbed, [Next]_vars
               PROVE  KnownInactive' /\ \A r \in Active(Recipients)' : Served(r)'
    BY EnvRigid DEF Undisturbed
  <2>1. InOrder /\ OneToken /\ "overtake" \notin env.faults
    BY DEF Undisturbed, DispatchInv, InOrder, Reliable
  <2> QED BY <2>1, InactiveStep, NoLeakStep DEF DispatchInv
<1>3. Slots => NoSlotLeak
  BY DEF NoSlotLeak, Undisturbed, Served, InHand
<1> QED BY <1>1, <1>2, <1>3, DispatchInvariant, PTL DEF Spec

-----------------------------------------------------------------------------
(* Completion.  Once nobody of a campaign remains, nobody ever will, for   *)
(* whoever is in a call is active and only PENDING recipients are reserved.*)
Ended(c) == \A r \in RecipientsOf(c) : recipientStatus[r] \notin Remaining
Watched ==
  /\ env.faults \intersect {"timeout", "overtake", "reorder", "duplicate"} = {}
  /\ env.requests \subseteq {"pause", "resume"}
CompletedEnded ==
  \A c \in Campaigns :
    campaignStatus[c] = "completed" \/ (\E h \in Handlers : c \in completing[h]) => Ended(c)

LEMMA WatchedTokens ==
  ASSUME DispatchInv, Watched
  PROVE  /\ OneToken /\ InOrder /\ "overtake" \notin env.faults
         /\ \A a \in Attempts : Token(a) => recipientStatus[a[1]] \in ActiveStates
  BY DEF DispatchInv, Watched, Reliable, Orderly, InOrder, TokensEngaged, Engaged

LEMMA EndedStep ==
  ASSUME DispatchInv, Watched, [Next]_vars, NEW c \in Campaigns, Ended(c)
  PROVE  Ended(c)'
<1> SUFFICES ASSUME NEW r \in RecipientsOf(c), NEW s, s = recipientStatus'[r]
             PROVE  s \notin Remaining
  BY DEF Ended, RecipientsOf
<1>1. r \in Recipients /\ recipientStatus[r] \notin Remaining
  BY DEF Ended, RecipientsOf
<1>2. recipientStatus[r] \notin ActiveStates /\ recipientStatus[r] # "pending"
  BY <1>1 DEF Remaining
<1>3. ASSUME NEW w \in Workers, NEW b \in Attempts, RecordDialing(w, b) \/ RecordFailure(w, b)
      PROVE  s = recipientStatus[r]
  <2>1. Token(b)
    BY <1>3, WatchedTokens DEF RecordDialing, RecordFailure, DispatchInv, PlacedApart, Token, Live
  <2>2. b[1] # r
    BY <1>2, <2>1, WatchedTokens
  <2> QED BY <1>1, <1>3, <2>2 DEF RecordDialing, RecordFailure, DispatchInv, TypeOK
<1>4. ASSUME NEW h \in Handlers, NEW l \in loaded[h], EventCommit(h, l)
      PROVE  s = recipientStatus[r]
  <2>1. PICK b \in Attempts : b = l.event.attempt
    BY EventAttempts DEF DispatchInv
  <2>2. Token(b)
    BY <2>1, FlightIsToken, WatchedTokens DEF DispatchInv, InFlight
  <2>3. b[1] # r
    BY <1>2, <2>2, WatchedTokens
  <2> QED BY <1>1, <1>4, <2>1, <2>3 DEF EventCommit, DispatchInv, TypeOK
<1>5. ASSUME NEW u \in Users, NEW q \in decided[u], UserWrite(u, q)
      PROVE  s \in {recipientStatus[r], "cancelled"}
  BY <1>1, <1>5 DEF UserWrite
<1>6. ASSUME NEW w \in Workers, NEW d \in Campaigns, DispatchQueue(w, d) \/ DispatchFail(w, d)
      PROVE  s = recipientStatus[r]
  BY <1>1, <1>2, <1>6, DispatchRows
<1> QED
  BY <1>1, <1>3, <1>4, <1>5, <1>6, RowSteps DEF Remaining, ActiveStates

(* What completes a campaign.                                              *)
LEMMA CompletionSteps ==
  ASSUME DispatchInv, Watched, [Next]_vars, NEW c \in Campaigns
  PROVE  /\ campaignStatus'[c] = "completed" =>
              campaignStatus[c] = "completed" \/ \E h \in Handlers : c \in completing[h]
         /\ \A h \in Handlers : c \in completing'[h] => c \in completing[h] \/ Ended(c)
<1> TypeOK
  BY DEF DispatchInv
<1>1. ASSUME NEW w \in Workers, WorkerStep(w) \/ WorkerCrash(w)
      PROVE  /\ campaignStatus'[c] \in {campaignStatus[c], "paused", "failed"}
             /\ UNCHANGED completing
  BY <1>1 DEF WorkerStep, WorkerCrash, DispatchRead, DispatchQueue, DispatchPause,
              DispatchFail, Originate, RecordDialing, RecordFailure, database, handlerVars, TypeOK
<1>2. ASSUME BeatStep \/ (\E r \in Recipients : RetryDue(r))
               \/ (\E a \in Attempts : ProviderStep(a)) \/ UNCHANGED vars
      PROVE  campaignStatus'[c] \in {campaignStatus[c], "running"} /\ UNCHANGED completing
  BY <1>2, ProviderParts
     DEF BeatStep, BeatRead, BeatPromote, BeatEnqueue, RetryDue, Report, vars, database,
         handlerVars, TypeOK
<1>3. ASSUME UserStep
      PROVE  campaignStatus'[c] \in {campaignStatus[c], "running", "paused"} /\ UNCHANGED completing
  <2>1. ASSUME NEW u \in Users, NEW q \in decided[u], UserWrite(u, q)
        PROVE  campaignStatus'[c] \in {campaignStatus[c], "running", "paused"}
    <3>1. q.op \in {"pause", "resume"}
      BY DEF DispatchInv, Asked, Watched
    <3>2. Target(q.op) \in {"running", "paused"}
      BY <3>1 DEF Target
    <3> QED BY <2>1, <3>2 DEF UserWrite, TypeOK
  <2>2. UNCHANGED completing
    BY <1>3 DEF UserStep, UserRead, UserWrite, UserRefused, AddDnc, DeleteDnc, handlerVars
  <2> QED
    BY <1>3, <2>1, <2>2 DEF UserStep, UserRead, UserRefused, AddDnc, DeleteDnc, database
<1>4. ASSUME NEW h \in Handlers,
             \/ \E e \in events : EventRead(h, e)
             \/ \E l \in loaded[h] : EventCommit(h, l) \/ EventConflict(h, l)
             \/ HandlerCrash(h)
      PROVE  UNCHANGED campaignStatus /\ \A k \in Handlers : completing'[k] \subseteq completing[k]
  BY <1>4 DEF EventRead, EventCommit, EventConflict, HandlerCrash, database, TypeOK
<1>5. ASSUME NEW h \in Handlers, NEW d \in Campaigns, EventSettle(h, d)
      PROVE  /\ UNCHANGED campaignStatus
             /\ \A k \in Handlers : c \in completing'[k] => c \in completing[k] \/ Ended(c)
  <2>1. /\ UNCHANGED campaignStatus
        /\ \/ UNCHANGED completing
           \/ completing' = [completing EXCEPT ![h] = {d}] /\ Uncalled(d) = {}
    BY <1>5 DEF EventSettle, database
  <2>2. Uncalled(d) = {} => Ended(d)
    BY DEF Uncalled, Ended
  <2> QED BY <2>1, <2>2 DEF TypeOK
<1>6. ASSUME NEW h \in Handlers, NEW d \in Campaigns, EventComplete(h, d)
      PROVE  /\ campaignStatus'[c] = "completed" => campaignStatus[c] = "completed" \/ c \in completing[h]
             /\ \A k \in Handlers : completing'[k] \subseteq completing[k]
  BY <1>6 DEF EventComplete, TypeOK
<1> QED
  BY <1>1, <1>2, <1>3, <1>4, <1>5, <1>6 DEF Next, HandlerStep

(* A campaign is COMPLETED only when nobody of it is left to call or in a  *)
(* call, though apply_event counts in one transaction and completes in     *)
(* another.                                                                *)
THEOREM CompletedIsDoneHolds == Spec => []CompletedIsDone
<1>1. Init => (Watched => CompletedEnded)
  BY DEF Init, CompletedEnded
<1>2. DispatchInv /\ (Watched => CompletedEnded) /\ [Next]_vars => (Watched => CompletedEnded)'
  <2> SUFFICES ASSUME DispatchInv, CompletedEnded, Watched, [Next]_vars PROVE CompletedEnded'
    BY EnvRigid DEF Watched
  <2> QED BY EndedStep, CompletionSteps DEF CompletedEnded
<1>3. DispatchInv /\ (Watched => CompletedEnded) => CompletedIsDone
  BY ConstantsAssumption DEF CompletedIsDone, Watched, CompletedEnded, Ended, RecipientsOf, Remaining
<1> QED BY <1>1, <1>2, <1>3, DispatchInvariant, PTL DEF Spec

-----------------------------------------------------------------------------
(* The caps.  Who occupies a slot is active or in the hands of a worker;   *)
(* only a reservation adds occupants, at most as many as the worker has    *)
(* counted free slots.                                                     *)
HeldOf(w) == {r \in Recipients : \E a \in Held(w) : a[1] = r}
Occupants == {r \in Recipients : \/ recipientStatus[r] \in ActiveStates
                                 \/ \E w \in Workers : r \in HeldOf(w)}

LEMMA LessInHand ==
  ASSUME TypeOK, [Next]_vars, \A w \in Workers, c \in Campaigns : ~DispatchQueue(w, c)
  PROVE  \A v \in Workers : Held(v)' \subseteq Held(v)
<1>1. ASSUME NEW w \in Workers, WorkerCrash(w) \/ \E a \in Attempts : RecordDialing(w, a) \/ RecordFailure(w, a)
      PROVE  \A v \in Workers : Held(v)' \subseteq Held(v)
  <2>1. /\ jobs' = jobs \/ jobs' = [jobs EXCEPT ![w] = {}]
        /\ placed' = placed \/ placed' = [placed EXCEPT ![w] = {}]
        /\ failed' = failed \/ failed' = [failed EXCEPT ![w] = {}]
    BY <1>1 DEF WorkerCrash, RecordDialing, RecordFailure
  <2>2. \A v \in Workers : jobs'[v] \subseteq jobs[v]
    BY <2>1 DEF TypeOK
  <2>3. \A v \in Workers : placed'[v] \subseteq placed[v]
    BY <2>1 DEF TypeOK
  <2>4. \A v \in Workers : failed'[v] \subseteq failed[v]
    BY <2>1 DEF TypeOK
  <2> QED BY <2>2, <2>3, <2>4 DEF Held
<1> QED BY <1>1, HandSteps

LEMMA OccupantSteps ==
  ASSUME DispatchInv, Orderly, [Next]_vars
  PROVE  \/ /\ Occupants' \subseteq Occupants
            /\ \A w \in Workers : HeldOf(w)' \subseteq HeldOf(w)
         \/ \E w \in Workers, c \in Campaigns : DispatchQueue(w, c)
<1> SUFFICES ASSUME \A w \in Workers, c \in Campaigns : ~DispatchQueue(w, c)
             PROVE  /\ Occupants' \subseteq Occupants
                    /\ \A w \in Workers : HeldOf(w)' \subseteq HeldOf(w)
  OBVIOUS
<1> TypeOK /\ OneToken /\ TokensEngaged /\ InOrder
  BY DEF DispatchInv, Orderly, Reliable, InOrder
<1>1. \A w \in Workers : HeldOf(w)' \subseteq HeldOf(w)
  BY LessInHand DEF HeldOf
<1>2. ASSUME NEW r \in Recipients, recipientStatus'[r] \in ActiveStates
      PROVE  r \in Occupants
  <2>1. ASSUME recipientStatus'[r] = recipientStatus[r] PROVE r \in Occupants
    BY <1>2, <2>1 DEF Occupants
  <2>2. ASSUME NEW b \in Attempts, Token(b), b[1] = r PROVE r \in Occupants
    <3>1. Engaged(b)
      BY <2>2 DEF TokensEngaged
    <3> QED BY <2>2, <3>1 DEF Engaged, InHand, Occupants, HeldOf
  <2>3. ASSUME NEW w \in Workers, NEW b \in Attempts, RecordDialing(w, b) \/ RecordFailure(w, b)
        PROVE  r \in Occupants
    <3>1. b \in Held(w)
      BY <2>3 DEF RecordDialing, RecordFailure, Held
    <3>2. CASE r = b[1]
      BY <3>1, <3>2 DEF Occupants, HeldOf
    <3>3. CASE r # b[1]
      BY <2>1, <2>3, <3>3 DEF RecordDialing, RecordFailure, TypeOK
    <3> QED BY <3>2, <3>3
  <2>4. ASSUME NEW h \in Handlers, NEW l \in loaded[h], EventCommit(h, l)
        PROVE  r \in Occupants
    <3>1. PICK b \in Attempts : b = l.event.attempt
      BY EventAttempts
    <3>2. Token(b)
      BY <3>1, FlightIsToken DEF DispatchInv, InFlight
    <3>3. r # b[1] => recipientStatus'[r] = recipientStatus[r]
      BY <2>4, <3>1 DEF EventCommit, TypeOK
    <3> QED BY <2>1, <2>2, <3>2, <3>3
  <2>5. ASSUME NEW u \in Users, NEW q \in decided[u], UserWrite(u, q)
        PROVE  r \in Occupants
    BY <1>2, <2>1, <2>5 DEF UserWrite, ActiveStates
  <2>6. ASSUME NEW w \in Workers, NEW c \in Campaigns, DispatchFail(w, c)
        PROVE  r \in Occupants
    BY <1>2, <2>1, <2>6 DEF DispatchFail, ActiveStates
  <2> QED BY <2>1, <2>3, <2>4, <2>5, <2>6, RowSteps
<1> QED BY <1>1, <1>2 DEF Occupants

(* Only the count of the free slots gives a worker slots.                  *)
LEMMA SlotSteps ==
  ASSUME TypeOK, [Next]_vars
  PROVE  \/ \A w \in Workers : \A c \in Campaigns : slots'[w][c] \in {0, slots[w][c]}
         \/ \E w \in Workers, c \in Campaigns : DispatchRead(w, c)
<1>1. ASSUME NEW w \in Workers,
             \/ \E c \in Campaigns : DispatchQueue(w, c) \/ DispatchPause(w, c) \/ DispatchFail(w, c)
             \/ \E a \in Attempts : Originate(w, a) \/ RecordDialing(w, a) \/ RecordFailure(w, a)
             \/ WorkerCrash(w)
      PROVE  \A v \in Workers : \A c \in Campaigns : slots'[v][c] \in {0, slots[v][c]}
  <2>1. \/ slots' = slots \/ slots' = [slots EXCEPT ![w] = NoSlots]
        \/ \E c \in Campaigns : slots' = [slots EXCEPT ![w][c] = 0]
    BY <1>1 DEF DispatchQueue, DispatchPause, DispatchFail, Originate, RecordDialing,
                RecordFailure, WorkerCrash
  <2>2. CASE slots' = [slots EXCEPT ![w] = NoSlots]
    BY <2>2 DEF TypeOK, NoSlots
  <2>3. ASSUME NEW c \in Campaigns, slots' = [slots EXCEPT ![w][c] = 0]
        PROVE  \A v \in Workers : \A d \in Campaigns : slots'[v][d] \in {0, slots[v][d]}
    <3>1. slots \in [Workers -> [Campaigns -> Nat]]
      BY DEF TypeOK
    <3> QED BY <2>3, <3>1
  <2> QED BY <2>1, <2>2, <2>3
<1>2. ASSUME BeatStep \/ (\E r \in Recipients : RetryDue(r)) \/ UserStep
               \/ (\E h \in Handlers : HandlerStep(h) \/ HandlerCrash(h))
               \/ (\E a \in Attempts : ProviderStep(a)) \/ UNCHANGED vars
      PROVE  UNCHANGED slots
  <2>1. CASE BeatStep \/ (\E r \in Recipients : RetryDue(r)) \/ UNCHANGED vars
    BY <2>1 DEF BeatStep, BeatRead, BeatPromote, BeatEnqueue, RetryDue, vars, workerVars
  <2>2. CASE UserStep
    BY <2>2 DEF UserStep, UserRead, UserWrite, UserRefused, AddDnc, DeleteDnc, workerVars
  <2>3. ASSUME NEW h \in Handlers, HandlerStep(h) \/ HandlerCrash(h)
        PROVE  UNCHANGED slots
    BY <2>3 DEF HandlerStep, EventRead, EventCommit, EventConflict, EventSettle,
                EventComplete, HandlerCrash, workerVars
  <2>4. ASSUME NEW a \in Attempts, ProviderStep(a) PROVE UNCHANGED slots
    BY <2>4, ProviderParts DEF Report, workerVars
  <2> QED BY ONLY <1>2, <2>1, <2>2, <2>3, <2>4
<1> QED
  BY <1>1, <1>2 DEF Next, WorkerStep

(* The reservation.                                                        *)
LEMMA QueueOccupants ==
  ASSUME TypeOK, Ownership, NEW w \in Workers, NEW c \in Campaigns, DispatchQueue(w, c)
  PROVE  \E taken \in SUBSET RecipientsOf(c) :
           /\ Cardinality(taken) <= slots[w][c]
           /\ Occupants' \subseteq Occupants \union taken
           /\ HeldOf(w)' \subseteq taken
           /\ \A v \in Workers \ {w} : HeldOf(v)' = HeldOf(v)
           /\ \A d \in Campaigns : slots'[w][d] = 0
           /\ \A v \in Workers \ {w} : slots'[v] = slots[v]
<1>1. PICK scanned \in SUBSET Candidates(c), taken \in SUBSET Candidates(c) :
        /\ Scan(c, slots[w][c], scanned, taken)
        /\ recipientStatus' = [s \in Recipients |->
             IF s \in taken THEN "queued"
             ELSE IF s \in scanned \intersect Unresolved THEN "failed"
             ELSE recipientStatus[s]]
        /\ jobs' = [jobs EXCEPT ![w] = {NextAttempt(s) : s \in taken}]
  BY DEF DispatchQueue
<1>2. /\ UNCHANGED <<placed, failed>> /\ Held(w) = {}
      /\ slots' = [slots EXCEPT ![w][c] = 0]
      /\ \A d \in Campaigns \ {c} : slots[w][d] = 0
  BY DEF DispatchQueue, Ownership, SlotsFirst
<1>3. taken \in SUBSET RecipientsOf(c) /\ Cardinality(taken) <= slots[w][c]
  BY <1>1 DEF Candidates, Scan
<1>4. HeldOf(w)' \subseteq taken
  <2>1. Held(w)' = {NextAttempt(s) : s \in taken}
    BY <1>1, <1>2 DEF Held, TypeOK
  <2> QED BY <2>1 DEF HeldOf, NextAttempt
<1>5. \A v \in Workers \ {w} : HeldOf(v)' = HeldOf(v)
  BY <1>1, <1>2 DEF HeldOf, Held, TypeOK
<1>6. \A r \in Recipients : recipientStatus'[r] \in ActiveStates =>
        r \in taken \/ recipientStatus[r] \in ActiveStates
  BY <1>1 DEF ActiveStates
<1>7. Occupants' \subseteq Occupants \union taken
  BY <1>4, <1>5, <1>6 DEF Occupants
<1>8. (\A d \in Campaigns : slots'[w][d] = 0) /\ \A v \in Workers \ {w} : slots'[v] = slots[v]
  BY <1>2 DEF TypeOK
<1> QED BY <1>3, <1>4, <1>5, <1>7, <1>8

(* What the free slots leave room for.                                     *)
LEMMA FreeRoom ==
  ASSUME NEW c \in Campaigns, FreeSlots(c) > 0
  PROVE  /\ Cardinality(Active(Recipients)) + FreeSlots(c) <= CompanyCap
         /\ Cardinality(Active(RecipientsOf(c))) + FreeSlots(c) <= MaxConcurrency[c]
<1>1. Cardinality(Active(Recipients)) \in Nat /\ Cardinality(Active(RecipientsOf(c))) \in Nat
  <2>1. Active(Recipients) \subseteq Recipients /\ Active(RecipientsOf(c)) \subseteq Recipients
    BY DEF Active, RecipientsOf
  <2> QED BY <2>1, ConstantsAssumption, FS_Subset, FS_CardinalityType
<1>2. CompanyCap \in Nat /\ MaxConcurrency[c] \in Nat
  BY ConstantsAssumption
<1> DEFINE m == Cardinality(Active(RecipientsOf(c)))
           n == Cardinality(Active(Recipients))
<1>3. FreeSlots(c) = Least(FreeOf(MaxConcurrency[c], m), FreeOf(CompanyCap, n))
  BY DEF FreeSlots
<1>4. m \in Nat /\ n \in Nat
  BY <1>1
<1> HIDE DEF m, n
<1>5. n + FreeSlots(c) <= CompanyCap /\ m + FreeSlots(c) <= MaxConcurrency[c]
  BY <1>2, <1>3, <1>4 DEF Least, FreeOf
<1> QED BY <1>5 DEF m, n

(* Subsets and unions of sets of recipients.                               *)
LEMMA RecipientSets ==
  ASSUME NEW S \in SUBSET Recipients, NEW T \in SUBSET Recipients
  PROVE  /\ Cardinality(S) \in Nat /\ IsFiniteSet(S)
         /\ S \subseteq T => Cardinality(S) <= Cardinality(T)
         /\ Cardinality(S \union T) <= Cardinality(S) + Cardinality(T)
<1>1. IsFiniteSet(S) /\ IsFiniteSet(T)
  BY ConstantsAssumption, FS_Subset
<1>2. Cardinality(S) \in Nat /\ Cardinality(T) \in Nat
  BY <1>1, FS_CardinalityType
<1>3. S \subseteq T => Cardinality(S) <= Cardinality(T)
  BY <1>1, FS_Subset
<1>4. IsFiniteSet(S \intersect T)
  BY <1>1, FS_Subset
<1>5. Cardinality(S \intersect T) \in Nat
  BY <1>4, FS_CardinalityType
<1>6. Cardinality(S \union T) = Cardinality(S) + Cardinality(T) - Cardinality(S \intersect T)
  BY <1>1, FS_Union
<1> QED BY <1>1, <1>2, <1>3, <1>5, <1>6

(* With one worker busy at a time, the slots it has counted are still free.*)
SoleCounter == \A v, w \in Workers : \A c, d \in Campaigns :
  slots[v][c] > 0 /\ slots[w][d] > 0 => v = w
Within(c, n) ==
  /\ Cardinality(Occupants) + n <= CompanyCap
  /\ Cardinality(Occupants \intersect RecipientsOf(c)) + n <= MaxConcurrency[c]
Serial == Orderly /\ "parallel" \notin env.faults
CapRoom ==
  /\ SoleCounter
  /\ Cardinality(Occupants) <= CompanyCap
  /\ \A c \in Campaigns : Within(c, 0)
  /\ \A w \in Workers : \A c \in Campaigns : slots[w][c] > 0 => Within(c, slots[w][c])

LEMMA OccupantSets ==
  ASSUME NEW S \in SUBSET Recipients
  PROVE  /\ Cardinality(S) \in Nat
         /\ \A c \in Campaigns : Cardinality(S \intersect RecipientsOf(c)) \in Nat
         /\ CompanyCap \in Nat /\ \A c \in Campaigns : MaxConcurrency[c] \in Nat
<1>1. Cardinality(S) \in Nat
  BY RecipientSets
<1>2. ASSUME NEW c \in Campaigns PROVE Cardinality(S \intersect RecipientsOf(c)) \in Nat
  <2>1. S \intersect RecipientsOf(c) \in SUBSET Recipients
    OBVIOUS
  <2> QED BY <2>1, RecipientSets
<1> QED BY <1>1, <1>2, ConstantsAssumption

(* Fewer occupants and slots leave as much room.                           *)
LEMMA WithinShrinks ==
  ASSUME NEW c \in Campaigns, NEW n \in Nat, NEW m \in Nat, m <= n, Within(c, n),
         Occupants' \subseteq Occupants
  PROVE  Within(c, m)'
<1> DEFINE S == Occupants
           T == Occupants'
<1>1. S \in SUBSET Recipients /\ T \in SUBSET Recipients /\ T \subseteq S
  BY DEF Occupants
<1>2. Cardinality(S) + n <= CompanyCap /\ Cardinality(S \intersect RecipientsOf(c)) + n <= MaxConcurrency[c]
  BY DEF Within
<1> SUFFICES Cardinality(T) + m <= CompanyCap /\ Cardinality(T \intersect RecipientsOf(c)) + m <= MaxConcurrency[c]
  BY DEF Within, RecipientsOf
<1> HIDE DEF S, T
<1>3. Cardinality(T) <= Cardinality(S)
  BY <1>1, RecipientSets
<1>4. Cardinality(T \intersect RecipientsOf(c)) <= Cardinality(S \intersect RecipientsOf(c))
  <2>1. /\ T \intersect RecipientsOf(c) \in SUBSET Recipients
        /\ S \intersect RecipientsOf(c) \in SUBSET Recipients
        /\ T \intersect RecipientsOf(c) \subseteq S \intersect RecipientsOf(c)
    BY <1>1
  <2> QED BY <2>1, RecipientSets
<1>5. /\ Cardinality(S) \in Nat /\ Cardinality(T) \in Nat
      /\ Cardinality(S \intersect RecipientsOf(c)) \in Nat
      /\ Cardinality(T \intersect RecipientsOf(c)) \in Nat
      /\ CompanyCap \in Nat /\ MaxConcurrency[c] \in Nat
  BY <1>1, OccupantSets
<1> QED BY <1>2, <1>3, <1>4, <1>5

(* Who is added takes the place of the slots.                              *)
LEMMA WithinTaken ==
  ASSUME NEW c \in Campaigns, NEW n \in Nat, Within(c, n), NEW taken \in SUBSET RecipientsOf(c),
         Cardinality(taken) <= n, Occupants' \subseteq Occupants \union taken
  PROVE  Within(c, 0)'
<1> DEFINE S == Occupants
           T == Occupants'
           K == RecipientsOf(c)
<1>1. /\ S \in SUBSET Recipients /\ T \in SUBSET Recipients /\ taken \in SUBSET Recipients
      /\ T \subseteq S \union taken
      /\ S \intersect K \in SUBSET Recipients /\ T \intersect K \in SUBSET Recipients
      /\ T \intersect K \subseteq (S \intersect K) \union taken
      /\ S \union taken \in SUBSET Recipients /\ (S \intersect K) \union taken \in SUBSET Recipients
  BY DEF Occupants, RecipientsOf
<1>2. Cardinality(S) + n <= CompanyCap /\ Cardinality(S \intersect K) + n <= MaxConcurrency[c]
  BY DEF Within
<1> SUFFICES Cardinality(T) + 0 <= CompanyCap /\ Cardinality(T \intersect K) + 0 <= MaxConcurrency[c]
  BY DEF Within, RecipientsOf
<1>3. /\ CompanyCap \in Nat /\ MaxConcurrency[c] \in Nat
      /\ Cardinality(S) \in Nat /\ Cardinality(T) \in Nat /\ Cardinality(taken) \in Nat
      /\ Cardinality(S \intersect K) \in Nat /\ Cardinality(T \intersect K) \in Nat
      /\ Cardinality(S \union taken) \in Nat /\ Cardinality((S \intersect K) \union taken) \in Nat
  BY <1>1, RecipientSets, ConstantsAssumption
<1> HIDE DEF S, T, K
<1>4. /\ Cardinality(T) <= Cardinality(S \union taken)
      /\ Cardinality(S \union taken) <= Cardinality(S) + Cardinality(taken)
  BY <1>1, RecipientSets
<1>5. /\ Cardinality(T \intersect K) <= Cardinality((S \intersect K) \union taken)
      /\ Cardinality((S \intersect K) \union taken) <= Cardinality(S \intersect K) + Cardinality(taken)
  BY <1>1, RecipientSets
<1> QED BY <1>2, <1>3, <1>4, <1>5

(* While slots are counted, nobody has been taken yet.                     *)
LEMMA RoomRead ==
  ASSUME TypeOK, CapRoom, "parallel" \notin env.faults,
         NEW w \in Workers, NEW c \in Campaigns, DispatchRead(w, c)
  PROVE  CapRoom'
<1>1. /\ \A v \in Workers : slots[v] = NoSlots /\ Held(v) = {}
      /\ slots' = [slots EXCEPT ![w][c] =
                     IF campaignStatus[c] = "running" THEN FreeSlots(c) ELSE 0]
      /\ UNCHANGED <<recipientStatus, jobs, placed, failed>>
  BY DEF DispatchRead, IdleWorker, Held, database
<1>2. Occupants' = Occupants /\ Occupants = Active(Recipients)
  BY <1>1 DEF Occupants, HeldOf, Held, Active
<1>3. \A d \in Campaigns : Within(d, 0)' <=> Within(d, 0)
  BY <1>2 DEF Within, RecipientsOf
<1>4. /\ \A v \in Workers : \A d \in Campaigns : slots'[v][d] > 0 => v = w /\ d = c
      /\ slots'[w][c] > 0 => slots'[w][c] = FreeSlots(c)
  BY <1>1 DEF TypeOK, NoSlots
<1>5. ASSUME slots'[w][c] > 0 PROVE Within(c, slots[w][c])'
  <2>1. slots'[w][c] = FreeSlots(c) /\ FreeSlots(c) > 0
    BY <1>4, <1>5
  <2>2. Occupants \intersect RecipientsOf(c) = Active(RecipientsOf(c))
    BY <1>2 DEF Active, RecipientsOf
  <2>3. RecipientsOf(c)' = RecipientsOf(c)
    BY DEF RecipientsOf
  <2> QED BY <1>2, <2>1, <2>2, <2>3, FreeRoom DEF Within
<1>6. SoleCounter'
  BY <1>4 DEF SoleCounter
<1>7. (Cardinality(Occupants) <= CompanyCap)'
  BY <1>2 DEF CapRoom
<1>8. \A v \in Workers : \A d \in Campaigns : slots'[v][d] > 0 => Within(d, slots[v][d])'
  BY <1>4, <1>5
<1> QED BY <1>3, <1>6, <1>7, <1>8 DEF CapRoom

LEMMA RoomQueue ==
  ASSUME TypeOK, Ownership, CapRoom, NEW w \in Workers, NEW c \in Campaigns, DispatchQueue(w, c)
  PROVE  CapRoom'
<1>1. PICK taken \in SUBSET RecipientsOf(c) :
        /\ Cardinality(taken) <= slots[w][c]
        /\ Occupants' \subseteq Occupants \union taken
        /\ \A d \in Campaigns : slots'[w][d] = 0
        /\ \A v \in Workers \ {w} : slots'[v] = slots[v]
  BY QueueOccupants
<1>2. slots[w][c] > 0 /\ slots[w][c] \in Nat /\ Within(c, slots[w][c])
  BY DEF DispatchQueue, TypeOK, CapRoom
<1>3. Within(c, 0)'
  BY <1>1, <1>2, WithinTaken
<1>4. \A v \in Workers : \A d \in Campaigns : ~(slots'[v][d] > 0)
  BY <1>1, <1>2 DEF CapRoom, SoleCounter
<1>5. ASSUME NEW d \in Campaigns, d # c PROVE Within(d, 0)'
  <2>1. Occupants' \intersect RecipientsOf(d) \subseteq Occupants \intersect RecipientsOf(d)
    BY <1>1, <1>5 DEF RecipientsOf
  <2>2. Cardinality(Occupants') <= CompanyCap
    <3>1. Cardinality(Occupants') + 0 <= CompanyCap
      BY <1>3 DEF Within
    <3>2. Occupants' \in SUBSET Recipients
      BY DEF Occupants
    <3> QED BY <3>1, <3>2, OccupantSets
  <2>3. Cardinality(Occupants \intersect RecipientsOf(d)) + 0 <= MaxConcurrency[d]
    BY DEF CapRoom, Within
  <2> DEFINE S == Occupants \intersect RecipientsOf(d)
             T == Occupants' \intersect RecipientsOf(d)
  <2>4. S \in SUBSET Recipients /\ T \in SUBSET Recipients /\ T \subseteq S
    BY <2>1 DEF RecipientsOf
  <2>5. Cardinality(T) <= Cardinality(S) /\ Cardinality(S) \in Nat /\ Cardinality(T) \in Nat
    BY <2>4, RecipientSets
  <2>6. MaxConcurrency[d] \in Nat /\ CompanyCap \in Nat
    BY ConstantsAssumption
  <2>7. Cardinality(S) + 0 <= MaxConcurrency[d]
    BY <2>3
  <2>8. Cardinality(Occupants') \in Nat
    <3>1. Occupants' \in SUBSET Recipients
      BY DEF Occupants
    <3> QED BY <3>1, OccupantSets
  <2> HIDE DEF S, T
  <2>9. Cardinality(Occupants') + 0 <= CompanyCap /\ Cardinality(T) + 0 <= MaxConcurrency[d]
    BY <2>2, <2>5, <2>6, <2>7, <2>8
  <2> QED BY <2>9 DEF Within, T, RecipientsOf
<1>6. (Cardinality(Occupants) <= CompanyCap)'
  <2>1. Cardinality(Occupants') + 0 <= CompanyCap
    BY <1>3 DEF Within
  <2>2. Occupants' \in SUBSET Recipients
    BY DEF Occupants
  <2> QED BY <2>1, <2>2, OccupantSets
<1>7. SoleCounter'
  BY <1>4 DEF SoleCounter
<1>8. \A d \in Campaigns : Within(d, 0)'
  BY <1>3, <1>5
<1> QED BY <1>4, <1>6, <1>7, <1>8 DEF CapRoom

LEMMA RoomStep ==
  ASSUME DispatchInv, Serial, CapRoom, [Next]_vars
  PROVE  CapRoom'
<1> TypeOK /\ Ownership
  BY DEF DispatchInv
<1>1. ASSUME Occupants' \subseteq Occupants,
             \A w \in Workers : \A c \in Campaigns : slots'[w][c] \in {0, slots[w][c]}
      PROVE  CapRoom'
  <2>1. SoleCounter'
    BY <1>1 DEF CapRoom, SoleCounter
  <2>2. \A c \in Campaigns : Within(c, 0)'
    BY <1>1, WithinShrinks DEF CapRoom
  <2>3. ASSUME NEW w \in Workers, NEW c \in Campaigns, slots'[w][c] > 0
        PROVE  Within(c, slots[w][c])'
    <3>1. slots'[w][c] = slots[w][c] /\ slots[w][c] \in Nat
      BY <1>1, <2>3 DEF TypeOK
    <3>2. PICK n \in Nat : n = slots[w][c] /\ n = slots'[w][c]
      BY <3>1
    <3>3. Within(c, n)
      BY <2>3, <3>2 DEF CapRoom
    <3>4. Within(c, n)'
      BY <1>1, <3>3, WithinShrinks
    <3> QED BY <3>2, <3>4 DEF Within
  <2>4. (Cardinality(Occupants) <= CompanyCap)'
    <3>1. Occupants \in SUBSET Recipients /\ Occupants' \in SUBSET Recipients
      BY DEF Occupants
    <3>2. Cardinality(Occupants') <= Cardinality(Occupants)
      BY <1>1, <3>1, RecipientSets
    <3>3. Cardinality(Occupants') \in Nat /\ Cardinality(Occupants) \in Nat /\ CompanyCap \in Nat
      BY <3>1, OccupantSets
    <3> QED BY <3>2, <3>3 DEF CapRoom
  <2> QED BY <2>1, <2>2, <2>3, <2>4 DEF CapRoom
<1> QED BY <1>1, RoomRead, RoomQueue, OccupantSteps, SlotSteps DEF Serial

(* One dispatch task at a time keeps the caps of every campaign and of the *)
(* company (_dispatch_campaign).                                           *)
THEOREM CapsSerialHolds == Spec => []CapsSerial
<1>1. Init => CapRoom
  <2> SUFFICES ASSUME Init PROVE CapRoom
    OBVIOUS
  <2>1. Occupants = {} /\ \A w \in Workers : \A c \in Campaigns : ~(slots[w][c] > 0)
    BY DEF Init, Occupants, HeldOf, Held, ActiveStates, NoSlots
  <2>2. \A c \in Campaigns : Occupants \intersect RecipientsOf(c) = {}
    BY <2>1
  <2> QED
    BY <2>1, <2>2, FS_EmptySet, ConstantsAssumption DEF CapRoom, SoleCounter, Within
<1>2. DispatchInv /\ (Serial => CapRoom) /\ [Next]_vars => (Serial => CapRoom)'
  <2>1. [Next]_vars /\ Serial' => Serial
    BY EnvRigid DEF Serial, Orderly
  <2> QED BY <2>1, RoomStep
<1>3. (Serial => CapRoom) => CapsSerial
  <2> SUFFICES ASSUME CapRoom PROVE CapsRespected
    BY DEF CapsSerial, Serial
  <2>1. /\ Active(Recipients) \subseteq Occupants /\ Occupants \in SUBSET Recipients
        /\ \A c \in Campaigns : Active(RecipientsOf(c)) \subseteq Occupants \intersect RecipientsOf(c)
    BY DEF Active, Occupants, RecipientsOf
  <2>2. Cardinality(Active(Recipients)) <= CompanyCap
    <3>1. Active(Recipients) \in SUBSET Recipients
      BY DEF Active
    <3>2. Cardinality(Active(Recipients)) <= Cardinality(Occupants)
      BY <2>1, <3>1, RecipientSets
    <3>3. Cardinality(Active(Recipients)) \in Nat /\ Cardinality(Occupants) \in Nat /\ CompanyCap \in Nat
      BY <2>1, <3>1, OccupantSets
    <3> QED BY <3>2, <3>3 DEF CapRoom
  <2>3. ASSUME NEW c \in Campaigns PROVE Cardinality(Active(RecipientsOf(c))) <= MaxConcurrency[c]
    <3> DEFINE S == Occupants \intersect RecipientsOf(c)
               T == Active(RecipientsOf(c))
    <3>1. S \in SUBSET Recipients /\ T \in SUBSET Recipients /\ T \subseteq S
      BY <2>1 DEF Active, RecipientsOf
    <3>2. Cardinality(T) <= Cardinality(S) /\ Cardinality(S) \in Nat /\ Cardinality(T) \in Nat
      BY <3>1, RecipientSets
    <3>3. Cardinality(S) + 0 <= MaxConcurrency[c] /\ MaxConcurrency[c] \in Nat
      BY ConstantsAssumption DEF CapRoom, Within
    <3> HIDE DEF S
    <3>4. Cardinality(T) <= MaxConcurrency[c]
      <4> HIDE DEF T
      <4> QED BY <3>2, <3>3
    <3> QED BY <3>4
  <2> QED BY <2>2, <2>3 DEF CapsRespected
<1> QED BY <1>1, <1>2, <1>3, DispatchInvariant, PTL DEF Spec

-----------------------------------------------------------------------------
(* Several dispatch tasks at once.  Each occupant can be charged to one    *)
(* worker, so that no worker is charged with more than a company's cap,    *)
(* the slots it has counted included: when a worker counts, whoever is     *)
(* active and in nobody's hands is charged to it, and whoever another      *)
(* worker holds to that one.                                               *)

(* What is spread over finitely many places, at most n on each.            *)
LEMMA Spread ==
  ASSUME NEW W, IsFiniteSet(W), NEW E, IsFiniteSet(E), NEW f \in [E -> W], NEW n \in Nat,
         \A w \in W : Cardinality({x \in E : f[x] = w}) <= n
  PROVE  Cardinality(E) <= Cardinality(W) * n
<1> DEFINE Fiber(w) == {x \in E : f[x] = w}
           Places(w) == Injection(Fiber(w), 1..n)
           place == [w \in W |-> CHOOSE g : g \in Places(w)]
<1>1. ASSUME NEW w \in W PROVE place[w] \in Places(w)
  <2>1. IsFiniteSet(Fiber(w)) /\ Cardinality(Fiber(w)) <= n
    BY FS_Subset
  <2> DEFINE k == Cardinality(Fiber(w))
             F == Fiber(w)
  <2>2. k \in Nat /\ ExistsBijection(1..k, F)
    BY <2>1, FS_CardinalityType
  <2>3. PICK b : b \in Bijection(1..k, F)
    BY <2>2 DEF ExistsBijection
  <2>4. Inverse(b, 1..k, F) \in Bijection(F, 1..k)
    BY <2>3, Fun_BijInverse
  <2>5. k <= n
    BY <2>1
  <2> HIDE DEF k, F
  <2>6. 1..k \subseteq 1..n
    BY <2>2, <2>5
  <2>7. \E g : g \in Injection(F, 1..n)
    BY <2>4, <2>6 DEF Bijection, Injection
  <2>8. \E g : g \in Places(w)
    BY <2>7 DEF F
  <2> QED BY <2>8
<1> DEFINE T == W \X (1..n)
           seat == [x \in E |-> <<f[x], place[f[x]][x]>>]
<1>2. \A x \in E : place[f[x]] \in [Fiber(f[x]) -> 1..n] /\ x \in Fiber(f[x])
  BY <1>1 DEF Injection
<1>3. seat \in [E -> T]
  BY <1>2
<1>4. ASSUME NEW x \in E, NEW y \in E, seat[x] = seat[y] PROVE x = y
  <2>1. seat[x] = <<f[x], place[f[x]][x]>> /\ seat[y] = <<f[y], place[f[y]][y]>>
    OBVIOUS
  <2> HIDE DEF seat, place
  <2>2. f[x] = f[y] /\ place[f[x]][x] = place[f[x]][y]
    <3> DEFINE p == place[f[x]][x]
               q == place[f[y]][y]
    <3>1. <<f[x], p>> = <<f[y], q>>
      BY <1>4, <2>1
    <3>2. f[x] = f[y] /\ p = q
      <4> HIDE DEF p, q
      <4> QED BY <3>1
    <3> QED BY <3>2
  <2> DEFINE F == Fiber(f[x])
             p == place[f[x]]
  <2>3. p \in Injection(F, 1..n) /\ x \in F /\ y \in F
    BY <1>1, <2>2
  <2>4. p[x] = p[y]
    BY <2>2
  <2> HIDE DEF F, p
  <2> QED BY <2>3, <2>4, Fun_InjectionProperties
<1>5. IsFiniteSet(1..n) /\ Cardinality(1..n) = n
  BY FS_Interval
<1>6. IsFiniteSet(T) /\ Cardinality(T) = Cardinality(W) * n
  BY <1>5, FS_Product
<1>7. seat \in Injection(E, T)
  <2> HIDE DEF seat, T
  <2> QED BY <1>3, <1>4, Fun_IsInj
<1> HIDE DEF seat, T
<1>8. Cardinality(E) <= Cardinality(T)
  BY <1>6, <1>7, FS_Injection
<1> QED BY <1>6, <1>8

Charge(f, w) == {r \in Occupants : f[r] = w}
Charged(f) ==
  /\ f \in [Occupants -> Workers]
  /\ \A w \in Workers :
       /\ Cardinality(Charge(f, w)) <= CompanyCap
       /\ \A c \in Campaigns : Cardinality(Charge(f, w)) + slots[w][c] <= CompanyCap
OwnShare == \A w \in Workers :
  /\ Cardinality(HeldOf(w)) <= CompanyCap
  /\ \A c \in Campaigns : slots[w][c] <= CompanyCap
Shared == OwnShare /\ \E f : Charged(f)

LEMMA SharedRead ==
  ASSUME TypeOK, Ownership, Shared, NEW w \in Workers, NEW c \in Campaigns, DispatchRead(w, c)
  PROVE  Shared'
<1>1. /\ slots[w] = NoSlots /\ Held(w) = {}
      /\ slots' = [slots EXCEPT ![w][c] =
                     IF campaignStatus[c] = "running" THEN FreeSlots(c) ELSE 0]
      /\ UNCHANGED <<recipientStatus, jobs, placed, failed>>
  BY DEF DispatchRead, IdleWorker, Held, database
<1>2. Occupants' = Occupants /\ \A v \in Workers : HeldOf(v)' = HeldOf(v)
  BY <1>1 DEF Occupants, HeldOf, Held
<1>3. /\ \A v \in Workers : \A d \in Campaigns : v # w \/ d # c => slots'[v][d] = slots[v][d]
      /\ slots'[w][c] \in {0, FreeSlots(c)} /\ \A d \in Campaigns : slots[w][d] = 0
  BY <1>1 DEF TypeOK, NoSlots
<1>4. CompanyCap \in Nat /\ \A v \in Workers : HeldOf(v) \in SUBSET Recipients
  BY ConstantsAssumption DEF HeldOf
<1>5. CASE slots'[w][c] = 0
  <2>1. \A v \in Workers : \A d \in Campaigns : slots'[v][d] = slots[v][d]
    BY <1>3, <1>5
  <2>2. PICK f : Charged(f)
    BY DEF Shared
  <2>3. \A v \in Workers : Charge(f, v)' = Charge(f, v)
    BY <1>2 DEF Charge
  <2>4. Charged(f)'
    BY <1>2, <2>1, <2>2, <2>3 DEF Charged
  <2>5. OwnShare'
    BY <1>2, <2>1 DEF Shared, OwnShare
  <2> QED BY <2>4, <2>5 DEF Shared
<1>6. CASE slots'[w][c] # 0
  <2> DEFINE n == FreeSlots(c)
             A == Active(Recipients)
  <2>1. n \in Nat /\ n > 0 /\ slots'[w][c] = n /\ Cardinality(A) + n <= CompanyCap
    BY <1>3, <1>6, FreeSlotsType, FreeRoom
  <2>2. A \in SUBSET Recipients /\ Cardinality(A) \in Nat
    BY RecipientSets DEF Active
  <2> DEFINE InHands(r) == \E v \in Workers : r \in HeldOf(v)
             assigned == [r \in Occupants |-> IF InHands(r) THEN CHOOSE v \in Workers : r \in HeldOf(v)
                                              ELSE w]
  <2>3. /\ assigned \in [Occupants -> Workers]
        /\ \A r \in Occupants : r \in HeldOf(assigned[r]) \/ (r \in A /\ assigned[r] = w)
    BY DEF Occupants, Active
  <2> HIDE DEF assigned, n, A
  <2>4. PICK g \in [Occupants -> Workers] :
          \A r \in Occupants : r \in HeldOf(g[r]) \/ (r \in A /\ g[r] = w)
    BY <2>3
  <2>5. Charge(g, w) \subseteq A
    BY <1>1, <2>4 DEF Charge, HeldOf
  <2>6. \A v \in Workers \ {w} : Charge(g, v) \subseteq HeldOf(v)
    BY <2>4 DEF Charge
  <2>7. \A v \in Workers : Charge(g, v) \in SUBSET Recipients /\ Cardinality(Charge(g, v)) \in Nat
    <3>1. \A v \in Workers : Charge(g, v) \in SUBSET Recipients
      BY DEF Charge, Occupants
    <3> QED BY <3>1, RecipientSets
  <2>8. Cardinality(Charge(g, w)) <= Cardinality(A)
    BY <2>2, <2>5, <2>7, RecipientSets
  <2>9. /\ Cardinality(Charge(g, w)) <= CompanyCap
        /\ \A d \in Campaigns : Cardinality(Charge(g, w)) + slots'[w][d] <= CompanyCap
    <3>1. \A d \in Campaigns : slots'[w][d] \in {0, n}
      BY <1>3, <2>1
    <3>2. Cardinality(Charge(g, w)) \in Nat
      BY <2>7
    <3> QED BY <1>4, <2>1, <2>2, <2>8, <3>1, <3>2
  <2>10. ASSUME NEW v \in Workers \ {w}
         PROVE  /\ Cardinality(Charge(g, v)) <= CompanyCap
                /\ \A d \in Campaigns : Cardinality(Charge(g, v)) + slots'[v][d] <= CompanyCap
    <3>1. Cardinality(Charge(g, v)) <= Cardinality(HeldOf(v)) /\ Cardinality(HeldOf(v)) <= CompanyCap
      BY <1>4, <2>6, <2>7, RecipientSets DEF Shared, OwnShare
    <3>2. Cardinality(Charge(g, v)) \in Nat /\ Cardinality(HeldOf(v)) \in Nat
      BY <1>4, <2>7, RecipientSets
    <3>3. Cardinality(Charge(g, v)) <= CompanyCap
      BY <1>4, <3>1, <3>2
    <3>4. ASSUME NEW d \in Campaigns PROVE Cardinality(Charge(g, v)) + slots'[v][d] <= CompanyCap
      <4>1. slots'[v][d] = slots[v][d] /\ slots[v][d] \in Nat /\ slots[v][d] <= CompanyCap
        BY <1>3 DEF TypeOK, Shared, OwnShare
      <4>2. CASE slots[v][d] > 0
        <5>1. Held(v) = {}
          BY <4>2 DEF Ownership, SlotsFirst
        <5>2. Charge(g, v) = {}
          BY <2>6, <5>1 DEF HeldOf
        <5> QED BY <4>1, <5>2, FS_EmptySet
      <4>3. CASE slots[v][d] = 0
        BY <1>4, <3>2, <3>3, <4>1, <4>3
      <4> QED BY <4>1, <4>2, <4>3
    <3> QED BY <3>3, <3>4
  <2>11. Charged(g)'
    <3>1. \A v \in Workers : Charge(g, v)' = Charge(g, v)
      BY <1>2 DEF Charge
    <3> QED BY <1>2, <2>4, <2>9, <2>10, <3>1 DEF Charged
  <2>12. OwnShare'
    <3>1. n <= CompanyCap
      BY <1>4, <2>1, <2>2
    <3> QED BY <1>2, <1>3, <2>1, <3>1 DEF Shared, OwnShare
  <2> QED BY <2>11, <2>12 DEF Shared
<1> QED BY <1>5, <1>6

LEMMA SharedQueue ==
  ASSUME TypeOK, Ownership, Shared, NEW w \in Workers, NEW c \in Campaigns, DispatchQueue(w, c)
  PROVE  Shared'
<1>1. PICK taken \in SUBSET RecipientsOf(c) :
        /\ Cardinality(taken) <= slots[w][c]
        /\ Occupants' \subseteq Occupants \union taken
        /\ HeldOf(w)' \subseteq taken
        /\ \A v \in Workers \ {w} : HeldOf(v)' = HeldOf(v)
        /\ \A d \in Campaigns : slots'[w][d] = 0
        /\ \A v \in Workers \ {w} : slots'[v] = slots[v]
  BY QueueOccupants
<1>2. PICK f : Charged(f)
  BY DEF Shared
<1> DEFINE extended == [r \in Occupants' |-> IF r \in Occupants THEN f[r] ELSE w]
<1>3. /\ extended \in [Occupants' -> Workers]
      /\ \A r \in Occupants' : IF r \in Occupants THEN extended[r] = f[r] ELSE extended[r] = w
  BY <1>2 DEF Charged
<1> HIDE DEF extended
<1>4. PICK g \in [Occupants' -> Workers] :
        \A r \in Occupants' : IF r \in Occupants THEN g[r] = f[r] ELSE g[r] = w
  BY <1>3
<1>5. /\ taken \in SUBSET Recipients
      /\ \A v \in Workers : Charge(f, v) \in SUBSET Recipients /\ Charge(g, v)' \in SUBSET Recipients
      /\ \A v \in Workers : HeldOf(v)' \in SUBSET Recipients
  BY DEF RecipientsOf, Charge, Occupants, HeldOf
<1>6. /\ CompanyCap \in Nat /\ Cardinality(taken) \in Nat
      /\ \A v \in Workers : Cardinality(Charge(f, v)) \in Nat /\ Cardinality(Charge(g, v)') \in Nat
      /\ \A v \in Workers : Cardinality(HeldOf(v)') \in Nat
  BY <1>5, RecipientSets, ConstantsAssumption
<1>7. slots[w][c] \in Nat /\ slots[w][c] <= CompanyCap
      /\ Cardinality(Charge(f, w)) + slots[w][c] <= CompanyCap
  BY <1>2 DEF TypeOK, Shared, OwnShare, Charged
<1>8. /\ Cardinality(Charge(g, w)') <= CompanyCap
      /\ \A d \in Campaigns : Cardinality(Charge(g, w)') + slots'[w][d] <= CompanyCap
  <2>1. Charge(g, w)' \subseteq Charge(f, w) \union taken
    BY <1>1, <1>4 DEF Charge
  <2> DEFINE S == Charge(f, w)
             T == Charge(g, w)'
             U == S \union taken
  <2>2. S \in SUBSET Recipients /\ T \in SUBSET Recipients /\ T \subseteq U /\ U \in SUBSET Recipients
    BY <1>5, <2>1
  <2>3. Cardinality(U) <= Cardinality(S) + Cardinality(taken) /\ Cardinality(U) \in Nat
    BY <1>5, <2>2, RecipientSets
  <2>4. Cardinality(T) <= Cardinality(U)
    BY <2>2, RecipientSets
  <2>5. Cardinality(S) \in Nat /\ Cardinality(T) \in Nat /\ Cardinality(S) + slots[w][c] <= CompanyCap
    BY <1>6, <1>7
  <2> HIDE DEF S, T, U
  <2>6. Cardinality(T) <= CompanyCap
    BY <1>1, <1>6, <1>7, <2>3, <2>4, <2>5
  <2> QED BY <1>1, <1>6, <2>5, <2>6 DEF T
<1>9. ASSUME NEW v \in Workers \ {w}
      PROVE  /\ Cardinality(Charge(g, v)') <= CompanyCap
             /\ \A d \in Campaigns : Cardinality(Charge(g, v)') + slots'[v][d] <= CompanyCap
  <2>1. Charge(g, v)' \subseteq Charge(f, v)
    BY <1>4 DEF Charge
  <2>2. Cardinality(Charge(g, v)') <= Cardinality(Charge(f, v))
    BY <1>5, <2>1, RecipientSets
  <2>3. /\ Cardinality(Charge(f, v)) <= CompanyCap
        /\ \A d \in Campaigns : /\ slots[v][d] \in Nat
                                /\ Cardinality(Charge(f, v)) + slots[v][d] <= CompanyCap
    BY <1>2 DEF Charged, TypeOK
  <2> QED BY <1>1, <1>6, <2>2, <2>3
<1>10. Charged(g)'
  BY <1>4, <1>8, <1>9 DEF Charged
<1>11. OwnShare'
  <2>1. Cardinality(HeldOf(w)') <= CompanyCap
    <3>1. Cardinality(HeldOf(w)') <= Cardinality(taken)
      BY <1>1, <1>5, RecipientSets
    <3> QED BY <1>1, <1>6, <1>7, <3>1
  <2> QED BY <1>1, <1>6, <2>1 DEF Shared, OwnShare
<1> QED BY <1>10, <1>11 DEF Shared

LEMMA SharedStep ==
  ASSUME DispatchInv, Orderly, Shared, [Next]_vars
  PROVE  Shared'
<1> TypeOK /\ Ownership
  BY DEF DispatchInv
<1>1. ASSUME Occupants' \subseteq Occupants, \A w \in Workers : HeldOf(w)' \subseteq HeldOf(w),
             \A w \in Workers : \A c \in Campaigns : slots'[w][c] \in {0, slots[w][c]}
      PROVE  Shared'
  <2>1. PICK f : Charged(f)
    BY DEF Shared
  <2> DEFINE kept == [r \in Occupants' |-> f[r]]
  <2>2. kept \in [Occupants' -> Workers] /\ \A r \in Occupants' : kept[r] = f[r]
    BY <1>1, <2>1 DEF Charged
  <2> HIDE DEF kept
  <2>3. PICK g \in [Occupants' -> Workers] : \A r \in Occupants' : g[r] = f[r]
    BY <2>2
  <2>4. \A w \in Workers : /\ Charge(g, w)' \subseteq Charge(f, w)
                           /\ Charge(f, w) \in SUBSET Recipients /\ Charge(g, w)' \in SUBSET Recipients
                           /\ HeldOf(w) \in SUBSET Recipients /\ HeldOf(w)' \in SUBSET Recipients
    BY <1>1, <2>3 DEF Charge, Occupants, HeldOf
  <2>5. \A w \in Workers : /\ Cardinality(Charge(g, w)') <= Cardinality(Charge(f, w))
                           /\ Cardinality(HeldOf(w)') <= Cardinality(HeldOf(w))
    BY <1>1, <2>4, RecipientSets
  <2>6. /\ CompanyCap \in Nat
        /\ \A w \in Workers : /\ Cardinality(Charge(f, w)) \in Nat
                              /\ Cardinality(Charge(g, w)') \in Nat
                              /\ Cardinality(HeldOf(w)) \in Nat /\ Cardinality(HeldOf(w)') \in Nat
                              /\ \A c \in Campaigns : slots[w][c] \in Nat
    BY <2>4, RecipientSets, ConstantsAssumption DEF TypeOK
  <2>7. Charged(g)'
    <3>1. ASSUME NEW w \in Workers
          PROVE  /\ Cardinality(Charge(g, w)') <= CompanyCap
                 /\ \A c \in Campaigns : Cardinality(Charge(g, w)') + slots'[w][c] <= CompanyCap
      <4>1. /\ Cardinality(Charge(f, w)) <= CompanyCap
            /\ \A c \in Campaigns : Cardinality(Charge(f, w)) + slots[w][c] <= CompanyCap
        BY <2>1 DEF Charged
      <4> QED BY <1>1, <2>5, <2>6, <4>1
    <3> QED BY <2>3, <3>1 DEF Charged
  <2>8. OwnShare'
    <3>1. ASSUME NEW w \in Workers
          PROVE  /\ Cardinality(HeldOf(w)') <= CompanyCap
                 /\ \A c \in Campaigns : slots'[w][c] <= CompanyCap
      <4>1. /\ Cardinality(HeldOf(w)) <= CompanyCap
            /\ \A c \in Campaigns : slots[w][c] <= CompanyCap
        BY DEF Shared, OwnShare
      <4> QED BY <1>1, <2>5, <2>6, <4>1
    <3> QED BY <3>1 DEF OwnShare
  <2> QED BY <2>7, <2>8 DEF Shared
<1> QED BY <1>1, SharedRead, SharedQueue, OccupantSteps, SlotSteps

(* Dispatch tasks that overlap overrun the company's cap by no more than   *)
(* one full set of slots for each worker (_dispatch_campaign).             *)
THEOREM OverrunBoundedHolds == Spec => []OverrunBounded
<1>1. Init => Shared
  <2> SUFFICES ASSUME Init PROVE Shared
    OBVIOUS
  <2>1. /\ Occupants = {} /\ \A w \in Workers : HeldOf(w) = {}
        /\ \A w \in Workers : \A c \in Campaigns : slots[w][c] = 0
    BY DEF Init, Occupants, HeldOf, Held, ActiveStates, NoSlots
  <2>2. CompanyCap \in Nat /\ Cardinality({}) = 0
    BY ConstantsAssumption, FS_EmptySet
  <2>3. PICK f : f \in [Occupants -> Workers]
    <3> DEFINE nobody == [r \in Occupants |-> CHOOSE w \in Workers : TRUE]
    <3>1. nobody \in [Occupants -> Workers]
      BY <2>1
    <3> HIDE DEF nobody
    <3> QED BY <3>1
  <2>4. \A w \in Workers : Charge(f, w) = {}
    BY <2>1 DEF Charge
  <2>5. OwnShare
    BY <2>1, <2>2 DEF OwnShare
  <2>6. Charged(f)
    BY <2>1, <2>2, <2>3, <2>4 DEF Charged
  <2> QED BY <2>5, <2>6 DEF Shared
<1>2. DispatchInv /\ (Orderly => Shared) /\ [Next]_vars => (Orderly => Shared)'
  <2>1. [Next]_vars /\ Orderly' => Orderly
    BY EnvRigid DEF Orderly
  <2> QED BY <2>1, SharedStep
<1>3. (Orderly => Shared) => OverrunBounded
  <2> SUFFICES ASSUME Shared
               PROVE  Cardinality(Active(Recipients)) <= Cardinality(Workers) * CompanyCap
    BY DEF OverrunBounded
  <2>1. PICK f : Charged(f)
    BY DEF Shared
  <2> DEFINE E == Occupants
             A == Active(Recipients)
  <2>2. E \in SUBSET Recipients /\ A \in SUBSET Recipients /\ A \subseteq E
    BY DEF Occupants, Active
  <2>3. /\ IsFiniteSet(E) /\ Cardinality(E) \in Nat /\ Cardinality(A) \in Nat
        /\ Cardinality(A) <= Cardinality(E)
    BY <2>2, RecipientSets
  <2>4. f \in [E -> Workers] /\ \A w \in Workers : Cardinality({r \in E : f[r] = w}) <= CompanyCap
    BY <2>1 DEF Charged, Charge
  <2>5. /\ IsFiniteSet(Workers) /\ CompanyCap \in Nat /\ Cardinality(Workers) \in Nat
    BY ConstantsAssumption, FS_CardinalityType
  <2> HIDE DEF E, A
  <2>6. Cardinality(E) <= Cardinality(Workers) * CompanyCap
    BY <2>3, <2>4, <2>5, Spread
  <2>7. Cardinality(Workers) * CompanyCap \in Nat
    BY <2>5
  <2>8. Cardinality(A) <= Cardinality(Workers) * CompanyCap
    BY <2>3, <2>6, <2>7
  <2> QED BY <2>8 DEF A
<1> QED BY <1>1, <1>2, <1>3, DispatchInvariant, PTL DEF Spec

-----------------------------------------------------------------------------
(* What the people on the lists are promised: dispatching implements       *)
(* CampaignCalls.  An attempt has a row exactly when its number has been   *)
(* counted, so the next number is always a fresh one; while calls are      *)
(* reliable an unsettled attempt is a token, so a PENDING recipient has    *)
(* none.                                                                   *)
Written(a) == attemptStatus[a] # "none"
RowsCounted == \A a \in Attempts : Written(a) <=> a[2] <= attemptsCount[a[1]]
CallsInv == DispatchInv /\ RowsCounted
RowsKept == /\ UNCHANGED <<env, attemptsCount>>
            /\ \A a \in Attempts : Written(a)' <=> Written(a)

LEMMA InitCalls == Init => RowsCounted /\ Calls!Init
<1> SUFFICES ASSUME Init PROVE RowsCounted /\ Calls!Init
  OBVIOUS
<1>1. /\ attemptsCount = [r \in Recipients |-> 0]
      /\ attemptStatus = [a \in Attempts |-> "none"]
  BY DEF Init
<1>2. \A a \in Attempts : ~Written(a) /\ ~(a[2] <= attemptsCount[a[1]])
  BY <1>1, AttemptParts, ConstantsAssumption DEF Written
<1>3. \A a \in Attempts : Stage(a) = "none"
  BY <1>1 DEF Stage
<1>4. Calls!Attempts = Attempts
  BY DEF Calls!Attempts, Attempts
<1>5. Calls!Init
  BY <1>1, <1>3, <1>4 DEF Calls!Init, Reliable
<1> QED BY <1>2, <1>5 DEF RowsCounted

(* A row once written stays; only a reservation counts and writes one.     *)
LEMMA RowsKeptStep ==
  ASSUME CallsInv, [Next]_vars, \A w \in Workers, c \in Campaigns : ~DispatchQueue(w, c)
  PROVE  RowsKept
<1>1. UNCHANGED env
  BY EnvRigid
<1>2. ASSUME NEW b \in Attempts, Written(b), UNCHANGED attemptsCount,
             NEW v, attemptStatus' = [attemptStatus EXCEPT ![b] = v], v # "none"
      PROVE  RowsKept
  BY <1>1, <1>2 DEF RowsKept, Written, CallsInv, DispatchInv, TypeOK
<1>3. ASSUME UNCHANGED <<attemptsCount, attemptStatus>> PROVE RowsKept
  BY <1>1, <1>3 DEF RowsKept, Written
<1>4. \A b \in Attempts : provider[b] # "idle" \/ (\E w \in Workers : b \in Held(w)) => Written(b)
  BY DEF CallsInv, DispatchInv, Ownership, Counted, RowsCounted
<1>5. ASSUME NEW w \in Workers, NEW a \in Attempts, RecordDialing(w, a) \/ RecordFailure(w, a)
      PROVE  RowsKept
  <2>1. Written(a)
    BY <1>4, <1>5 DEF RecordDialing, RecordFailure, Held
  <2>2. UNCHANGED attemptsCount
    BY <1>5 DEF RecordDialing, RecordFailure
  <2>3. \E v \in {"dialing", "failed"} : attemptStatus' = [attemptStatus EXCEPT ![a] = v]
    BY <1>5 DEF RecordDialing, RecordFailure
  <2> QED BY <1>2, <2>1, <2>2, <2>3
<1>6. ASSUME NEW h \in Handlers, NEW l \in loaded[h], EventCommit(h, l)
      PROVE  RowsKept
  <2> DEFINE b == l.event.attempt
  <2>1. /\ b \in Attempts /\ l.event.status \in Progress \union Terminal
        /\ provider[b] # "idle"
    BY LoadedParts DEF CallsInv, DispatchInv, Ownership, EventsOfCalls
  <2>2. Written(b)
    BY <1>4, <2>1
  <2>3. /\ UNCHANGED attemptsCount
        /\ attemptStatus' = [attemptStatus EXCEPT ![b] =
                               IF l.event.status = l.attempt THEN @ ELSE l.event.status]
    BY <1>6 DEF EventCommit
  <2>4. l.event.status # "none"
    BY <2>1 DEF Progress, Terminal, Retryable
  <2> HIDE DEF b
  <2>5. \E v : v # "none" /\ attemptStatus' = [attemptStatus EXCEPT ![b] = v]
    BY <2>2, <2>3, <2>4 DEF Written
  <2> QED BY <1>2, <2>1, <2>2, <2>3, <2>5
<1>7. ASSUME NEW w \in Workers,
             \/ \E c \in Campaigns : DispatchRead(w, c) \/ DispatchPause(w, c) \/ DispatchFail(w, c)
             \/ \E a \in Attempts : Originate(w, a)
             \/ WorkerCrash(w)
      PROVE  RowsKept
  BY <1>3, <1>7 DEF DispatchRead, DispatchPause, DispatchFail, Originate, WorkerCrash, database
<1>8. ASSUME NEW h \in Handlers,
             \/ \E e \in events : EventRead(h, e)
             \/ \E l \in loaded[h] : EventConflict(h, l)
             \/ \E c \in Campaigns : EventSettle(h, c) \/ EventComplete(h, c)
             \/ HandlerCrash(h)
      PROVE  RowsKept
  BY <1>3, <1>8 DEF EventRead, EventConflict, EventSettle, EventComplete, HandlerCrash, database
<1>9. ASSUME BeatStep \/ (\E r \in Recipients : RetryDue(r)) \/ UserStep
               \/ (\E a \in Attempts : ProviderStep(a)) \/ UNCHANGED vars
      PROVE  RowsKept
  <2>1. UNCHANGED <<attemptsCount, attemptStatus>>
    BY <1>9, ProviderParts
       DEF BeatStep, BeatRead, BeatPromote, BeatEnqueue, RetryDue, UserStep, UserRead, UserWrite,
           UserRefused, AddDnc, DeleteDnc, Report, vars, database
  <2> QED BY <1>3, <2>1
<1> QED
  BY <1>5, <1>6, <1>7, <1>8, <1>9 DEF Next, WorkerStep, HandlerStep

(* An attempt is where it was while nothing Stage looks at has changed.    *)
LEMMA StageSame ==
  ASSUME NEW a \in Attempts, provider'[a] = provider[a], Written(a)' <=> Written(a),
         Waiting(a)' <=> Waiting(a), Ending(a)' <=> Ending(a)
  PROVE  Stage(a)' = Stage(a)
  BY DEF Stage, Written, Live

LEMMA StagesSame ==
  ASSUME RowsKept, \A a \in Attempts : Stage(a)' = Stage(a)
  PROVE  UNCHANGED Calls!vars
  BY DEF RowsKept, Calls!vars, Reliable

(* One attempt moves on.                                                   *)
LEMMA StageAdvance ==
  ASSUME RowsKept, NEW a \in Attempts, NEW from, NEW to, Stage(a) = from, Stage(a)' = to,
         \A b \in Attempts \ {a} : Stage(b)' = Stage(b)
  PROVE  Calls!Advance(a, from, to)
  BY DEF RowsKept, Calls!Advance, Reliable

(* What an unsettled attempt means for the code: it is waiting, talked on, *)
(* or its end is in flight, each of which is a token of its recipient.     *)
LEMMA UnsettledToken ==
  ASSUME NEW a \in Attempts, Stage(a) \in Calls!Unsettled
  PROVE  Token(a)
<1>1. Stage(a) \in {"reserved", "live", "ended"}
  BY DEF Calls!Unsettled
<1>2. Waiting(a) \/ Live(a) \/ Ending(a)
  BY <1>1 DEF Stage
<1> QED BY <1>2 DEF Token, Waiting, Ending, Ends

(* The reservation of DispatchQueue, whose guard reads only the recipients'*)
(* own rows, is a reservation of fresh numbers for free recipients.        *)
LEMMA ReserveCalls ==
  ASSUME CallsInv, [Next]_vars, NEW w \in Workers, NEW c \in Campaigns, DispatchQueue(w, c)
  PROVE  RowsCounted' /\ Calls!Next
<1>0. TypeOK /\ Ownership /\ RowsCounted /\ (Reliable => OneToken)
  BY DEF CallsInv, DispatchInv
<1>1. PICK taken \in SUBSET Candidates(c) :
        /\ attemptsCount' = [r \in Recipients |->
             IF r \in taken THEN attemptsCount[r] + 1 ELSE attemptsCount[r]]
        /\ attemptStatus' = [a \in Attempts |->
             IF a \in {NextAttempt(r) : r \in taken} THEN "queued" ELSE attemptStatus[a]]
        /\ jobs' = [jobs EXCEPT ![w] = {NextAttempt(r) : r \in taken}]
  BY DEF DispatchQueue
<1> DEFINE made == {NextAttempt(r) : r \in taken}
<1>2. taken \subseteq Recipients /\ made \subseteq Attempts
  BY <1>0, ReservedTypes
<1>3. /\ UNCHANGED <<env, placed, failed, provider, events, loaded>>
      /\ jobs[w] = {} /\ failed[w] = {}
  BY <1>0 DEF DispatchQueue, handlerVars, callVars, Ownership, SlotsFirst, Held
<1>4. \A a \in Attempts : /\ a[1] \in Recipients /\ a[2] \in Nat \ {0} /\ a = <<a[1], a[2]>>
                          /\ attemptsCount[a[1]] \in Nat
  BY <1>0, AttemptParts, ConstantsAssumption DEF TypeOK
<1>5. \A a \in Attempts : a \in made <=> a[1] \in taken /\ a[2] = attemptsCount[a[1]] + 1
  BY <1>4 DEF NextAttempt
<1>6. \A a \in Attempts : a \in made => ~Written(a) /\ provider[a] = "idle"
  <2>1. \A a \in Attempts : a \in made => ~(a[2] <= attemptsCount[a[1]])
    BY <1>4, <1>5
  <2> QED BY <1>0, <2>1 DEF RowsCounted, Ownership, Counted
<1>7. \A a \in Attempts : Written(a)' <=> a \in made \/ Written(a)
  BY <1>1 DEF Written
<1>8. RowsCounted'
  <2> SUFFICES ASSUME NEW a \in Attempts PROVE Written(a)' <=> a[2] <= attemptsCount'[a[1]]
    BY DEF RowsCounted
  <2>1. attemptsCount'[a[1]] = IF a[1] \in taken THEN attemptsCount[a[1]] + 1
                                                 ELSE attemptsCount[a[1]]
    BY <1>1, <1>4
  <2>2. Written(a) <=> a[2] <= attemptsCount[a[1]]
    BY <1>0 DEF RowsCounted
  <2>3. a \in made <=> a[1] \in taken /\ a[2] = attemptsCount[a[1]] + 1
    BY <1>5
  <2> HIDE DEF made
  <2> QED BY <1>4, <1>7, <2>1, <2>2, <2>3
<1>9. \A a \in Attempts : a \in made => Stage(a) = "none" /\ Stage(a)' = "reserved"
  <2> SUFFICES ASSUME NEW a \in Attempts, a \in made
               PROVE  Stage(a) = "none" /\ Stage(a)' = "reserved"
    OBVIOUS
  <2>1. Stage(a) = "none"
    BY <1>6 DEF Stage, Written
  <2>2. /\ attemptStatus'[a] = "queued" /\ provider'[a] = "idle"
        /\ a \in jobs'[w] \union failed'[w]
    BY <1>0, <1>1, <1>3, <1>6 DEF TypeOK
  <2>3. Waiting(a)'
    BY <2>2 DEF Waiting
  <2>4. Stage(a)' = "reserved"
    BY <2>2, <2>3 DEF Stage, Live
  <2> QED BY <2>1, <2>4
<1>10. \A a \in Attempts : a \notin made => Stage(a)' = Stage(a)
  <2> SUFFICES ASSUME NEW a \in Attempts, a \notin made PROVE Stage(a)' = Stage(a)
    OBVIOUS
  <2>1. Waiting(a)' <=> Waiting(a)
    <3>1. \A v \in Workers : jobs'[v] = IF v = w THEN made ELSE jobs[v]
      BY <1>0, <1>1 DEF TypeOK
    <3> HIDE DEF made
    <3> QED BY <1>3, <3>1 DEF Waiting
  <2>2. (Ending(a)' <=> Ending(a)) /\ (Written(a)' <=> Written(a)) /\ provider'[a] = provider[a]
    BY <1>3, <1>7 DEF Ending
  <2> QED BY <2>1, <2>2, StageSame
<1>11. made = {Calls!Following(r) : r \in taken} /\ Calls!Attempts = Attempts
  BY DEF NextAttempt, Calls!Following, Calls!Attempts, Attempts
<1>12. ASSUME Reliable, NEW r \in taken PROVE attemptsCount[r] < MaxAttempts /\ Calls!Free(r)
  <2>1. r \in Recipients /\ recipientStatus[r] = "pending" /\ OneToken
    BY <1>0, <1>2, <1>12 DEF Candidates
  <2>2. attemptsCount[r] < MaxAttempts
    BY <2>1 DEF OneToken, Budget
  <2>3. \A a \in Attempts : a[1] = r => Stage(a) \notin Calls!Unsettled
    BY <2>1, UnsettledToken DEF OneToken, TokenLatest
  <2> QED BY <1>11, <2>2, <2>3 DEF Calls!Free
<1>13. Calls!Reserve(taken)
  <2>1. \A r \in taken : Calls!Following(r) \in made
    BY <1>11
  <2>2. \A a \in Attempts : Stage(a)' = IF a \in made THEN "reserved" ELSE Stage(a)
    BY <1>9, <1>10
  <2> HIDE DEF made
  <2>3. \A r \in taken : /\ Calls!Following(r) \in Calls!Attempts
                         /\ [a \in Attempts |-> Stage(a)][Calls!Following(r)] = "none"
    BY <1>2, <1>9, <1>11, <2>1
  <2>4. [a \in Attempts |-> Stage(a)]' =
          [a \in Attempts |-> IF a \in made THEN "reserved" ELSE [b \in Attempts |-> Stage(b)][a]]
    BY <2>2
  <2>5. Reliable' <=> Reliable
    BY <1>3 DEF Reliable
  <2> QED BY <1>1, <1>11, <1>12, <2>3, <2>4, <2>5 DEF Calls!Reserve
<1> QED BY <1>2, <1>8, <1>13 DEF Calls!Next

(* Fewer attempts wait and none is placed: some calls are dropped.         *)
LEMMA DropCalls ==
  ASSUME RowsKept, UNCHANGED provider,
         \A a \in Attempts : (Waiting(a)' => Waiting(a)) /\ (Ending(a)' <=> Ending(a))
  PROVE  Calls!Next
<1> DEFINE gone == {a \in Attempts : Stage(a) = "reserved" /\ ~Waiting(a)'}
<1>1. \A a \in Attempts : Stage(a) = "reserved" =>
        attemptStatus[a] # "none" /\ provider[a] = "idle" /\ Waiting(a)
  BY DEF Stage, Live
<1>2. \A a \in Attempts : a \in gone => Stage(a)' = "dropped"
  BY <1>1 DEF Stage, Live, RowsKept, Written
<1>3. \A a \in Attempts : a \notin gone => Stage(a)' = Stage(a)
  <2> SUFFICES ASSUME NEW a \in Attempts, a \notin gone PROVE Stage(a)' = Stage(a)
    OBVIOUS
  <2>1. CASE Waiting(a)' <=> Waiting(a)
    BY <2>1, StageSame DEF RowsKept
  <2>2. CASE Waiting(a) /\ ~Waiting(a)'
    <3>1. Stage(a) # "reserved"
      BY <2>2
    <3> HIDE DEF gone
    <3>2. attemptStatus[a] = "none" \/ provider[a] # "idle"
      BY <2>2, <3>1 DEF Stage, Live
    <3> QED BY <3>2 DEF Stage, RowsKept, Written, Live
  <2> QED BY <2>1, <2>2
<1>4. Calls!Attempts = Attempts
  BY DEF Calls!Attempts, Attempts
<1>5. gone \subseteq Attempts /\ \A a \in gone : Stage(a) = "reserved"
  OBVIOUS
<1> HIDE DEF gone
<1>6. Calls!Drop(gone)
  BY <1>2, <1>3, <1>4, <1>5 DEF Calls!Drop, RowsKept, Reliable
<1>7. gone \in SUBSET {a \in Attempts : [b \in Attempts |-> Stage(b)][a] = "reserved"}
  BY <1>5
<1> QED BY <1>4, <1>6, <1>7 DEF Calls!Next

(* An ending leaves the flight: the end of a call is settled.              *)
LEMMA SettleCalls ==
  ASSUME RowsKept, UNCHANGED provider, NEW b \in Attempts,
         \A a \in Attempts : Waiting(a)' <=> Waiting(a),
         \A a \in Attempts \ {b} : Ending(a)' <=> Ending(a),
         Ending(b)' => Ending(b)
  PROVE  Calls!Next \/ UNCHANGED Calls!vars
<1>1. \A a \in Attempts \ {b} : Stage(a)' = Stage(a)
  BY StageSame DEF RowsKept
<1>2. CASE Stage(b)' = Stage(b)
  BY <1>1, <1>2, StagesSame
<1>3. CASE Stage(b)' # Stage(b)
  <2>1. Ending(b) /\ ~Ending(b)'
    BY <1>3, StageSame DEF RowsKept
  <2>2. Stage(b) = "ended" /\ Stage(b)' = "settled"
    BY <1>3, <2>1 DEF Stage, RowsKept, Written, Live
  <2>3. Calls!Settle(b)
    BY <1>1, <2>2, StageAdvance DEF Calls!Settle
  <2> QED BY <2>3 DEF Calls!Next, Calls!Attempts, Attempts
<1> QED BY <1>2, <1>3

LEMMA OriginateCalls ==
  ASSUME CallsInv, RowsKept, NEW w \in Workers, NEW a \in Attempts, Originate(w, a)
  PROVE  Calls!Next \/ UNCHANGED Calls!vars
<1>0. TypeOK /\ Ownership
  BY DEF CallsInv, DispatchInv
<1>1. /\ a \in jobs[w] /\ jobs' = [jobs EXCEPT ![w] = @ \ {a}]
      /\ UNCHANGED <<attemptStatus, events, loaded>>
      /\ \/ provider' = [provider EXCEPT ![a] = "dialing"] /\ failed' = failed
         \/ provider' = [provider EXCEPT ![a] = "dialing"] /\ failed' = [failed EXCEPT ![w] = {a}]
         \/ provider' = provider /\ failed' = [failed EXCEPT ![w] = {a}]
      /\ failed[w] = {}
  BY DEF Originate, database, handlerVars
<1>2. provider[a] = "idle" /\ Written(a) /\ Waiting(a)
  BY <1>0, <1>1 DEF Ownership, JobsFresh, Written, Waiting
<1>3. \A b \in Attempts : (Ending(b)' <=> Ending(b)) /\ (Written(b)' <=> Written(b))
  BY <1>1 DEF Ending, RowsKept
<1>4. \A v \in Workers : /\ jobs'[v] = IF v = w THEN jobs[v] \ {a} ELSE jobs[v]
                         /\ failed'[v] = failed[v] \/ (v = w /\ failed'[v] = {a})
  BY <1>0, <1>1 DEF TypeOK
<1>5. \A b \in Attempts \ {a} : (Waiting(b)' <=> Waiting(b)) /\ provider'[b] = provider[b]
  BY <1>0, <1>1, <1>4 DEF Waiting, TypeOK
<1>6. \A b \in Attempts \ {a} : Stage(b)' = Stage(b)
  BY <1>3, <1>5, StageSame
<1>7. CASE provider' = [provider EXCEPT ![a] = "dialing"]
  <2>1. Stage(a) = "reserved"
    BY <1>2 DEF Stage, Live, Written
  <2>2. provider'[a] = "dialing"
    BY <1>0, <1>7 DEF TypeOK
  <2>3. Stage(a)' = "live"
    BY <1>2, <1>3, <2>2 DEF Stage, Live, Written
  <2>4. Calls!Place(a)
    BY <1>6, <2>1, <2>3, StageAdvance DEF Calls!Place
  <2> QED BY <2>4 DEF Calls!Next, Calls!Attempts, Attempts
<1>8. CASE provider' = provider /\ failed' = [failed EXCEPT ![w] = {a}]
  <2>1. Waiting(a)'
    BY <1>0, <1>8 DEF Waiting, TypeOK
  <2>2. Stage(a)' = Stage(a)
    BY <1>2, <1>3, <1>8, <2>1, StageSame
  <2> QED BY <1>6, <2>2, StagesSame
<1> QED BY <1>1, <1>7, <1>8

(* A provider's event keeps a call live or ends it and puts its end on the *)
(* way to apply_event.                                                     *)
LEMMA ReportCalls ==
  ASSUME CallsInv, RowsKept, NEW a \in Attempts, ProviderStep(a)
  PROVE  Calls!Next \/ UNCHANGED Calls!vars
<1>0. TypeOK /\ Ownership /\ RowsCounted
  BY DEF CallsInv, DispatchInv
<1>1. PICK status \in Progress \union Terminal, state \in {"ringing", "answered", "over"} :
        /\ Report(a, status, state) /\ provider[a] \in {"dialing", "ringing", "answered"}
        /\ status \in Terminal <=> state = "over"
  BY ProviderParts
<1>2. PICK posted : /\ events' = events \union {posted} /\ posted.attempt = a
                    /\ posted.status = status
  <2> DEFINE p == [attempt |-> a, status |-> status]
  <2>1. events' = events \union {p}
    BY <1>1 DEF Report
  <2>2. p.attempt = a /\ p.status = status
    OBVIOUS
  <2> HIDE DEF p
  <2> QED BY <2>1, <2>2
<1>3. UNCHANGED <<loaded, jobs, failed>> /\ provider' = [provider EXCEPT ![a] = state]
  BY <1>1 DEF Report, handlerVars, workerVars
<1>4. \A b \in Attempts : provider'[b] = IF b = a THEN state ELSE provider[b]
  BY <1>0, <1>3 DEF TypeOK
<1>5. \A b \in Attempts : (Waiting(b)' <=> Waiting(b)) /\ (Written(b)' <=> Written(b))
  BY <1>3 DEF Waiting, RowsKept
<1>6. \A b \in Attempts \ {a} : Ending(b)' <=> Ending(b)
  BY <1>2, <1>3 DEF Ending
<1>7. \A b \in Attempts \ {a} : Stage(b)' = Stage(b)
  BY <1>4, <1>5, <1>6, StageSame
<1>8. Written(a) /\ Stage(a) = "live"
  <2>1. Written(a)
    BY <1>0, <1>1 DEF Ownership, Counted, RowsCounted
  <2> QED BY <1>1, <2>1 DEF Stage, Written, Live
<1>9. CASE state = "over"
  <2>1. Ending(a)' /\ provider'[a] = "over"
    BY <1>1, <1>2, <1>4, <1>9 DEF Ending
  <2>2. Stage(a)' = "ended"
    BY <1>5, <1>8, <2>1 DEF Stage, Written, Live
  <2>3. Calls!End(a)
    BY <1>7, <1>8, <2>2, StageAdvance DEF Calls!End
  <2> QED BY <2>3 DEF Calls!Next, Calls!Attempts, Attempts
<1>10. CASE state # "over"
  <2>1. provider'[a] \in {"ringing", "answered"}
    BY <1>4, <1>10
  <2>2. Stage(a)' = "live"
    BY <1>5, <1>8, <2>1 DEF Stage, Written, Live
  <2> QED BY <1>7, <1>8, <2>2, StagesSame
<1> QED BY <1>9, <1>10

(* A handler that reads an event keeps it in flight; one that applies it,  *)
(* rolls it back or dies with it ends its flight, and settles the call     *)
(* unless the event has been delivered again.                              *)
LEMMA EventCalls ==
  ASSUME CallsInv, RowsKept, NEW h \in Handlers,
         \/ \E e \in events : EventRead(h, e)
         \/ \E l \in loaded[h] : EventCommit(h, l) \/ EventConflict(h, l)
         \/ HandlerCrash(h)
  PROVE  Calls!Next \/ UNCHANGED Calls!vars
<1>0. TypeOK /\ OneLoaded
  BY DEF CallsInv, DispatchInv, Flow
<1>1. UNCHANGED <<provider, jobs, failed>>
  BY DEF EventRead, EventCommit, EventConflict, HandlerCrash, workerVars, callVars
<1>2. \A b \in Attempts : (Waiting(b)' <=> Waiting(b)) /\ (Written(b)' <=> Written(b))
  BY <1>1 DEF Waiting, RowsKept
<1>3. ASSUME NEW e \in events, EventRead(h, e) PROVE UNCHANGED Calls!vars
  <2>1. PICK seen : loaded' = [loaded EXCEPT ![h] = {seen}] /\ seen.event = e
    BY <1>3, ReadSeen
  <2>2. loaded[h] = {} /\ (events' = events \ {e} \/ events' = events)
    BY <1>3 DEF EventRead, IdleHandler
  <2>3. \A k \in Handlers : loaded'[k] = IF k = h THEN {seen} ELSE loaded[k]
    BY <1>0, <2>1 DEF TypeOK
  <2>4. \A b \in Attempts : Ending(b)' <=> Ending(b)
    BY <2>1, <2>2, <2>3 DEF Ending
  <2> QED BY <1>1, <1>2, <2>4, StageSame, StagesSame
<1>4. ASSUME (\E l \in loaded[h] : EventCommit(h, l) \/ EventConflict(h, l)) \/ HandlerCrash(h)
      PROVE  Calls!Next \/ UNCHANGED Calls!vars
  <2>1. loaded' = [loaded EXCEPT ![h] = {}] /\ UNCHANGED events
    BY <1>4 DEF EventCommit, EventConflict, HandlerCrash, callVars
  <2>2. \A k \in Handlers : loaded'[k] = IF k = h THEN {} ELSE loaded[k]
    BY <1>0, <2>1 DEF TypeOK
  <2>3. CASE loaded[h] = {}
    <3>1. \A b \in Attempts : Ending(b)' <=> Ending(b)
      BY <2>1, <2>2, <2>3 DEF Ending
    <3> QED BY <1>1, <1>2, <3>1, StageSame, StagesSame
  <2>4. CASE loaded[h] # {}
    <3>1. PICK l \in loaded[h] : TRUE
      BY <2>4
    <3>2. \A m \in loaded[h] : m = l
      BY <1>0, <3>1 DEF OneLoaded
    <3> DEFINE b == l.event.attempt
    <3>3. b \in Attempts
      BY <1>0, LoadedParts
    <3>4. \A a \in Attempts \ {b} : Ending(a)' <=> Ending(a)
      BY <2>1, <2>2, <3>2 DEF Ending
    <3>5. Ending(b)' => Ending(b)
      BY <2>1, <2>2 DEF Ending
    <3> HIDE DEF b
    <3> QED BY <1>1, <1>2, <3>3, <3>4, <3>5, SettleCalls
  <2> QED BY <2>3, <2>4
<1> QED BY <1>3, <1>4

LEMMA CallsStep ==
  ASSUME CallsInv, [Next]_vars
  PROVE  CallsInv' /\ (Calls!Next \/ UNCHANGED Calls!vars)
<1>0. DispatchInv' /\ TypeOK
  BY DispatchStep DEF CallsInv, DispatchInv
<1>1. CASE \E w \in Workers, c \in Campaigns : DispatchQueue(w, c)
  BY <1>0, <1>1, ReserveCalls DEF CallsInv
<1>2. CASE \A w \in Workers, c \in Campaigns : ~DispatchQueue(w, c)
  <2>1. RowsKept
    BY <1>2, RowsKeptStep
  <2>2. CallsInv'
    BY <1>0, <2>1 DEF CallsInv, RowsCounted, RowsKept
  <2>3. ASSUME UNCHANGED <<provider, events, loaded>>,
               \A v \in Workers : jobs'[v] \subseteq jobs[v] /\ failed'[v] \subseteq failed[v]
        PROVE  Calls!Next
    <3>1. \A a \in Attempts : (Waiting(a)' => Waiting(a)) /\ (Ending(a)' <=> Ending(a))
      BY <2>3 DEF Waiting, Ending
    <3> QED BY <2>1, <2>3, <3>1, DropCalls
  <2>4. ASSUME NEW w \in Workers,
               \/ \E c \in Campaigns : \/ DispatchRead(w, c) \/ DispatchPause(w, c)
                                       \/ DispatchFail(w, c)
               \/ \E a \in Attempts : RecordDialing(w, a) \/ RecordFailure(w, a)
               \/ WorkerCrash(w)
        PROVE  Calls!Next
    <3>1. UNCHANGED <<provider, events, loaded>>
      BY <2>4 DEF DispatchRead, DispatchPause, DispatchFail, RecordDialing, RecordFailure,
                  WorkerCrash, handlerVars, callVars
    <3>2. /\ jobs' = jobs \/ jobs' = [jobs EXCEPT ![w] = {}]
          /\ failed' = failed \/ failed' = [failed EXCEPT ![w] = {}]
      BY <2>4 DEF DispatchRead, DispatchPause, DispatchFail, RecordDialing, RecordFailure,
                  WorkerCrash
    <3>3. \A v \in Workers : jobs'[v] \subseteq jobs[v] /\ failed'[v] \subseteq failed[v]
      BY <1>0, <3>2 DEF TypeOK
    <3> QED BY <2>3, <3>1, <3>3
  <2>5. ASSUME \/ BeatStep \/ (\E r \in Recipients : RetryDue(r)) \/ UserStep \/ UNCHANGED vars
               \/ \E h \in Handlers : \E c \in Campaigns : EventSettle(h, c) \/ EventComplete(h, c)
        PROVE  Calls!Next
    <3>1. UNCHANGED <<provider, events, loaded, jobs, failed>>
      BY <2>5 DEF BeatStep, BeatRead, BeatPromote, BeatEnqueue, RetryDue, UserStep, UserRead,
                  UserWrite, UserRefused, AddDnc, DeleteDnc, vars, EventSettle, EventComplete,
                  workerVars, handlerVars, callVars
    <3> QED BY <2>3, <3>1
  <2>6. Calls!Next \/ UNCHANGED Calls!vars
    BY <1>2, <2>1, <2>4, <2>5, OriginateCalls, ReportCalls, EventCalls
       DEF Next, WorkerStep, HandlerStep
  <2> QED BY <2>2, <2>6
<1> QED BY <1>1, <1>2

(* Dispatching implements CampaignCalls in every environment, however      *)
(* workers, handlers, Beat and users overlap and whatever dies             *)
(* (_dispatch_campaign, apply_event).                                      *)
THEOREM DispatchKeepsCalls == Spec => CallsKept
<1>1. Init => CallsInv /\ Calls!Init
  BY InitDispatch, InitCalls DEF CallsInv
<1>2. CallsInv /\ [Next]_vars => CallsInv' /\ [Calls!Next]_(Calls!vars)
  BY CallsStep
<1> QED BY <1>1, <1>2, PTL DEF Spec, CallsKept, Calls!Spec
=============================================================================
