-------------------------- MODULE ConversationsProofs --------------------------
(***************************************************************************)
(* Theorems about Conversations, as a part of BackOffice: however often a  *)
(* call is completed, one request is made of it where nothing overlaps; it *)
(* is filed once and confirmed once where nothing fails after the fact,    *)
(* and no more often than its task may be tried unless a worker dies.      *)
(***************************************************************************)
EXTENDS BackOfficeProofs

-----------------------------------------------------------------------------
(* Copies of a message, before and after one is added or taken.            *)
LEMMA CopyAdded ==
  ASSUME NEW B, IsABag(B), NEW m
  PROVE  /\ \A n : n # m =>
              /\ n \in BagToSet(B (+) SetToBag({m})) <=> n \in BagToSet(B)
              /\ n \in BagToSet(B) => (B (+) SetToBag({m}))[n] = B[n]
         /\ m \notin BagToSet(B) => (B (+) SetToBag({m}))[m] = 1
  BY DEF IsABag, BagToSet, (+), SetToBag

LEMMA CopyTaken ==
  ASSUME NEW B, IsABag(B), NEW m \in BagToSet(B)
  PROVE  /\ \A n : n # m =>
              /\ n \in BagToSet(B (-) SetToBag({m})) <=> n \in BagToSet(B)
              /\ n \in BagToSet(B) => (B (-) SetToBag({m}))[n] = B[n]
         /\ B[m] = 1 => m \notin BagToSet(B (-) SetToBag({m}))
  BY DEF IsABag, BagToSet, (-), SetToBag

(* A message that waits now waited before, as often.                       *)
Errand == {"sync", "confirm"}
Kept(n) == n \in BagToSet(queue') => n \in BagToSet(queue) /\ queue'[n] = queue[n]

LEMMA QueueKept ==
  ASSUME TypedQueue, NEW m, Queue(m) \/ UNCHANGED queue
  PROVE  \A n : n # m => Kept(n)
<1>1. CASE Queue(m)
  <2>1. queue' = queue (+) SetToBag({m})
    BY <1>1 DEF Queue
  <2>2. IsABag(queue)
    BY DEF TypedQueue
  <2> SUFFICES ASSUME NEW n, n # m PROVE Kept(n)
    OBVIOUS
  <2>3. n \in BagToSet(queue (+) SetToBag({m})) => n \in BagToSet(queue)
    BY <2>2, CopyAdded
  <2>4. n \in BagToSet(queue) => (queue (+) SetToBag({m}))[n] = queue[n]
    BY <2>2 DEF IsABag, BagToSet, (+), SetToBag
  <2> QED BY <2>1, <2>3, <2>4 DEF Kept
<1>2. CASE UNCHANGED queue
  BY <1>2 DEF Kept
<1> QED BY <1>1, <1>2

LEMMA TakenKept ==
  ASSUME TypedQueue, NEW m \in BagToSet(queue), queue' = queue (-) SetToBag({m})
  PROVE  /\ \A n : n # m => Kept(n)
         /\ queue[m] = 1 => m \notin BagToSet(queue')
  BY CopyTaken DEF TypedQueue, Kept

-----------------------------------------------------------------------------
(* Steps that add nothing to conversations: what they leave there was      *)
(* there before, or the company is deleted.                                *)
Aside ==
  /\ env' = env /\ (Deleted => Deleted')
  /\ UNCHANGED rows \/ (Deleted' /\ \A r \in Rows : rows'[r] = None)
  /\ UNCHANGED <<docs, sent, customers>>
  /\ \A n : n.task \in Errand => Kept(n)
  /\ \A w \in Workers : job'[w] # None /\ job'[w].task \in Errand => job'[w] = job[w]
  /\ \A q \in Requests : req'[q].op \in ConversationOps => req'[q] = req[q]

LEMMA ForeignOps ==
  /\ ConversationOps \intersect (LibraryOps \union {"idle"}) = {}
  /\ ConversationOps \intersect (AccountOps \union {"idle"}) = {}
  /\ ConversationOps \intersect (CampaignOps \union {"idle"}) = {}
  /\ ConversationOps \intersect (DeletionOps \union {"idle"}) = {}
  BY DEF ConversationOps, LibraryOps, OnDocument, AccountOps, CampaignOps, DeletionOps

LEMMA LibraryAside ==
  ASSUME Sound, Deleted => Deleted', NEW q \in Requests, LibraryAsked(q) \/ LibraryGoesOn(q),
         UNCHANGED conversationVars
  PROVE  Aside
<1> USE DEF Sound, Typed
<1>1. UNCHANGED <<env, job>>
  BY ItemTypes, DocumentTypes DEF LibraryAsked, LibraryGoesOn
<1>2. \A p \in Requests : req'[p].op \in ConversationOps => req'[p] = req[p]
  BY LibraryMoves, OthersMove, ForeignOps
<1>3. \A n : n.task \in Errand => Kept(n)
  <2>1. CASE QueueDocument(q) \/ QueueAgain(q)
    <3>1. Queue(Message("process", req[q].document)) \/ UNCHANGED queue
      BY <2>1 DEF QueueDocument, QueueAgain, Publish
    <3>2. Message("process", req[q].document).task = "process"
      BY DEF Message
    <3> QED BY <3>1, <3>2, QueueKept DEF Errand
  <2>2. CASE ~QueueDocument(q) /\ ~QueueAgain(q)
    <3>1. UNCHANGED queue
      BY <2>2 DEF LibraryAsked, LibraryGoesOn, CreateItem, UpdateItem, DeleteItem, ReadTemplate,
         BumpVersion, ApplyTemplate, Upload, Register, Retry, DeleteDocument, StoreDocument,
         UndoUpload, BumpRemoved, RemoveObject, OnlyItems
    <3> QED BY <3>1 DEF Kept
  <2> QED BY <2>1, <2>2
<1> QED BY <1>1, <1>2, <1>3 DEF Aside, conversationVars

LEMMA AccountAside ==
  ASSUME Sound, Deleted => Deleted', NEW q \in Requests, AccountAsked(q) \/ AccountGoesOn(q),
         UNCHANGED conversationVars
  PROVE  Aside
<1> USE DEF Sound, Typed
<1>1. UNCHANGED <<env, job>>
  BY LoginTypes, TokenReadTypes, RefreshTypes, VerifyTypes, LinkTypes, ResetTypes,
     SignupTypes, MailTypes, AdministratorTypes DEF AccountAsked, AccountGoesOn
<1>2. \A p \in Requests : req'[p].op \in ConversationOps => req'[p] = req[p]
  BY AccountMoves, OthersMove, ForeignOps
<1>3. \A n : n.task \in Errand => Kept(n)
  <2>1. CASE Mail(q)
    <3>1. Queue(Message("email", req[q].token)) \/ UNCHANGED queue
      BY <2>1 DEF Mail, Publish
    <3>2. Message("email", req[q].token).task = "email"
      BY DEF Message
    <3> QED BY <3>1, <3>2, QueueKept DEF Errand
  <2>2. CASE ~Mail(q)
    <3>1. UNCHANGED queue
      BY <2>2, LoginTypes, TokenReadTypes, RefreshTypes, VerifyTypes, LinkTypes, ResetTypes,
         SignupTypes, AdministratorTypes DEF AccountAsked, AccountGoesOn
    <3> QED BY <3>1 DEF Kept
  <2> QED BY <2>1, <2>2
<1> QED BY <1>1, <1>2, <1>3 DEF Aside, conversationVars

LEMMA CampaignAside ==
  ASSUME Sound, Deleted => Deleted', NEW q \in Requests, CampaignAsked(q) \/ CampaignGoesOn(q),
         UNCHANGED conversationVars
  PROVE  Aside
<1> USE DEF Sound, Typed
<1>1. UNCHANGED <<env, job, queue>>
  BY LoadTypes, AudioTypes, SaveTypes, ImportTypes, CreateTypes, SingleTypes,
     AddContactTypes DEF CampaignAsked, CampaignGoesOn
<1>2. \A p \in Requests : req'[p].op \in ConversationOps => req'[p] = req[p]
  <2>1. CASE SaveImport(q)
    BY <2>1, ImportKeeps DEF ConversationOps
  <2>2. CASE ~SaveImport(q)
    BY <2>2, CampaignMoves, OthersMove, ForeignOps
  <2> QED BY <2>1, <2>2
<1>3. \A n : n.task \in Errand => Kept(n)
  BY <1>1 DEF Kept
<1> QED BY <1>1, <1>2, <1>3 DEF Aside, conversationVars

LEMMA DeletionAside ==
  ASSUME Sound, Deleted => Deleted', NEW q \in Requests,
         ShowCompany(q) \/ DeleteRows(q) \/ DeleteFiles(q)
  PROVE  Aside
<1> USE DEF Sound, Typed
<1>1. \A p \in Requests : req'[p].op \in ConversationOps => req'[p] = req[p]
  BY DeletionMoves, OthersMove, ForeignOps
<1>2. UNCHANGED <<env, queue, job, docs, sent, customers>>
  BY DEF ShowCompany, DeleteRows, DeleteFiles, conversationVars
<1>3. UNCHANGED rows \/ (Deleted' /\ \A r \in Rows : rows'[r] = None)
  <2>1. CASE ShowCompany(q) \/ DeleteFiles(q)
    BY <2>1 DEF ShowCompany, DeleteFiles, conversationVars
  <2>2. CASE DeleteRows(q)
    <3>1. env.company # None
      BY <2>2 DEF DeleteRows, At, DeletionAsked, DeletionOps
    <3> QED BY <1>2, <2>2, <3>1 DEF DeleteRows, Deleted
  <2> QED BY <2>1, <2>2
<1>4. \A n : n.task \in Errand => Kept(n)
  BY <1>2 DEF Kept
<1> QED BY <1>1, <1>2, <1>3, <1>4 DEF Aside

LEMMA WorkAside ==
  ASSUME Sound, Deleted => Deleted', NEW w \in Workers, LibraryTask(w) \/ AccountTask(w),
         UNCHANGED conversationVars
  PROVE  Aside
<1> USE DEF Sound, Typed
<1>1. UNCHANGED <<env, req>>
  BY ProcessingTypes, EmailTypes DEF AccountTask
<1>2. job[w] # None /\ job[w].task \notin Errand
  BY DEF LibraryTask, StartProcessing, Download, Clear, PublishChunks, MarkFailed,
         RetryProcessing, AccountTask, SendEmail, InJob, Errand
<1>3. \A n : n.task \in Errand => Kept(n)
  <2>1. Queue(Again(w)) \/ UNCHANGED queue
    BY DEF LibraryTask, StartProcessing, Download, Clear, PublishChunks, MarkFailed,
           RetryProcessing, AccountTask, SendEmail, Finish, TryAgain
  <2>2. Again(w).task = job[w].task
    BY DEF Again
  <2> QED BY <1>2, <2>1, <2>2, QueueKept
<1>4. \A v \in Workers : job'[v] # None /\ job'[v].task \in Errand => job'[v] = job[v]
  <2>1. ASSUME NEW at, job' = [job EXCEPT ![w].at = at]
        PROVE  job'[w].task \notin Errand /\ \A v \in Workers \ {w} : job'[v] = job[v]
    <3>1. job[w] \in AnyJob
      BY <1>2 DEF TypedJobs
    <3>2. [job[w] EXCEPT !.at = at].task = job[w].task
      BY <3>1 DEF AnyJob
    <3> QED BY <1>2, <2>1, <3>2 DEF TypedJobs
  <2>2. CASE PublishChunks(w)
    <3>1. ASSUME NEW v \in Workers, v # w, v \in Others(w)
          PROVE  [job[v] EXCEPT !.saw = Clash].task = "process"
      <4>1. job[v] \in AnyJob /\ job[v].task = "process"
        BY <3>1 DEF Others, Jobs, TypedJobs
      <4> QED BY <4>1 DEF AnyJob
    <3>2. CASE Proceed(w, "fail")
      BY <2>1, <3>2 DEF Proceed
    <3>3. CASE job' = [v \in Workers |-> IF v = w THEN None
                                         ELSE IF v \in Others(w)
                                           THEN [job[v] EXCEPT !.saw = Clash] ELSE job[v]]
      BY <3>1, <3>3 DEF Errand
    <3> QED BY <2>2, <3>2, <3>3 DEF PublishChunks
  <2>3. CASE ~PublishChunks(w)
    <3>1. \/ job'[w] = None /\ (\A v \in Workers \ {w} : job'[v] = job[v])
          \/ \E at : job' = [job EXCEPT ![w].at = at]
      BY <2>3 DEF LibraryTask, StartProcessing, Download, Clear, MarkFailed,
             RetryProcessing, AccountTask, SendEmail, Finish, TryAgain, Proceed, TypedJobs
    <3> QED BY <2>1, <3>1
  <2> QED BY <2>2, <2>3
<1> QED BY <1>1, <1>3, <1>4 DEF Aside, conversationVars, ConversationOps

LEMMA ElsewhereAside ==
  ASSUME Sound, Elsewhere
  PROVE  Aside
<1>1. UNCHANGED <<env, company, req, queue, job>>
  BY ElsewhereStep DEF Sound
<1>2. UNCHANGED conversationVars
  BY DEF Elsewhere
<1> QED BY <1>1, <1>2 DEF Aside, Deleted, Kept, conversationVars

LEMMA RequestDiesAside ==
  ASSUME Sound, NEW q \in Requests, RequestDies(q),
         UNCHANGED <<queue, job, env, company, conversationVars>>
  PROVE  Aside
<1>1. Idle.op = "idle" /\ "idle" \notin ConversationOps
  BY DEF Idle, ConversationOps
<1>2. \A p \in Requests : req'[p].op \in ConversationOps => req'[p] = req[p]
  BY <1>1 DEF RequestDies, Become, Sound, Typed, TypedRequests
<1> QED BY <1>2 DEF Aside, Deleted, Kept, conversationVars

LEMMA TakeAside ==
  ASSUME Sound, NEW w \in Workers, Take(w), job'[w].task \notin Errand,
         UNCHANGED <<env, company, req, conversationVars>>
  PROVE  Aside
<1>1. PICK m \in BagToSet(queue) :
        /\ queue' = queue (-) SetToBag({m})
        /\ job' = [job EXCEPT ![w] = [task |-> m.task, of |-> m.of, tries |-> m.tries,
                                      at |-> "start", saw |-> None]]
  BY DEF Take
<1>2. job'[w].task = m.task /\ \A v \in Workers \ {w} : job'[v] = job[v]
  BY <1>1 DEF Sound, Typed, TypedJobs
<1>3. \A n : n.task \in Errand => Kept(n)
  BY <1>1, <1>2, TakenKept DEF Sound, Typed
<1>4. \A v \in Workers : job'[v] # None /\ job'[v].task \in Errand => job'[v] = job[v]
  BY <1>2
<1> QED BY <1>3, <1>4 DEF Aside, Deleted, conversationVars, ConversationOps

-----------------------------------------------------------------------------
(* One request for a call: whoever inserts has searched in vain, and       *)
(* nothing comes between.                                                  *)
SearchedInVain ==
  Serial => \A q \in Requests : req[q].op = "insert" =>
    \A r \in Rows : rows[r] # None => rows[r].call # req[q].call

Counted == SearchedInVain /\ OneRequestPerCall

(* No row comes or changes its call, and nobody begins to insert.          *)
RowsKept ==
  \A r \in Rows : rows'[r] # None =>
    /\ rows[r] # None
    /\ rows'[r].call = rows[r].call /\ rows'[r].made = rows[r].made

LEMMA RowsKeptCounted ==
  ASSUME Counted, env' = env, RowsKept,
         \A q \in Requests : req'[q].op = "insert" => req'[q] = req[q]
  PROVE  Counted'
<1>1. SearchedInVain'
  BY DEF Counted, RowsKept, SearchedInVain, Serial, Fault
<1>2. OneRequestPerCall'
  BY DEF Counted, RowsKept, OneRequestPerCall, Fault
<1> QED BY <1>1, <1>2 DEF Counted

LEMMA AsideCounted ==
  ASSUME Counted, Aside
  PROVE  Counted'
<1>1. RowsKept
  BY DEF Aside, RowsKept
<1>2. \A q \in Requests : req'[q].op = "insert" => req'[q] = req[q]
  BY DEF Aside, ConversationOps
<1> QED BY <1>1, <1>2, RowsKeptCounted DEF Aside

(* A row that is inserted.                                                 *)
LEMMA RowInserted ==
  ASSUME Sound, Unused # {}, NEW row \in Row, rows' = [rows EXCEPT ![NewRow] = row]
  PROVE  /\ NewRow \in Rows /\ rows[NewRow] = None /\ rows'[NewRow] = row /\ row # None
         /\ \A r \in Rows \ {NewRow} : rows'[r] = rows[r]
<1>1. NewRow \in Unused
  BY DEF NewRow
<1>2. rows \in [Rows -> Row \union {None}]
  BY DEF Sound, Typed, TypedState, ConversationsTypeOK
<1>3. row # None
  BY ConversationsAssumption
<1> QED BY <1>1, <1>2, <1>3 DEF Unused

LEMMA InsertCounted ==
  ASSUME Sound, Counted, NEW q \in Requests, InsertRequest(q)
  PROVE  Counted'
<1> USE DEF Sound, Typed
<1>1. Moves(q, ConversationOps) /\ env' = env
  BY ConversationMoves, RowTypes DEF ConversationGoesOn
<1>2. \A p \in Requests \ {q} : req'[p] = req[p]
  BY <1>1, Moved
<1>3. At(q, "insert")
  BY DEF InsertRequest
<1>4. Serial => \A p \in Requests : req'[p].op # "insert"
  <2>1. ASSUME Serial, NEW p \in Requests \ {q} PROVE req'[p].op # "insert"
    BY <1>2, <1>3, <2>1 DEF Alone, At
  <2>2. req'[q].op # "insert"
    BY DEF InsertRequest, Become, Idle, TypedRequests
  <2> QED BY <2>1, <2>2
<1>5. SearchedInVain'
  BY <1>1, <1>4 DEF SearchedInVain, Serial, Fault
<1>6. CASE UNCHANGED rows
  BY <1>1, <1>5, <1>6 DEF Counted, OneRequestPerCall, Fault
<1>7. CASE ~UNCHANGED rows
  <2> DEFINE row == [call |-> req[q].call, made |-> "complete", booking |-> req[q].booking,
                     phone |-> req[q].phone, ref |-> None]
  <2>1. Unused # {} /\ rows' = [rows EXCEPT ![NewRow] = row]
    BY <1>7 DEF InsertRequest
  <2>2. row \in Row
    BY <1>3, ConversationParts DEF At, TypedRequests, Row
  <2>3. row.call = req[q].call
    OBVIOUS
  <2> HIDE DEF row
  <2>4. /\ NewRow \in Rows /\ rows[NewRow] = None /\ rows'[NewRow] = row
        /\ \A r \in Rows \ {NewRow} : rows'[r] = rows[r]
    BY <2>1, <2>2, RowInserted
  <2>5. Serial => \A r \in Rows : rows[r] # None => rows[r].call # row.call
    BY <1>3, <2>3 DEF Counted, SearchedInVain, At
  <2>6. OneRequestPerCall'
    BY <1>1, <2>4, <2>5 DEF Counted, OneRequestPerCall, Serial, Fault
  <2> QED BY <1>5, <2>6 DEF Counted
<1> QED BY <1>6, <1>7

LEMMA CreateCounted ==
  ASSUME Sound, Counted, NEW q \in Requests, CreateRequest(q)
  PROVE  Counted'
<1> USE DEF Sound, Typed
<1>1. Moves(q, ConversationOps) /\ env' = env
  BY ConversationMoves, RowTypes DEF ConversationAsked
<1>2. \A p \in Requests \ {q} : req'[p] = req[p]
  BY <1>1, Moved
<1>3. Serial => \A p \in Requests : req'[p].op # "insert"
  <2>1. Free(q)
    BY DEF CreateRequest
  <2>2. ASSUME Serial, NEW p \in Requests \ {q} PROVE req'[p].op # "insert"
    BY <1>2, <2>1, <2>2 DEF Alone, Free, Serial
  <2>3. req'[q].op # "insert"
    BY <2>1, FreeIsIdle DEF CreateRequest, Become, TypedRequests
  <2> QED BY <2>2, <2>3
<1>4. SearchedInVain'
  BY <1>1, <1>3 DEF SearchedInVain, Serial, Fault
<1>5. PICK c \in Calls \union {None}, booking \in BOOLEAN, phone \in BOOLEAN :
        rows' = [rows EXCEPT ![NewRow] = [call |-> c, made |-> "user", booking |-> booking,
                                          phone |-> phone, ref |-> None]]
  BY DEF CreateRequest
<1> DEFINE row == [call |-> c, made |-> "user", booking |-> booking, phone |-> phone,
                   ref |-> None]
<1>6. row \in Row /\ row.made = "user"
  BY DEF Row
<1>7. Unused # {} /\ rows' = [rows EXCEPT ![NewRow] = row]
  BY <1>5 DEF CreateRequest
<1> HIDE DEF row
<1>8. /\ NewRow \in Rows /\ rows'[NewRow] = row
      /\ \A r \in Rows \ {NewRow} : rows'[r] = rows[r]
  BY <1>6, <1>7, RowInserted
<1>9. OneRequestPerCall'
  BY <1>1, <1>6, <1>8 DEF Counted, OneRequestPerCall, Fault
<1> QED BY <1>4, <1>9 DEF Counted

LEMMA SearchCounted ==
  ASSUME Sound, Counted, NEW q \in Requests, SearchRequest(q)
  PROVE  Counted'
<1> USE DEF Sound, Typed
<1>1. Moves(q, ConversationOps) /\ env' = env
  BY ConversationMoves, RowTypes DEF ConversationGoesOn
<1>2. (\A p \in Requests \ {q} : req'[p] = req[p]) /\ UNCHANGED rows
  BY <1>1, Moved DEF SearchRequest
<1>3. req'[q].op = "insert" =>
        \A r \in Rows : rows[r] # None => rows[r].call # req'[q].call
  <2>1. req[q] \in AnyRequest /\ req[q].op = "search" /\ Idle.op = "idle"
    BY DEF SearchRequest, At, TypedRequests, Idle
  <2>2. [req[q] EXCEPT !.op = "insert"].call = req[q].call
    BY <2>1, ConversationParts
  <2>3. CASE \E r \in Rows : rows[r] # None /\ rows[r].call = req[q].call
    BY <2>1, <2>3 DEF SearchRequest, Become, TypedRequests
  <2>4. CASE ~\E r \in Rows : rows[r] # None /\ rows[r].call = req[q].call
    BY <2>2, <2>4 DEF SearchRequest, Become, TypedRequests
  <2> QED BY <2>3, <2>4
<1>4. SearchedInVain'
  BY <1>1, <1>2, <1>3 DEF Counted, SearchedInVain, Serial, Fault
<1>5. OneRequestPerCall'
  BY <1>1, <1>2 DEF Counted, OneRequestPerCall, Fault
<1> QED BY <1>4, <1>5 DEF Counted

(* All other steps of conversations.                                       *)
LEMMA OtherAsked ==
  ASSUME Sound, NEW q \in Requests, ConversationAsked(q) \/ ConversationGoesOn(q),
         ~SearchRequest(q), ~InsertRequest(q), ~CreateRequest(q)
  PROVE  /\ RowsKept /\ env' = env
         /\ \A p \in Requests : req'[p].op = "insert" => req'[p] = req[p]
<1> USE DEF Sound, Typed
<1>1. Moves(q, ConversationOps) /\ env' = env
  BY ConversationMoves, ConversationFrame
<1>2. \A p \in Requests \ {q} : req'[p] = req[p]
  BY <1>1, Moved
<1>3. CASE UpdateRequest(q)
  <2>1. PICK r \in Rows : rows[r] # None /\ rows' = [rows EXCEPT ![r].phone = TRUE]
    BY <1>3 DEF UpdateRequest
  <2>2. rows \in [Rows -> Row \union {None}] /\ rows[r] \in Row
    BY <2>1 DEF TypedState, ConversationsTypeOK
  <2>3. /\ [rows[r] EXCEPT !.phone = TRUE].call = rows[r].call
        /\ [rows[r] EXCEPT !.phone = TRUE].made = rows[r].made
    BY <2>2 DEF Row
  <2>4. rows' = [rows EXCEPT ![r] = [rows[r] EXCEPT !.phone = TRUE]]
    BY <2>1
  <2>5. RowsKept
    BY <2>1, <2>2, <2>3, <2>4 DEF RowsKept
  <2> QED BY <1>1, <1>3, <2>5 DEF UpdateRequest
<1>4. CASE \/ AnswerCall(q) \/ TestCall(q) \/ ResolveCall(q) \/ UpdateCall(q) \/ Link(q)
           \/ Unlink(q)
  BY <1>1, <1>4 DEF AnswerCall, TestCall, NewCall, ResolveCall, UpdateCall, OnlyCalls, Link,
     Unlink, taskVars, RowsKept
<1>5. CASE Complete(q) \/ UploadRecording(q)
  <2>1. UNCHANGED rows
    BY <1>5 DEF Complete, UploadRecording, OnlyCalls
  <2>2. UNCHANGED req \/ \E d : d.op \in {"search", "recorded"} /\ Become(q, d)
    <3>1. CASE Complete(q)
      <4>1. PICK c, outcome, booking, phone :
              \/ UNCHANGED req
              \/ Become(q, [op |-> "search", call |-> c, outcome |-> outcome,
                            booking |-> booking, phone |-> phone])
        BY <3>1 DEF Complete
      <4> QED BY <4>1
    <3>2. CASE UploadRecording(q)
      BY <3>2 DEF UploadRecording
    <3> QED BY <1>5, <3>1, <3>2
  <2>3. req'[q] = req[q] \/ req'[q].op # "insert"
    BY <2>2 DEF Become, TypedRequests
  <2> QED BY <1>1, <1>2, <2>1, <2>3 DEF RowsKept
<1>6. CASE QueueSync(q) \/ QueueConfirmation(q) \/ StoreRecording(q)
  <2>1. UNCHANGED rows
    BY <1>6 DEF QueueSync, QueueConfirmation, StoreRecording, OnlyCalls, OnlyQueue,
                conversationVars
  <2>2. Idle.op = "idle" /\ \E d : d.op \in {"idle", "confirm"} /\ Become(q, d)
    BY <1>6 DEF QueueSync, QueueConfirmation, StoreRecording, Idle
  <2>3. req'[q].op # "insert"
    BY <2>2 DEF Become, TypedRequests
  <2> QED BY <1>1, <1>2, <2>1, <2>3 DEF RowsKept
<1> QED BY <1>3, <1>4, <1>5, <1>6 DEF ConversationAsked, ConversationGoesOn

LEMMA TaskRows ==
  ASSUME Sound, NEW w \in Workers, ConversationTask(w)
  PROVE  RowsKept
<1> USE DEF Sound, Typed, TypedState, ConversationsTypeOK
<1>1. CASE ~StoreReference(w)
  BY <1>1 DEF ConversationTask, StartSync, FindCustomer, MakeCustomer, MakeDocument, LogDocument,
     StartConfirmation, SendConfirmation, LogConfirmation, AtErp, conversationVars, RowsKept
<1>2. CASE StoreReference(w)
  <2>1. UNCHANGED rows \/ (rows[Of(w)] # None /\ rows' = [rows EXCEPT ![Of(w)].ref = job[w].saw])
    BY <1>2 DEF StoreReference
  <2>2. Of(w) \in Rows
    BY <1>2, JobParts DEF StoreReference, InJob, Of, TypedJobs
  <2>3. ASSUME rows[Of(w)] # None
        PROVE  /\ [rows[Of(w)] EXCEPT !.ref = job[w].saw].call = rows[Of(w)].call
               /\ [rows[Of(w)] EXCEPT !.ref = job[w].saw].made = rows[Of(w)].made
    BY <2>2, <2>3 DEF Row
  <2>4. ASSUME rows[Of(w)] # None, rows' = [rows EXCEPT ![Of(w)].ref = job[w].saw]
        PROVE  RowsKept
    <3>1. rows' = [rows EXCEPT ![Of(w)] = [rows[Of(w)] EXCEPT !.ref = job[w].saw]]
      BY <2>4
    <3> QED BY <2>2, <2>3, <2>4, <3>1 DEF RowsKept
  <2> QED BY <2>1, <2>4 DEF RowsKept
<1> QED BY <1>1, <1>2

(* The steps that do not add to conversations, and the others.             *)
LEMMA RequestAside ==
  ASSUME Sound, [Next]_backOfficeVars, NEW q \in Requests, Ask(q) \/ Serve(q)
  PROVE  Aside \/ ConversationAsked(q) \/ ConversationGoesOn(q)
<1>1. Deleted => Deleted'
  BY DeletedStays
<1> QED BY <1>1, LibraryAside, AccountAside, CampaignAside, DeletionAside DEF Ask, Serve

LEMMA WorkerAside ==
  ASSUME Sound, [Next]_backOfficeVars, NEW w \in Workers, Work(w)
  PROVE  \/ Aside \/ ConversationTask(w)
         \/ Take(w) /\ job'[w].task \in Errand /\ UNCHANGED <<env, company, req, conversationVars>>
<1>1. Deleted => Deleted'
  BY DeletedStays
<1> QED BY <1>1, WorkAside, TakeAside DEF Work

LEMMA StillAside ==
  ASSUME Sound, UNCHANGED backOfficeVars
  PROVE  Aside
  BY DEF backOfficeVars, taskVars, conversationVars, Aside, Deleted, Kept

LEMMA CountedNext == Sound /\ Counted /\ [Next]_backOfficeVars => Counted'
<1> SUFFICES ASSUME Sound, Counted, [Next]_backOfficeVars PROVE Counted'
  OBVIOUS
<1>1. ASSUME NEW q \in Requests, Ask(q) \/ Serve(q)
      PROVE  Counted'
  <2>1. CASE Aside
    BY <2>1, AsideCounted
  <2>2. CASE ConversationAsked(q) \/ ConversationGoesOn(q)
    BY <2>2, InsertCounted, CreateCounted, SearchCounted, OtherAsked, RowsKeptCounted
  <2> QED BY <1>1, <2>1, <2>2, RequestAside
<1>2. ASSUME NEW w \in Workers, Work(w)
      PROVE  Counted'
  <2>1. env' = env /\ req' = req
    BY <1>2, WorkStep DEF Sound
  <2>2. CASE UNCHANGED conversationVars \/ ConversationTask(w)
    <3>1. RowsKept
      BY <2>2, TaskRows DEF conversationVars, RowsKept
    <3> QED BY <2>1, <3>1, RowsKeptCounted
  <2>3. CASE Aside
    BY <2>3, AsideCounted
  <2> QED BY <1>2, <2>2, <2>3, WorkerAside
<1>3. CASE Elsewhere \/ UNCHANGED backOfficeVars
  BY <1>3, ElsewhereAside, StillAside, AsideCounted
<1>4. CASE Dies
  <2>1. env' = env /\ (\A q \in Requests : req'[q].op # "idle" => req'[q] = req[q])
    BY <1>4, OthersRequest DEF Sound
  <2>2. RowsKept
    BY <1>4 DEF Dies, conversationVars, RowsKept
  <2> QED BY <2>1, <2>2, RowsKeptCounted
<1> QED BY <1>1, <1>2, <1>3, <1>4 DEF Next

(* A call makes at most one request of it, however often it is completed   *)
(* and wherever a completion dies, unless completions overlap              *)
(* (complete_call and create_request_from_completed_call).                 *)
THEOREM OneRequest == Spec => []OneRequestPerCall
<1>1. Init => Counted
  BY DEF Init, TasksInit, ConversationsInit, Counted, SearchedInVain, OneRequestPerCall
<1>2. Counted => OneRequestPerCall
  BY DEF Counted
<1> QED BY <1>1, <1>2, CountedNext, SoundAlways, PTL DEF Spec

-----------------------------------------------------------------------------
(* Filing a request, and confirming it.  The first part holds always: what *)
(* a reference names, and what a job is about to refer to, was made of     *)
(* that row; a job that has yet to log it may have lost its integration.   *)
RefsRight ==
  /\ \A r \in Rows : rows[r] # None /\ rows[r].ref # None => docs[rows[r].ref] = r
  /\ \A w \in Workers : InJob(w, "sync", "log") =>
       job[w].saw = Unlinked \/ (job[w].saw \in Docs /\ docs[job[w].saw] = Of(w))
  /\ \A w \in Workers : InJob(w, "sync", "reference") =>
       job[w].saw \in Docs /\ docs[job[w].saw] = Of(w)

OnRow(w, task, r) == job[w] # None /\ job[w].task = task /\ Of(w) = r
Worked(task, r) == \E w \in Workers : OnRow(w, task, r)
Asks(q, r) == req[q].op \in {"sync", "confirm"} /\ req[q].row = r
AskingSync(r) == \E q \in Requests : req[q].op = "sync" /\ req[q].row = r
AskingConfirm(r) == \E q \in Requests : Asks(q, r)
Unfiled(r) == FiledAs(r) = {}

(* The second where no worker dies: a row waits to be filed in one place   *)
(* at a time, a request, a message or a worker, and so it does to be       *)
(* confirmed.                                                              *)
OneMessageEach ==
  \A m, n \in BagToSet(queue) :
    m.task = n.task /\ m.of = n.of /\ m.task \in Errand => m = n /\ queue[m] = 1

Lone(r) ==
  /\ \A task \in Errand : Pending(task, r) => ~Worked(task, r)
  /\ Pending("sync", r) \/ Worked("sync", r) => ~AskingSync(r)
  /\ Pending("confirm", r) \/ Worked("confirm", r) => ~AskingConfirm(r)
  /\ \A v, w \in Workers, task \in Errand : OnRow(v, task, r) /\ OnRow(w, task, r) => v = w
  /\ \A p, q \in Requests : Asks(p, r) /\ Asks(q, r) => p = q

(* And each try makes one document of it.                                  *)
Made(w) == IF job[w].at \in {"log", "reference"} THEN job[w].tries + 1 ELSE job[w].tries
Rationed(r) ==
  /\ IsFiniteSet(FiledAs(r)) /\ Cardinality(FiledAs(r)) <= Retries + 1
  /\ AskingSync(r) => Unfiled(r)
  /\ \A m \in BagToSet(queue) :
       m.task = "sync" /\ m.of = r => Cardinality(FiledAs(r)) <= m.tries
  /\ \A w \in Workers : OnRow(w, "sync", r) => Cardinality(FiledAs(r)) <= Made(w)

(* The third where nothing fails after the fact: as long as it waits it    *)
(* has no document, and no confirmation went out.                          *)
SyncedOnce(r) ==
  /\ Pending("sync", r) /\ rows[r] # None => Unfiled(r)
  /\ \A w \in Workers : OnRow(w, "sync", r) =>
       /\ job[w].at = "start" /\ rows[r] # None => Unfiled(r)
       /\ job[w].at \in {"find", "customer", "create"} => Unfiled(r)
       /\ job[w].saw # Unlinked
  /\ Cardinality(FiledAs(r)) <= 1

ConfirmedOnce(r) ==
  /\ Pending("confirm", r) /\ rows[r] # None => sent[r] = 0
  /\ AskingConfirm(r) => sent[r] = 0
  /\ \A w \in Workers : OnRow(w, "confirm", r) =>
       /\ job[w].at = "start" /\ rows[r] # None => sent[r] = 0
       /\ job[w].at = "send" => sent[r] = 0
       /\ job[w].saw # Unlinked
  /\ sent[r] <= 1

(* Nothing is left of a row that was never there.                          *)
Untouched(r) ==
  /\ \A task \in Errand : ~Pending(task, r) /\ ~Worked(task, r)
  /\ ~AskingConfirm(r) /\ Unfiled(r) /\ sent[r] = 0

Once(r) ==
  /\ Lone(r) /\ Rationed(r)
  /\ Calm => SyncedOnce(r) /\ ConfirmedOnce(r)
  /\ rows[r] = None /\ ~Deleted => Untouched(r)

Tidy == ~Fault("crash")
Filing == RefsRight /\ (Tidy => OneMessageEach /\ \A r \in Rows : Once(r))

LEMMA SameEnvironment ==
  ASSUME env' = env
  PROVE  /\ Tidy' <=> Tidy
         /\ Calm' <=> Calm
         /\ company' = company => (Deleted' <=> Deleted)
  BY DEF Tidy, Calm, Suffers, Fault, Asked, Deleted

LEMMA CalmMeans ==
  ASSUME Calm
  PROVE  Tidy /\ ~Fault("parallel") /\ ~Fault("lost") /\ ~Fault("database") /\ ~Asked("unlink")
  BY DEF Calm, Tidy, Suffers, Fault

LEMMA CountIsNat ==
  ASSUME NEW r \in Rows, Rationed(r)
  PROVE  Cardinality(FiledAs(r)) \in Nat /\ (Unfiled(r) => Cardinality(FiledAs(r)) = 0)
  BY FS_CardinalityType, FS_EmptySet DEF Rationed, Unfiled

(* A step that adds nothing to a row.                                      *)
Unmoved(r) ==
  /\ \A m \in BagToSet(queue') : m.task \in Errand /\ m.of = r => m \in BagToSet(queue)
  /\ \A w \in Workers :
       job'[w] # None /\ job'[w].task \in Errand /\ job'[w].of = r => job'[w] = job[w]
  /\ \A q \in Requests :
       req'[q].op \in {"sync", "confirm"} /\ req'[q].row = r => req'[q] = req[q]
  /\ \A d \in Docs : docs'[d] = r <=> docs[d] = r
  /\ sent'[r] = sent[r]
  /\ rows'[r] # None => rows[r] # None
  /\ rows'[r] = None /\ ~Deleted' => rows[r] = None /\ ~Deleted

LEMMA UnmovedWaits ==
  ASSUME NEW r \in Rows, Unmoved(r)
  PROVE  /\ \A q \in Requests : Asks(q, r)' => Asks(q, r)
         /\ AskingSync(r)' => AskingSync(r)
         /\ AskingConfirm(r)' => AskingConfirm(r)
         /\ \A task \in Errand : Worked(task, r)' => Worked(task, r)
         /\ \A w \in Workers, task \in Errand :
              OnRow(w, task, r)' => OnRow(w, task, r) /\ job'[w] = job[w]
         /\ \A task \in Errand : Pending(task, r)' => Pending(task, r)
         /\ FiledAs(r)' = FiledAs(r) /\ (Unfiled(r)' <=> Unfiled(r))
<1>1. \A w \in Workers, task \in Errand :
        OnRow(w, task, r)' => OnRow(w, task, r) /\ job'[w] = job[w]
  BY DEF Unmoved, OnRow, Of
<1>2. AskingSync(r)' => AskingSync(r)
  BY DEF Unmoved, AskingSync
<1>3. \A q \in Requests : Asks(q, r)' => Asks(q, r)
  BY DEF Unmoved, Asks
<1>4. AskingConfirm(r)' => AskingConfirm(r)
  BY <1>3 DEF AskingConfirm
<1>5. \A task \in Errand : Worked(task, r)' => Worked(task, r)
  BY <1>1 DEF Worked
<1>6. FiledAs(r)' = FiledAs(r)
  BY DEF Unmoved, FiledAs
<1>7. \A task \in Errand : Pending(task, r)' => Pending(task, r)
  BY DEF Unmoved, Pending
<1> QED BY <1>1, <1>2, <1>3, <1>4, <1>5, <1>6, <1>7 DEF Unfiled

LEMMA UnmovedKeeps ==
  ASSUME NEW r \in Rows, Once(r), Unmoved(r), env' = env
  PROVE  Once(r)'
<1> USE UnmovedWaits DEF Once, Errand
<1>1. Lone(r)'
  BY DEF Lone
<1>2. Rationed(r)'
  <2>1. \A m \in BagToSet(queue') :
          m.task = "sync" /\ m.of = r => m \in BagToSet(queue)
    BY DEF Unmoved
  <2>2. \A w \in Workers : OnRow(w, "sync", r)' => OnRow(w, "sync", r) /\ Made(w)' = Made(w)
    BY DEF Made
  <2> QED BY <2>1, <2>2 DEF Rationed
<1>3. SyncedOnce(r) => SyncedOnce(r)'
  BY DEF SyncedOnce, Unmoved
<1>4. ConfirmedOnce(r) => ConfirmedOnce(r)'
  BY DEF ConfirmedOnce, Unmoved
<1>5. rows'[r] = None /\ ~Deleted' => Untouched(r)'
  BY DEF Untouched, Unmoved
<1> QED BY <1>1, <1>2, <1>3, <1>4, <1>5, SameEnvironment

(* What waits at the broker.                                               *)
LEMMA KeptOnce ==
  ASSUME \A n : n.task \in Errand => Kept(n)
  PROVE  /\ OneMessageEach => OneMessageEach'
         /\ \A m \in BagToSet(queue') : m.task \in Errand => m \in BagToSet(queue)
  BY DEF OneMessageEach, Kept

LEMMA QueuedOnce ==
  ASSUME TypedQueue, NEW m, Queue(m), OneMessageEach, ~Pending(m.task, m.of)
  PROVE  /\ OneMessageEach'
         /\ \A n \in BagToSet(queue') : n = m \/ n \in BagToSet(queue)
<1>1. \A n : n # m => Kept(n)
  BY QueueKept
<1>2. m \notin BagToSet(queue)
  BY DEF Pending
<1>3. queue'[m] = 1
  <2>1. queue' = queue (+) SetToBag({m})
    BY DEF Queue
  <2>2. (queue (+) SetToBag({m}))[m] = 1
    BY <1>2 DEF TypedQueue, IsABag, BagToSet, (+), SetToBag
  <2> QED BY <2>1, <2>2
<1>4. \A n \in BagToSet(queue') : n # m => n.task # m.task \/ n.of # m.of
  BY <1>1 DEF Kept, Pending
<1>5. ASSUME NEW n \in BagToSet(queue'), NEW k \in BagToSet(queue'),
             n.task = k.task, n.of = k.of, n.task \in Errand
      PROVE  n = k /\ queue'[n] = 1
  <2>1. CASE n = m
    BY <1>3, <1>4, <1>5, <2>1
  <2>2. CASE n # m
    <3>1. k # m
      BY <1>4, <1>5, <2>2
    <3>2. /\ n \in BagToSet(queue) /\ queue'[n] = queue[n]
          /\ k \in BagToSet(queue)
      BY <1>1, <2>2, <3>1 DEF Kept
    <3> QED BY <1>5, <3>2 DEF OneMessageEach
  <2> QED BY <2>1, <2>2
<1>6. OneMessageEach'
  BY <1>5 DEF OneMessageEach
<1> QED BY <1>1, <1>6 DEF Kept

LEMMA TakenOnce ==
  ASSUME TypedQueue, NEW m \in BagToSet(queue), queue' = queue (-) SetToBag({m}),
         m.task \in Errand, OneMessageEach
  PROVE  /\ OneMessageEach' /\ Pending(m.task, m.of) /\ ~Pending(m.task, m.of)'
         /\ \A n \in BagToSet(queue') : n \in BagToSet(queue)
<1>1. queue[m] = 1
  BY DEF OneMessageEach
<1>2. \A n : n # m => Kept(n)
  BY TakenKept
<1>3. m \notin BagToSet(queue')
  BY <1>1, TakenKept
<1>4. \A n : n.task \in Errand => Kept(n)
  BY <1>2, <1>3 DEF Kept
<1>5. ~Pending(m.task, m.of)'
  <2>1. ASSUME NEW n \in BagToSet(queue'), n.task = m.task, n.of = m.of PROVE FALSE
    <3>1. n \in BagToSet(queue)
      BY <1>4, <2>1 DEF Kept
    <3> QED BY <1>3, <2>1, <3>1 DEF OneMessageEach
  <2> QED BY <2>1 DEF Pending
<1>6. \A n \in BagToSet(queue') : n \in BagToSet(queue)
  BY <1>2, <1>3 DEF Kept
<1> QED BY <1>4, <1>5, <1>6, KeptOnce DEF Pending

-----------------------------------------------------------------------------
(* What a step adds nothing to stays filed as it was.                      *)
LEMMA AsideFiling ==
  ASSUME Sound, Filing, Aside
  PROVE  Filing'
<1>0. env' = env /\ (Tidy' <=> Tidy)
  BY SameEnvironment DEF Aside
<1>1. RefsRight'
  BY DEF Aside, Filing, RefsRight, InJob, Errand, Of
<1>2. ASSUME Tidy PROVE OneMessageEach'
  BY <1>2, KeptOnce DEF Aside, Filing
<1>3. ASSUME Tidy, NEW r \in Rows PROVE Once(r)'
  <2>1. Unmoved(r)
    <3>1. \A m \in BagToSet(queue') : m.task \in Errand /\ m.of = r => m \in BagToSet(queue)
      BY KeptOnce DEF Aside
    <3>2. \A q \in Requests :
            req'[q].op \in {"sync", "confirm"} /\ req'[q].row = r => req'[q] = req[q]
      BY DEF Aside, ConversationOps
    <3>3. rows'[r] = None /\ ~Deleted' => rows[r] = None /\ ~Deleted
      BY DEF Aside
    <3>4. rows'[r] # None => rows[r] # None
      BY DEF Aside
    <3> QED BY <3>1, <3>2, <3>3, <3>4 DEF Aside, Unmoved
  <2> QED BY <1>0, <1>3, <2>1, UnmovedKeeps DEF Filing
<1> QED BY <1>0, <1>1, <1>2, <1>3 DEF Filing

Outside == <<env, company, queue, job, docs, sent, customers>>

LEMMA StillFiling ==
  ASSUME Sound, Filing, UNCHANGED Outside,
         \A p \in Requests : req'[p].op \in {"sync", "confirm"} => req'[p] = req[p],
         \A r \in Rows : /\ rows'[r] = None <=> rows[r] = None
                         /\ rows'[r] # None => rows'[r].ref = rows[r].ref
  PROVE  Filing'
<1> USE DEF Outside
<1>1. Tidy' <=> Tidy
  BY SameEnvironment
<1>2. RefsRight'
  BY DEF Filing, RefsRight, InJob, Of
<1>3. OneMessageEach => OneMessageEach'
  BY DEF OneMessageEach
<1>4. ASSUME NEW r \in Rows PROVE Unmoved(r)
  BY DEF Unmoved, Deleted
<1> QED BY <1>1, <1>2, <1>3, <1>4, UnmovedKeeps DEF Filing

LEMMA AddFiling ==
  ASSUME Sound, Filing, UNCHANGED Outside, company # None, NEW q \in Requests,
         Unused # {}, NEW row \in Row, row.ref = None, rows' = [rows EXCEPT ![NewRow] = row],
         \A p \in Requests \ {q} : req'[p] = req[p],
         req'[q].op \in {"sync", "confirm"} => req'[q].row = NewRow
  PROVE  Filing'
<1> USE DEF Outside
<1>0. PICK r \in Rows :
        /\ r = NewRow /\ rows[r] = None /\ rows'[r] = row /\ row # None
        /\ \A s \in Rows \ {r} : rows'[s] = rows[s]
  BY RowInserted
<1>1. (Tidy' <=> Tidy) /\ (Calm' <=> Calm) /\ ~Deleted /\ ~Deleted'
  BY SameEnvironment DEF Deleted
<1>2. RefsRight'
  BY <1>0 DEF Filing, RefsRight, InJob, Of
<1>3. OneMessageEach => OneMessageEach'
  BY DEF OneMessageEach
<1>4. ASSUME Tidy, NEW s \in Rows \ {r} PROVE Once(s)'
  <2>1. \A p \in Requests :
          req'[p].op \in {"sync", "confirm"} /\ req'[p].row = s => req'[p] = req[p]
    BY <1>0
  <2>2. Unmoved(s)
    BY <1>0, <1>1, <2>1 DEF Unmoved
  <2> QED BY <1>4, <2>2, UnmovedKeeps DEF Filing
<1>5. ASSUME Tidy PROVE Once(r)'
  <2>1. rows[r] = None /\ rows'[r] # None
    BY <1>0
  <2>2. Once(r) /\ Untouched(r)
    BY <1>1, <1>5, <2>1 DEF Filing, Once
  <2>3. \A task \in Errand : ~Pending(task, r)' /\ ~Worked(task, r)'
    BY <2>2 DEF Untouched, Pending, Worked, OnRow, Of
  <2>4. \A w \in Workers, task \in Errand : ~OnRow(w, task, r)'
    BY <2>3 DEF Worked
  <2>5. FiledAs(r)' = {} /\ Unfiled(r)' /\ sent'[r] = 0
    BY <2>2 DEF Untouched, Unfiled, FiledAs
  <2>6. \A p \in Requests \ {q} : ~Asks(p, r)'
    BY <2>2 DEF Untouched, AskingConfirm, Asks
  <2>7. Lone(r)'
    BY <2>3, <2>4, <2>6 DEF Lone, Errand
  <2>8. \A m \in BagToSet(queue') : ~(m.task = "sync" /\ m.of = r)
    BY <2>3 DEF Errand, Pending
  <2>9. Rationed(r)'
    BY <2>4, <2>5, <2>8, FS_EmptySet, TasksAssumption DEF Rationed, Errand
  <2>10. SyncedOnce(r)'
    BY <2>4, <2>5, FS_EmptySet DEF SyncedOnce, Errand
  <2>11. ConfirmedOnce(r)'
    BY <2>4, <2>5 DEF ConfirmedOnce, Errand
  <2> QED BY <2>1, <2>7, <2>9, <2>10, <2>11 DEF Once
<1> QED BY <1>1, <1>2, <1>3, <1>4, <1>5 DEF Filing

LEMMA InsertFiling ==
  ASSUME Sound, Filing, NEW q \in Requests, InsertRequest(q)
  PROVE  Filing'
<1> USE DEF Sound, Typed
<1>1. Moves(q, ConversationOps)
  BY ConversationMoves DEF ConversationGoesOn
<1>2. \A p \in Requests \ {q} : req'[p] = req[p]
  BY <1>1, Moved
<1>3. UNCHANGED Outside
  BY DEF InsertRequest, OnlyRows, Outside
<1>4. CASE Become(q, Idle) /\ UNCHANGED rows
  <2>1. req'[q] = Idle /\ Idle.op = "idle"
    BY <1>4 DEF Become, TypedRequests, Idle
  <2> QED BY <1>2, <1>3, <1>4, <2>1, StillFiling
<1>5. CASE ~(Become(q, Idle) /\ UNCHANGED rows)
  <2> DEFINE row == [call |-> req[q].call, made |-> "complete", booking |-> req[q].booking,
                     phone |-> req[q].phone, ref |-> None]
  <2>1. /\ Unused # {} /\ rows' = [rows EXCEPT ![NewRow] = row]
        /\ calls[req[q].call] # None
        /\ Become(q, [op |-> "sync", row |-> NewRow, outcome |-> req[q].outcome])
    BY <1>5 DEF InsertRequest
  <2>2. row \in Row /\ row.ref = None
    BY ConversationParts DEF InsertRequest, At, TypedRequests, Row
  <2> HIDE DEF row
  <2>3. company # None
    <3>1. req[q].call \in Calls
      BY ConversationParts DEF InsertRequest, At, TypedRequests
    <3> QED BY <2>1, <3>1 DEF Cleared
  <2>4. req'[q].row = NewRow
    BY <2>1 DEF Become, TypedRequests
  <2> QED BY <1>2, <1>3, <2>1, <2>2, <2>3, <2>4, AddFiling
<1> QED BY <1>4, <1>5

LEMMA CreateFiling ==
  ASSUME Sound, Filing, NEW q \in Requests, CreateRequest(q)
  PROVE  Filing'
<1> USE DEF Sound, Typed
<1>1. Moves(q, ConversationOps)
  BY ConversationMoves DEF ConversationAsked
<1>2. \A p \in Requests \ {q} : req'[p] = req[p]
  BY <1>1, Moved
<1>3. UNCHANGED Outside /\ company # None /\ Unused # {} /\ Free(q)
  BY DEF CreateRequest, OnlyRows, Outside
<1>4. PICK c \in Calls \union {None}, booking \in BOOLEAN, phone \in BOOLEAN :
        /\ rows' = [rows EXCEPT ![NewRow] = [call |-> c, made |-> "user", booking |-> booking,
                                             phone |-> phone, ref |-> None]]
        /\ Become(q, [op |-> "confirm", row |-> NewRow]) \/ UNCHANGED req
  BY DEF CreateRequest
<1> DEFINE row == [call |-> c, made |-> "user", booking |-> booking, phone |-> phone,
                   ref |-> None]
<1>5. row \in Row /\ row.ref = None
  BY DEF Row
<1>6. rows' = [rows EXCEPT ![NewRow] = row]
  BY <1>4
<1> HIDE DEF row
<1>7. req'[q].op \in {"sync", "confirm"} => req'[q].row = NewRow
  BY <1>3, <1>4, FreeIsIdle DEF Become, TypedRequests
<1> QED BY <1>2, <1>3, <1>5, <1>6, <1>7, AddFiling

LEMMA QuietFiling ==
  ASSUME Sound, Filing, NEW q \in Requests, ConversationAsked(q) \/ ConversationGoesOn(q),
         ~InsertRequest(q), ~CreateRequest(q), ~QueueSync(q), ~QueueConfirmation(q), ~Unlink(q)
  PROVE  Filing'
<1> USE DEF Sound, Typed
<1>1. Moves(q, ConversationOps)
  BY ConversationMoves
<1>2. \A p \in Requests \ {q} : req'[p] = req[p]
  BY <1>1, Moved
<1>3. req'[q].op \in {"sync", "confirm"} => req'[q] = req[q]
  <2>1. CASE \/ AnswerCall(q) \/ TestCall(q) \/ ResolveCall(q) \/ UpdateCall(q) \/ Link(q)
             \/ UpdateRequest(q)
    BY <2>1 DEF AnswerCall, TestCall, NewCall, ResolveCall, UpdateCall, Link, UpdateRequest,
       taskVars
  <2>2. CASE Complete(q)
    <3>1. PICK c, outcome, booking, phone :
            \/ UNCHANGED req
            \/ Become(q, [op |-> "search", call |-> c, outcome |-> outcome,
                          booking |-> booking, phone |-> phone])
      BY <2>2 DEF Complete
    <3> QED BY <3>1 DEF Become, TypedRequests
  <2>3. CASE UploadRecording(q)
    BY <2>3 DEF UploadRecording, Become, TypedRequests
  <2>4. CASE SearchRequest(q)
    <3>1. req[q] \in AnyRequest /\ req[q].op = "search"
      BY <2>4 DEF SearchRequest, At, TypedRequests
    <3>2. [req[q] EXCEPT !.op = "insert"].op = "insert"
      BY <3>1, ConversationParts
    <3> QED BY <2>4, <3>2 DEF SearchRequest, Become, TypedRequests, Idle
  <2>5. CASE StoreRecording(q)
    BY <2>5 DEF StoreRecording, Become, TypedRequests, Idle
  <2> QED BY <2>1, <2>2, <2>3, <2>4, <2>5 DEF ConversationAsked, ConversationGoesOn
<1>4. UNCHANGED Outside
  BY DEF ConversationAsked, ConversationGoesOn, AnswerCall, TestCall, NewCall, ResolveCall,
     UpdateCall, Complete, OnlyCalls, UpdateRequest, SearchRequest, OnlyRows, UploadRecording,
     Link, taskVars, StoreRecording, Outside
<1>5. \A r \in Rows : /\ rows'[r] = None <=> rows[r] = None
                      /\ rows'[r] # None => rows'[r].ref = rows[r].ref
  <2>1. CASE UpdateRequest(q)
    <3>1. PICK r \in Rows : rows[r] # None /\ rows' = [rows EXCEPT ![r].phone = TRUE]
      BY <2>1 DEF UpdateRequest
    <3>2. rows \in [Rows -> Row \union {None}] /\ rows[r] \in Row
      BY <3>1 DEF TypedState, ConversationsTypeOK
    <3>3. /\ [rows[r] EXCEPT !.phone = TRUE].ref = rows[r].ref
          /\ [rows[r] EXCEPT !.phone = TRUE] \in Row
      BY <3>2, RowUpdates DEF Row
    <3>4. rows' = [rows EXCEPT ![r] = [rows[r] EXCEPT !.phone = TRUE]]
      BY <3>1
    <3>5. [rows[r] EXCEPT !.phone = TRUE] # None
      BY <3>3, ConversationsAssumption
    <3> QED BY <3>1, <3>2, <3>3, <3>4, <3>5
  <2>2. CASE ~UpdateRequest(q)
    BY <2>2 DEF ConversationAsked, ConversationGoesOn, AnswerCall, TestCall, NewCall,
       ResolveCall, UpdateCall, Complete, OnlyCalls, SearchRequest, UploadRecording,
       Link, StoreRecording
  <2> QED BY <2>1, <2>2
<1> QED BY <1>2, <1>3, <1>4, <1>5, StillFiling

(* An integration is deleted: jobs are where they were, and no environment *)
(* where this happens is calm.                                             *)
LEMMA UnlinkFiling ==
  ASSUME Sound, Filing, NEW q \in Requests, Unlink(q)
  PROVE  Filing'
<1> USE DEF Sound, Typed
<1>1. PICK holders \in SUBSET Loaded :
        job' = [w \in Workers |-> IF w \in holders THEN [job[w] EXCEPT !.saw = Unlinked]
                                                   ELSE job[w]]
  BY DEF Unlink
<1>2. ASSUME NEW w \in Workers, job'[w] # None
      PROVE  /\ job[w] # None /\ job'[w].task = job[w].task /\ job'[w].of = job[w].of
             /\ job'[w].tries = job[w].tries /\ job'[w].at = job[w].at
             /\ job'[w].saw = Unlinked \/ job'[w].saw = job[w].saw
             /\ job[w].at = "reference" => job'[w].saw = job[w].saw
  <2>1. CASE w \in holders
    <3>1. job[w] \in AnyJob /\ job[w] # None /\ job[w].at # "reference"
      BY <2>1 DEF Loaded, Jobs, TypedJobs
    <3>2. DEFINE j == [job[w] EXCEPT !.saw = Unlinked]
    <3>3. /\ j.task = job[w].task /\ j.of = job[w].of /\ j.tries = job[w].tries
          /\ j.at = job[w].at /\ j.saw = Unlinked
      BY <3>1 DEF AnyJob
    <3> QED BY <1>1, <2>1, <3>1, <3>3
  <2>2. CASE w \notin holders
    BY <1>1, <1>2, <2>2
  <2> QED BY <2>1, <2>2
<1>3. UNCHANGED <<env, company, req, queue, docs, rows, sent>>
  BY DEF Unlink
<1>4. (Tidy' <=> Tidy) /\ ~Calm' /\ (Deleted' <=> Deleted)
  BY <1>3, SameEnvironment, CalmMeans DEF Unlink
<1>5. RefsRight'
  BY <1>2, <1>3 DEF Filing, RefsRight, InJob, Of
<1>6. ASSUME Tidy, NEW r \in Rows PROVE Once(r)'
  <2>1. Once(r)
    BY <1>6 DEF Filing
  <2>2. \A w \in Workers, task \in Errand :
          OnRow(w, task, r)' => OnRow(w, task, r) /\ Made(w)' = Made(w)
    BY <1>2 DEF OnRow, Of, Made
  <2>3. \A task \in Errand : /\ Worked(task, r)' => Worked(task, r)
                             /\ Pending(task, r)' <=> Pending(task, r)
    BY <1>3, <2>2 DEF Worked, Pending
  <2>4. /\ \A p \in Requests : Asks(p, r)' <=> Asks(p, r)
        /\ AskingSync(r)' <=> AskingSync(r)
        /\ AskingConfirm(r)' <=> AskingConfirm(r)
        /\ FiledAs(r)' = FiledAs(r) /\ (Unfiled(r)' <=> Unfiled(r))
    BY <1>3 DEF Asks, AskingSync, AskingConfirm, FiledAs, Unfiled
  <2>5. Lone(r)'
    BY <2>1, <2>2, <2>3, <2>4 DEF Once, Lone, Errand
  <2>6. Rationed(r)'
    BY <1>3, <2>1, <2>2, <2>4 DEF Once, Rationed, Errand
  <2>7. rows'[r] = None /\ ~Deleted' => Untouched(r)'
    BY <1>3, <1>4, <2>1, <2>3, <2>4 DEF Once, Untouched
  <2> QED BY <1>4, <2>5, <2>6, <2>7 DEF Once
<1> QED BY <1>3, <1>4, <1>5, <1>6 DEF Filing, OneMessageEach

(* Queuing: what a request has to queue is queued nowhere yet.             *)
LEMMA PublishedOnce ==
  ASSUME TypedQueue, OneMessageEach, NEW task \in Errand, NEW r \in Rows, Publish(task, r),
         ~Pending(task, r)
  PROVE  /\ OneMessageEach'
         /\ \A n \in BagToSet(queue') : n = Message(task, r) \/ n \in BagToSet(queue)
<1>1. CASE UNCHANGED queue
  BY <1>1 DEF OneMessageEach
<1>2. CASE Queue(Message(task, r))
  <2>1. Message(task, r).task = task /\ Message(task, r).of = r
    BY DEF Message
  <2> QED BY <1>2, <2>1, QueuedOnce
<1> QED BY <1>1, <1>2 DEF Publish

LEMMA QueueFiling ==
  ASSUME Sound, Filing, NEW q \in Requests, QueueSync(q) \/ QueueConfirmation(q)
  PROVE  Filing'
<1> USE DEF Sound, Typed
<1>1. PICK r \in Rows : r = req[q].row
  BY ConversationParts DEF QueueSync, QueueConfirmation, At, TypedRequests
<1>2. \A p \in Requests \ {q} : req'[p] = req[p]
  BY ConversationMoves, Moved DEF ConversationGoesOn
<1>3. UNCHANGED <<env, company, job, rows, docs, sent>>
  BY DEF QueueSync, QueueConfirmation, OnlyQueue, conversationVars
<1>4. req[q].op \in {"sync", "confirm"}
  BY DEF QueueSync, QueueConfirmation, At
<1>5. req'[q].op = "idle" \/ (QueueSync(q) /\ req'[q].op = "confirm" /\ req'[q].row = r)
  BY <1>1 DEF QueueSync, QueueConfirmation, Become, Idle, TypedRequests
<1>6. (Tidy' <=> Tidy) /\ (Calm' <=> Calm) /\ (Deleted' <=> Deleted)
  BY <1>3, SameEnvironment
<1>7. RefsRight'
  BY <1>3 DEF Filing, RefsRight, InJob, Of
<1>8. ASSUME Tidy
      PROVE  OneMessageEach' /\ \A s \in Rows : Once(s)'
  <2>1. OneMessageEach /\ Once(r)
    BY <1>8 DEF Filing
  <2>2. /\ Asks(q, r) /\ AskingConfirm(r) /\ (QueueSync(q) => AskingSync(r))
        /\ QueueConfirmation(q) => ~QueueSync(q)
    BY <1>1, <1>4 DEF Asks, AskingConfirm, AskingSync, QueueSync, QueueConfirmation, At
  <2>3. /\ ~Pending("confirm", r) /\ ~Worked("confirm", r) /\ (Calm => sent[r] = 0)
        /\ ~(rows[r] = None /\ ~Deleted)
        /\ QueueSync(q) => ~Pending("sync", r) /\ ~Worked("sync", r) /\ Unfiled(r)
    BY <2>1, <2>2 DEF Once, Lone, Rationed, ConfirmedOnce, Untouched
  <2>4. PICK task \in Errand : Publish(task, r) /\ ~Pending(task, r)
                               /\ (QueueConfirmation(q) => task = "confirm")
                               /\ (QueueSync(q) => task = "sync")
    BY <1>1, <2>3 DEF QueueSync, QueueConfirmation, At, Errand
  <2>5. /\ OneMessageEach'
        /\ \A n \in BagToSet(queue') : n = Message(task, r) \/ n \in BagToSet(queue)
    BY <2>1, <2>4, PublishedOnce
  <2>6. /\ Message(task, r).task = task /\ Message(task, r).of = r
        /\ Message(task, r).tries = 0
    BY DEF Message
  <2>7. ASSUME NEW s \in Rows \ {r} PROVE Once(s)'
    <3>1. Unmoved(s)
      BY <1>1, <1>2, <1>3, <1>5, <1>6, <2>5, <2>6 DEF Unmoved
    <3> QED BY <1>3, <1>8, <3>1, UnmovedKeeps DEF Filing
  <2>8. \A p \in Requests \ {q} : ~Asks(p, r)'
    BY <1>2, <2>1, <2>2 DEF Once, Lone, Asks
  <2>9. ~AskingSync(r)' /\ (QueueConfirmation(q) => ~AskingConfirm(r)')
    BY <1>5, <2>2, <2>8 DEF AskingSync, AskingConfirm, Asks
  <2>10. \A t \in Errand : /\ Worked(t, r)' <=> Worked(t, r)
                           /\ Pending(t, r)' => Pending(t, r) \/ t = task
                           /\ \A w \in Workers : /\ OnRow(w, t, r)' <=> OnRow(w, t, r)
                                                  /\ Made(w)' = Made(w)
    BY <1>3, <2>5, <2>6 DEF Worked, OnRow, Of, Made, Pending
  <2>11. FiledAs(r)' = FiledAs(r) /\ (Unfiled(r)' <=> Unfiled(r))
    BY <1>3 DEF FiledAs, Unfiled
  <2>12. Lone(r)'
    <3>1. \A t \in Errand : Pending(t, r)' => ~Worked(t, r)'
      BY <2>1, <2>3, <2>4, <2>10 DEF Once, Lone, Errand
    <3>2. Pending("confirm", r)' => ~AskingConfirm(r)'
      BY <2>3, <2>4, <2>9, <2>10 DEF Errand
    <3>3. ~Worked("confirm", r)'
      BY <2>3, <2>10 DEF Errand
    <3> QED BY <2>1, <2>8, <2>9, <2>10, <3>1, <3>2, <3>3 DEF Once, Lone
  <2>13. Rationed(r)'
    <3>1. ASSUME NEW m \in BagToSet(queue'), m.task = "sync", m.of = r
          PROVE  Cardinality(FiledAs(r)) <= m.tries
      <4>1. CASE m \in BagToSet(queue)
        BY <2>1, <3>1, <4>1 DEF Once, Rationed
      <4>2. CASE m = Message(task, r)
        <5>1. Unfiled(r) /\ m.tries = 0
          BY <2>3, <2>4, <2>6, <3>1, <4>2 DEF Errand
        <5> QED BY <5>1, FS_EmptySet DEF Unfiled
      <4> QED BY <2>5, <4>1, <4>2
    <3> QED BY <2>1, <2>9, <2>10, <2>11, <3>1 DEF Once, Rationed, Errand
  <2>14. ASSUME Calm PROVE SyncedOnce(r)'
    <3>1. Pending("sync", r)' => Pending("sync", r) \/ Unfiled(r)
      BY <2>3, <2>4, <2>10 DEF Errand
    <3>2. \A w \in Workers : OnRow(w, "sync", r)' => OnRow(w, "sync", r)
      BY <2>10 DEF Errand
    <3> QED BY <1>3, <2>1, <2>11, <2>14, <3>1, <3>2 DEF Once, SyncedOnce
  <2>15. ASSUME Calm PROVE ConfirmedOnce(r)'
    <3>1. \A w \in Workers : ~OnRow(w, "confirm", r)'
      BY <2>3, <2>10 DEF Worked, Errand
    <3> QED BY <1>3, <2>3, <2>15, <3>1 DEF ConfirmedOnce
  <2>16. Once(r)'
    BY <1>3, <1>6, <2>3, <2>12, <2>13, <2>14, <2>15 DEF Once
  <2> QED BY <2>5, <2>7, <2>16
<1> QED BY <1>6, <1>7, <1>8 DEF Filing

-----------------------------------------------------------------------------
(* Taking a task that is about a row.                                      *)
LEMMA TakeFiling ==
  ASSUME Sound, Filing, NEW w \in Workers, Take(w), job'[w].task \in Errand,
         UNCHANGED <<env, company, req, conversationVars>>
  PROVE  Filing'
<1> USE DEF Sound, Typed, conversationVars
<1>1. PICK m \in BagToSet(queue) :
        /\ queue' = queue (-) SetToBag({m})
        /\ job' = [job EXCEPT ![w] = [task |-> m.task, of |-> m.of, tries |-> m.tries,
                                      at |-> "start", saw |-> None]]
  BY DEF Take
<1>2. PICK task \in Errand, r \in Rows : task = m.task /\ r = m.of
  <2>1. m \in Task /\ m.task \in Errand
    BY <1>1 DEF TypedQueue, TypedJobs
  <2> QED BY <2>1 DEF Task, Errand
<1>3. /\ job'[w].task = task /\ job'[w].of = r /\ job'[w].at = "start"
      /\ job'[w].tries = m.tries /\ job'[w].saw = None
      /\ job[w] = None /\ \A v \in Workers \ {w} : job'[v] = job[v]
  BY <1>1, <1>2 DEF TypedJobs, Take
<1>4. (Tidy' <=> Tidy) /\ (Calm' <=> Calm) /\ (Deleted' <=> Deleted)
  BY SameEnvironment
<1>5. RefsRight'
  BY <1>3 DEF Filing, RefsRight, InJob, Of
<1>6. ASSUME Tidy
      PROVE  OneMessageEach' /\ \A s \in Rows : Once(s)'
  <2>1. /\ OneMessageEach' /\ Pending(task, r) /\ ~Pending(task, r)'
        /\ \A n \in BagToSet(queue') : n \in BagToSet(queue)
    BY <1>1, <1>2, <1>6, TakenOnce DEF Filing
  <2>2. ASSUME NEW s \in Rows \ {r} PROVE Once(s)'
    <3>1. Unmoved(s)
      BY <1>3, <1>4, <2>1 DEF Unmoved
    <3> QED BY <1>6, <3>1, UnmovedKeeps DEF Filing
  <2>3. Once(r) /\ ~(rows[r] = None /\ ~Deleted)
    BY <1>6, <2>1 DEF Filing, Once, Untouched
  <2>4. \A t \in Errand, v \in Workers : OnRow(v, t, r)' =>
          \/ v = w /\ t = task
          \/ v # w /\ OnRow(v, t, r) /\ job'[v] = job[v]
    BY <1>3 DEF OnRow, Of
  <2>5. /\ ~Worked(task, r) /\ (task = "sync" => ~AskingSync(r))
        /\ task = "confirm" => ~AskingConfirm(r)
    BY <2>1, <2>3 DEF Once, Lone
  <2>6. \A t \in Errand : /\ Worked(t, r)' => t = task \/ Worked(t, r)
                          /\ Pending(t, r)' => Pending(t, r)
    BY <2>1, <2>4 DEF Worked, Pending
  <2>7. /\ (AskingSync(r)' <=> AskingSync(r)) /\ (AskingConfirm(r)' <=> AskingConfirm(r))
        /\ \A p \in Requests : Asks(p, r)' <=> Asks(p, r)
        /\ FiledAs(r)' = FiledAs(r) /\ (Unfiled(r)' <=> Unfiled(r))
    BY DEF AskingSync, AskingConfirm, Asks, FiledAs, Unfiled
  <2>8. Lone(r)'
    <3>1. \A v, u \in Workers, t \in Errand : OnRow(v, t, r)' /\ OnRow(u, t, r)' => v = u
      BY <2>3, <2>4, <2>5 DEF Once, Lone, Worked
    <3>2. \A t \in Errand : Pending(t, r)' => ~Worked(t, r)'
      BY <2>1, <2>3, <2>6 DEF Once, Lone
    <3>3. Pending("sync", r)' \/ Worked("sync", r)' => ~AskingSync(r)'
      BY <2>3, <2>5, <2>6, <2>7 DEF Once, Lone, Errand
    <3>4. Pending("confirm", r)' \/ Worked("confirm", r)' => ~AskingConfirm(r)'
      BY <2>3, <2>5, <2>6, <2>7 DEF Once, Lone, Errand
    <3> QED BY <2>3, <2>7, <3>1, <3>2, <3>3, <3>4 DEF Once, Lone
  <2>9. Rationed(r)'
    <3>1. task = "sync" => Cardinality(FiledAs(r)) <= Made(w)'
      BY <1>2, <1>3, <2>3 DEF Once, Rationed, Made
    <3>2. \A v \in Workers : job'[v] = job[v] => Made(v)' = Made(v)
      BY DEF Made
    <3>3. \A v \in Workers : OnRow(v, "sync", r)' => Cardinality(FiledAs(r)) <= Made(v)'
      BY <2>3, <2>4, <3>1, <3>2 DEF Once, Rationed, Errand
    <3> QED BY <2>1, <2>3, <2>7, <3>3 DEF Once, Rationed
  <2>10. ASSUME Calm PROVE SyncedOnce(r)'
    <3>1. \A v \in Workers : OnRow(v, "sync", r)' =>
            \/ v = w /\ task = "sync"
            \/ OnRow(v, "sync", r) /\ job'[v] = job[v]
      BY <2>4 DEF Errand
    <3>2. task = "sync" /\ rows[r] # None => Unfiled(r)
      BY <2>1, <2>3, <2>10 DEF Once, SyncedOnce
    <3>3. Pending("sync", r)' => Pending("sync", r)
      BY <2>6 DEF Errand
    <3> QED BY <1>3, <2>3, <2>7, <2>10, <3>1, <3>2, <3>3, UnlinkedAssumption
            DEF Once, SyncedOnce
  <2>11. ASSUME Calm PROVE ConfirmedOnce(r)'
    <3>1. \A v \in Workers : OnRow(v, "confirm", r)' =>
            \/ v = w /\ task = "confirm"
            \/ OnRow(v, "confirm", r) /\ job'[v] = job[v]
      BY <2>4 DEF Errand
    <3>2. task = "confirm" /\ rows[r] # None => sent[r] = 0
      BY <2>1, <2>3, <2>11 DEF Once, ConfirmedOnce
    <3>3. Pending("confirm", r)' => Pending("confirm", r)
      BY <2>6 DEF Errand
    <3> QED BY <1>3, <2>3, <2>7, <2>11, <3>1, <3>2, <3>3, UnlinkedAssumption
            DEF Once, ConfirmedOnce
  <2>12. Once(r)'
    BY <1>4, <2>3, <2>8, <2>9, <2>10, <2>11 DEF Once
  <2> QED BY <2>1, <2>2, <2>12
<1> QED BY <1>4, <1>5, <1>6 DEF Filing

(* What a worker's step on a row leaves alone.                             *)
Toils(w) ==
  /\ UNCHANGED <<env, company, req>>
  /\ UNCHANGED queue \/ (Queue(Again(w)) /\ job'[w] = None)
  /\ \A v \in Workers \ {w} : job'[v] = job[v]
  /\ job'[w] # None =>
       /\ job'[w].task = job[w].task /\ job'[w].of = job[w].of
       /\ job'[w].tries = job[w].tries /\ job'[w].at # "start"
  /\ \A s \in Rows : rows'[s] = None <=> rows[s] = None
  /\ \A s \in Rows \ {Of(w)} :
       sent'[s] = sent[s] /\ \A d \in Docs : docs'[d] = s <=> docs[d] = s

LEMMA ProceedJob ==
  ASSUME TypedJobs, NEW w \in Workers, job[w] # None, NEW at, Proceed(w, at)
  PROVE  /\ \A v \in Workers \ {w} : job'[v] = job[v]
         /\ job'[w].task = job[w].task /\ job'[w].of = job[w].of /\ job'[w].at = at
         /\ job'[w].saw = job[w].saw /\ job'[w].tries = job[w].tries
<1>1. job[w] \in AnyJob
  BY DEF TypedJobs
<1>2. /\ [job[w] EXCEPT !.at = at].task = job[w].task
      /\ [job[w] EXCEPT !.at = at].of = job[w].of
      /\ [job[w] EXCEPT !.at = at].at = at
      /\ [job[w] EXCEPT !.at = at].saw = job[w].saw
      /\ [job[w] EXCEPT !.at = at].tries = job[w].tries
  BY <1>1 DEF AnyJob
<1>3. job' = [job EXCEPT ![w] = [job[w] EXCEPT !.at = at]]
  BY DEF Proceed
<1> QED BY <1>2, <1>3 DEF TypedJobs

LEMMA EndsJob ==
  ASSUME TypedJobs, NEW w \in Workers, Finish(w) \/ TryAgain(w)
  PROVE  job'[w] = None /\ \A v \in Workers \ {w} : job'[v] = job[v]
  BY DEF Finish, TryAgain, TypedJobs

LEMMA ReferenceParts ==
  ASSUME Sound, NEW w \in Workers, StoreReference(w)
  PROVE  /\ UNCHANGED <<env, company, req, docs, sent, customers>>
         /\ Of(w) \in Rows
         /\ \/ UNCHANGED rows /\ TryAgain(w) /\ (rows[Of(w)] = None \/ Fault("database"))
            \/ /\ Finish(w) /\ rows[Of(w)] # None /\ rows'[Of(w)] # None
               /\ rows'[Of(w)].ref = job[w].saw
               /\ \A r \in Rows \ {Of(w)} : rows'[r] = rows[r]
<1> USE DEF Sound, Typed, TypedState, ConversationsTypeOK
<1>1. Of(w) \in Rows /\ job[w].saw \in Docs \union {None}
  BY JobParts DEF StoreReference, InJob, Of, TypedJobs
<1>2. ASSUME rows[Of(w)] # None, rows' = [rows EXCEPT ![Of(w)].ref = job[w].saw]
      PROVE  /\ rows'[Of(w)] # None /\ rows'[Of(w)].ref = job[w].saw
             /\ \A r \in Rows \ {Of(w)} : rows'[r] = rows[r]
  <2>1. rows[Of(w)] \in Row
    BY <1>1, <1>2
  <2>2. [rows[Of(w)] EXCEPT !.ref = job[w].saw].ref = job[w].saw
    BY <2>1 DEF Row
  <2>3. [rows[Of(w)] EXCEPT !.ref = job[w].saw] # None
    <3>1. [rows[Of(w)] EXCEPT !.ref = job[w].saw] \in Row
      BY <1>1, <2>1 DEF Row
    <3> QED BY <3>1, ConversationsAssumption
  <2>4. rows' = [rows EXCEPT ![Of(w)] = [rows[Of(w)] EXCEPT !.ref = job[w].saw]]
    BY <1>2
  <2> QED BY <1>1, <2>2, <2>3, <2>4
<1> QED BY <1>1, <1>2 DEF StoreReference

LEMMA DocumentMade ==
  ASSUME Sound, NEW w \in Workers, MakeDocument(w)
  PROVE  /\ UNCHANGED <<env, company, req, rows, sent, customers>>
         /\ Of(w) \in Rows
         /\ \/ UNCHANGED docs /\ TryAgain(w)
            \/ \E d \in Docs :
                 /\ docs[d] = None /\ docs' = [docs EXCEPT ![d] = Of(w)]
                 /\ \/ /\ UNCHANGED queue /\ \A v \in Workers \ {w} : job'[v] = job[v]
                       /\ job'[w].task = "sync" /\ job'[w].of = Of(w)
                       /\ job'[w].at = "log" /\ job'[w].tries = job[w].tries
                       /\ job'[w].saw = IF job[w].saw = Unlinked THEN Unlinked ELSE d
                    \/ Fault("lost") /\ TryAgain(w)
<1> USE DEF Sound, Typed
<1>1. Of(w) \in Rows /\ job[w] \in AnyJob /\ job[w].task = "sync"
  BY JobParts DEF MakeDocument, InJob, Of, TypedJobs
<1>2. CASE UNCHANGED docs /\ TryAgain(w)
  BY <1>1, <1>2 DEF MakeDocument, AtErp
<1>3. CASE ~(UNCHANGED docs /\ TryAgain(w))
  <2> DEFINE seen(d) == IF job[w].saw = Unlinked THEN Unlinked ELSE d
  <2>1. PICK d \in Docs :
          /\ docs[d] = None /\ docs' = [docs EXCEPT ![d] = Of(w)]
          /\ \/ /\ job' = [job EXCEPT ![w].at = "log",
                                   ![w].saw = IF @ = Unlinked THEN Unlinked ELSE d]
                /\ UNCHANGED queue
             \/ Fault("lost") /\ TryAgain(w)
    BY <1>3 DEF MakeDocument
  <2>2. ASSUME job' = [job EXCEPT ![w].at = "log",
                                  ![w].saw = IF @ = Unlinked THEN Unlinked ELSE d]
        PROVE  /\ \A v \in Workers \ {w} : job'[v] = job[v]
               /\ job'[w].task = "sync" /\ job'[w].of = Of(w)
               /\ job'[w].at = "log" /\ job'[w].tries = job[w].tries /\ job'[w].saw = seen(d)
    <3> DEFINE j == [job[w] EXCEPT !.at = "log", !.saw = seen(d)]
    <3>1. /\ j.task = "sync" /\ j.of = job[w].of /\ j.at = "log" /\ j.saw = seen(d)
          /\ j.tries = job[w].tries
      BY <1>1 DEF AnyJob
    <3>2. job' = [job EXCEPT ![w] = j]
      BY <1>1, <2>2 DEF AnyJob
    <3> HIDE DEF j, seen
    <3> QED BY <3>1, <3>2 DEF TypedJobs, Of
  <2> QED BY <1>1, <2>1, <2>2 DEF MakeDocument, AtErp
<1> QED BY <1>2, <1>3

LEMMA TaskToils ==
  ASSUME Sound, NEW w \in Workers, ConversationTask(w)
  PROVE  Toils(w) /\ job[w] # None /\ Of(w) \in Rows
<1> USE DEF Sound, Typed
<1>1. UNCHANGED <<env, company, req>> /\ job[w] # None /\ job[w].task \in Errand
  BY SyncTypes, ConfirmationTypes
  DEF ConversationTask, StartSync, FindCustomer, MakeCustomer, MakeDocument, LogDocument,
      StoreReference, StartConfirmation, SendConfirmation, LogConfirmation, InJob, Errand
<1>2. Of(w) \in Rows
  BY <1>1, JobParts DEF Errand, Of, TypedJobs
<1>3. ASSUME \/ Finish(w) \/ TryAgain(w)
             \/ \E at : at # "start" /\ Proceed(w, at) /\ UNCHANGED queue
      PROVE  /\ UNCHANGED queue \/ (Queue(Again(w)) /\ job'[w] = None)
             /\ \A v \in Workers \ {w} : job'[v] = job[v]
             /\ job'[w] # None =>
                  /\ job'[w].task = job[w].task /\ job'[w].of = job[w].of
                  /\ job'[w].tries = job[w].tries /\ job'[w].at # "start"
  <2>1. CASE Finish(w) \/ TryAgain(w)
    BY <2>1, EndsJob DEF Finish, TryAgain
  <2>2. CASE \E at : at # "start" /\ Proceed(w, at) /\ UNCHANGED queue
    BY <1>1, <2>2, ProceedJob
  <2> QED BY <1>3, <2>1, <2>2
<1>4. CASE StoreReference(w)
  <2>1. /\ \A s \in Rows : rows'[s] = None <=> rows[s] = None
        /\ UNCHANGED <<docs, sent>>
        /\ Finish(w) \/ TryAgain(w)
    BY <1>4, ReferenceParts
  <2> QED BY <1>1, <1>2, <1>3, <2>1 DEF Toils
<1>5. CASE MakeDocument(w)
  <2>1. UNCHANGED <<rows, sent>> /\ \A s \in Rows \ {Of(w)}, d \in Docs : docs'[d] = s <=> docs[d] = s
    BY <1>2, <1>5, DocumentMade, ConversationsAssumption DEF TypedState, ConversationsTypeOK
  <2>2. CASE TryAgain(w)
    BY <1>1, <1>2, <1>3, <2>1, <2>2 DEF Toils
  <2>3. CASE ~TryAgain(w)
    <3>1. /\ UNCHANGED queue /\ \A v \in Workers \ {w} : job'[v] = job[v]
          /\ job'[w].task = "sync" /\ job'[w].of = Of(w)
          /\ job'[w].tries = job[w].tries /\ job'[w].at # "start"
      BY <1>5, <2>3, DocumentMade
    <3>2. job[w].task = "sync"
      BY <1>5 DEF MakeDocument, InJob
    <3> QED BY <1>1, <1>2, <2>1, <3>1, <3>2 DEF Toils, Of
  <2> QED BY <2>2, <2>3
<1>6. CASE SendConfirmation(w)
  <2>1. /\ UNCHANGED <<rows, docs>> /\ \A s \in Rows \ {Of(w)} : sent'[s] = sent[s]
        /\ TryAgain(w) \/ (Proceed(w, "log") /\ UNCHANGED queue)
    BY <1>2, <1>6 DEF SendConfirmation, TypedState, ConversationsTypeOK
  <2> QED BY <1>1, <1>2, <1>3, <2>1 DEF Toils
<1>7. CASE \/ StartSync(w) \/ FindCustomer(w) \/ MakeCustomer(w) \/ LogDocument(w)
           \/ StartConfirmation(w) \/ LogConfirmation(w)
  <2>1. /\ UNCHANGED <<rows, docs, sent>>
        /\ \/ Finish(w) \/ TryAgain(w)
           \/ \E at : at # "start" /\ Proceed(w, at) /\ UNCHANGED queue
    BY <1>7 DEF StartSync, FindCustomer, MakeCustomer, LogDocument, Logged, StartConfirmation,
                LogConfirmation, AtErp, conversationVars
  <2> QED BY <1>1, <1>2, <1>3, <2>1 DEF Toils
<1> QED BY <1>4, <1>5, <1>6, <1>7 DEF ConversationTask

LEMMA TaskRefs ==
  ASSUME Sound, RefsRight, NEW w \in Workers, ConversationTask(w)
  PROVE  RefsRight'
<1> USE DEF Sound, Typed
<1>0. Toils(w) /\ job[w] # None /\ Of(w) \in Rows
  BY TaskToils
<1>1. docs \in [Docs -> Rows \union {None}] /\ rows \in [Rows -> Row \union {None}]
  BY DEF TypedState, ConversationsTypeOK
<1>2. ASSUME NEW e \in Docs, NEW r \in Rows, docs[e] = r PROVE docs'[e] = r
  <2>1. CASE MakeDocument(w)
    <3>1. UNCHANGED docs \/ \E d \in Docs : docs[d] = None /\ docs' = [docs EXCEPT ![d] = Of(w)]
      BY <2>1, DocumentMade
    <3> QED BY <1>1, <1>2, <3>1, ConversationsAssumption
  <2>2. CASE ~MakeDocument(w)
    BY <1>2, <2>2 DEF ConversationTask, StartSync, FindCustomer, MakeCustomer, LogDocument,
       StoreReference, AtErp, StartConfirmation, SendConfirmation, LogConfirmation,
       conversationVars
  <2> QED BY <2>1, <2>2
<1>3. \A r \in Rows : rows'[r] # None /\ rows'[r].ref # None => docs'[rows'[r].ref] = r
  <2>1. \A r \in Rows : rows[r] # None /\ rows[r].ref # None =>
          rows[r].ref \in Docs /\ docs[rows[r].ref] = r
    BY <1>1 DEF RefsRight, Row
  <2>2. CASE StoreReference(w)
    <3>1. docs[job[w].saw] = Of(w)
      BY <2>2 DEF StoreReference, RefsRight
    <3> QED BY <2>1, <2>2, <3>1, ReferenceParts
  <2>3. CASE ~StoreReference(w)
    <3>1. UNCHANGED rows
      BY <2>3 DEF ConversationTask, StartSync, FindCustomer, MakeCustomer, MakeDocument,
         LogDocument, AtErp, StartConfirmation, SendConfirmation, LogConfirmation,
         conversationVars
    <3> QED BY <1>2, <2>1, <3>1
  <2> QED BY <2>2, <2>3
<1>4. ASSUME NEW v \in Workers \ {w}
      PROVE  /\ InJob(v, "sync", "log")' =>
                  \/ job'[v].saw = Unlinked
                  \/ job'[v].saw \in Docs /\ docs'[job'[v].saw] = Of(v)'
             /\ InJob(v, "sync", "reference")' =>
                  job'[v].saw \in Docs /\ docs'[job'[v].saw] = Of(v)'
  <2>1. job'[v] = job[v] /\ Of(v)' = Of(v)
    BY <1>0 DEF Toils, Of
  <2>2. InJob(v, "sync", "log") \/ InJob(v, "sync", "reference") => Of(v) \in Rows
    BY JobParts DEF InJob, Of, TypedJobs
  <2> QED BY <1>2, <2>1, <2>2 DEF RefsRight, InJob
<1>5. ASSUME ~InJob(w, "sync", "log")', ~InJob(w, "sync", "reference")'
      PROVE  RefsRight'
  BY <1>3, <1>4, <1>5 DEF RefsRight
<1>6. CASE Finish(w) \/ TryAgain(w)
  BY <1>5, <1>6, EndsJob DEF InJob
<1>7. CASE MakeDocument(w) /\ ~Finish(w) /\ ~TryAgain(w)
  <2>1. PICK d \in Docs :
          /\ docs' = [docs EXCEPT ![d] = Of(w)] /\ job'[w].at = "log" /\ job'[w].of = Of(w)
          /\ job'[w].saw = IF job[w].saw = Unlinked THEN Unlinked ELSE d
    BY <1>7, DocumentMade
  <2>2. docs'[d] = Of(w)'
    BY <1>1, <2>1 DEF Of
  <2> QED BY <1>3, <1>4, <2>1, <2>2 DEF RefsRight, InJob
<1>8. CASE LogDocument(w) /\ ~Finish(w) /\ ~TryAgain(w)
  <2>1. Proceed(w, "reference") /\ job[w].saw # Unlinked /\ UNCHANGED docs
    BY <1>8 DEF LogDocument, Logged
  <2>2. job'[w].saw = job[w].saw /\ job'[w].at = "reference" /\ Of(w)' = Of(w)
    BY <1>0, <2>1, ProceedJob DEF Of
  <2>3. job[w].saw \in Docs /\ docs[job[w].saw] = Of(w)
    BY <1>8, <2>1 DEF LogDocument, RefsRight
  <2> QED BY <1>3, <1>4, <2>1, <2>2, <2>3 DEF RefsRight, InJob
<1>9. CASE ~MakeDocument(w) /\ ~LogDocument(w) /\ ~Finish(w) /\ ~TryAgain(w)
  <2>1. CASE SendConfirmation(w)
    BY <1>0, <1>5, <2>1 DEF SendConfirmation, InJob, Toils
  <2>2. CASE ~SendConfirmation(w)
    <3>1. \E at \in {"find", "create", "customer", "send"} : Proceed(w, at)
      BY <1>9, <2>2 DEF ConversationTask, StartSync, FindCustomer, MakeCustomer,
         StoreReference, StartConfirmation, LogConfirmation, Logged
    <3>2. job'[w].at \notin {"log", "reference"}
      BY <1>0, <3>1, ProceedJob
    <3> QED BY <1>5, <3>2 DEF InJob
  <2> QED BY <2>1, <2>2
<1> QED BY <1>6, <1>7, <1>8, <1>9

(* What becomes of the row a worker files, or confirms.                    *)
LEMMA AgainOnce ==
  ASSUME Sound, Filing, Tidy, NEW w \in Workers, Toils(w), job[w] # None, Of(w) \in Rows,
         job[w].task \in Errand
  PROVE  /\ OneMessageEach'
         /\ \A n \in BagToSet(queue') :
              n \in BagToSet(queue) \/ (n = Again(w) /\ ~UNCHANGED queue)
<1>1. CASE UNCHANGED queue
  BY <1>1 DEF Filing, OneMessageEach
<1>2. CASE Queue(Again(w)) /\ ~UNCHANGED queue
  <2>1. Again(w).task = job[w].task /\ Again(w).of = Of(w)
    BY DEF Again
  <2>2. Worked(job[w].task, Of(w))
    BY DEF Worked, OnRow
  <2>3. ~Pending(job[w].task, Of(w))
    BY <2>2 DEF Filing, Once, Lone
  <2> QED BY <1>2, <2>1, <2>3, QueuedOnce DEF Filing, Sound, Typed
<1> QED BY <1>1, <1>2 DEF Toils

LEMMA TaskOthers ==
  ASSUME Sound, Filing, Tidy, NEW w \in Workers, Toils(w), job[w] # None, Of(w) \in Rows,
         job[w].task \in Errand
  PROVE  OneMessageEach' /\ \A s \in Rows : s # Of(w) => Once(s)'
<1>1. /\ OneMessageEach'
      /\ \A n \in BagToSet(queue') : n \in BagToSet(queue) \/ n = Again(w)
  BY AgainOnce
<1>2. Again(w).of = Of(w)
  BY DEF Again
<1>3. ASSUME NEW s \in Rows, s # Of(w)
      PROVE  Once(s)'
  <2>1. \A v \in Workers :
          job'[v] # None /\ job'[v].task \in Errand /\ job'[v].of = s => job'[v] = job[v]
    BY <1>3 DEF Toils, Of
  <2>2. Unmoved(s)
    BY <1>1, <1>2, <1>3, <2>1 DEF Unmoved, Toils, Deleted
  <2> QED BY <2>2, UnmovedKeeps DEF Filing, Toils
<1> QED BY <1>1, <1>3

LEMMA StaysLone ==
  ASSUME Sound, Filing, Tidy, NEW w \in Workers, Toils(w), NEW r \in Rows, NEW task \in Errand,
         OnRow(w, task, r)
  PROVE  /\ Lone(r)' /\ ~(rows'[r] = None /\ ~Deleted')
         /\ \A t \in Errand : Pending(t, r)' =>
              \/ Pending(t, r) /\ t # task
              \/ t = task /\ ~UNCHANGED queue /\ job'[w] = None
         /\ \A n \in BagToSet(queue') : n.task \in Errand /\ n.of = r =>
              \/ n \in BagToSet(queue) /\ n.task # task
              \/ n = Again(w) /\ n.task = task /\ ~UNCHANGED queue /\ job'[w] = None
         /\ \A v \in Workers, t \in Errand : OnRow(v, t, r)' =>
              \/ v = w /\ t = task /\ job'[w] # None
              \/ v # w /\ t # task /\ OnRow(v, t, r) /\ job'[v] = job[v]
         /\ (AskingSync(r)' <=> AskingSync(r)) /\ (AskingConfirm(r)' <=> AskingConfirm(r))
<1>0. job[w] # None /\ job[w].task = task /\ Of(w) = r /\ Worked(task, r)
  BY DEF OnRow, Worked
<1>1. Once(r) /\ Lone(r) /\ ~Pending(task, r) /\ ~(rows[r] = None /\ ~Deleted)
  BY <1>0 DEF Filing, Once, Lone, Untouched
<1>2. ~(rows'[r] = None /\ ~Deleted')
  BY <1>1 DEF Toils, Deleted
<1>3. /\ AskingSync(r)' <=> AskingSync(r)
      /\ AskingConfirm(r)' <=> AskingConfirm(r)
      /\ \A p \in Requests : Asks(p, r)' <=> Asks(p, r)
  BY DEF AskingSync, AskingConfirm, Asks, Toils
<1>4. Again(w).task = task /\ Again(w).of = r /\ (~UNCHANGED queue => job'[w] = None)
  BY <1>0 DEF Again, Toils
<1>5. ASSUME NEW n \in BagToSet(queue'), n.task \in Errand, n.of = r
      PROVE  \/ n \in BagToSet(queue) /\ n.task # task
             \/ n = Again(w) /\ n.task = task /\ ~UNCHANGED queue /\ job'[w] = None
  <2>1. n \in BagToSet(queue) \/ (n = Again(w) /\ ~UNCHANGED queue)
    BY <1>0, <1>5, AgainOnce
  <2>2. n \in BagToSet(queue) => n.task # task
    BY <1>1, <1>5 DEF Pending
  <2> QED BY <1>4, <2>1, <2>2
<1>6. ASSUME NEW t \in Errand, Pending(t, r)'
      PROVE  \/ Pending(t, r) /\ t # task
             \/ t = task /\ ~UNCHANGED queue /\ job'[w] = None
  <2>1. PICK n \in BagToSet(queue') : n.task = t /\ n.of = r
    BY <1>6 DEF Pending
  <2> QED BY <1>5, <2>1 DEF Pending
<1>7. ASSUME NEW v \in Workers, NEW t \in Errand, OnRow(v, t, r)'
      PROVE  \/ v = w /\ t = task /\ job'[w] # None
             \/ v # w /\ t # task /\ OnRow(v, t, r) /\ job'[v] = job[v]
  <2>1. CASE v = w
    BY <1>0, <1>7, <2>1 DEF OnRow, Toils
  <2>2. CASE v # w
    <3>1. job'[v] = job[v] /\ OnRow(v, t, r)
      BY <1>7, <2>2 DEF OnRow, Of, Toils
    <3>2. t # task
      BY <1>1, <2>2, <3>1 DEF Lone
    <3> QED BY <2>2, <3>1, <3>2
  <2> QED BY <2>1, <2>2
<1>8. \A t \in Errand : Worked(t, r)' => Worked(t, r)
  BY <1>0, <1>7 DEF Worked
<1>9. Lone(r)'
  <2>1. ASSUME NEW t \in Errand, Pending(t, r)' PROVE ~Worked(t, r)'
    BY <1>1, <1>6, <1>7, <1>8, <2>1 DEF Lone, Worked
  <2>2. \A t \in Errand : Pending(t, r)' => Pending(t, r) \/ Worked(t, r)
    BY <1>0, <1>6
  <2>3. \A v, u \in Workers, t \in Errand : OnRow(v, t, r)' /\ OnRow(u, t, r)' => v = u
    BY <1>1, <1>7 DEF Lone
  <2> QED BY <1>1, <1>3, <1>8, <2>1, <2>2, <2>3 DEF Lone, Errand
<1> QED BY <1>2, <1>3, <1>5, <1>6, <1>7, <1>9

LEMMA SyncRow ==
  ASSUME Sound, Filing, Tidy, NEW w \in Workers, Toils(w), NEW r \in Rows,
         OnRow(w, "sync", r), sent'[r] = sent[r],
         IsFiniteSet(FiledAs(r))', Cardinality(FiledAs(r))' <= Retries + 1,
         ~UNCHANGED queue => Cardinality(FiledAs(r))' <= job[w].tries + 1,
         job'[w] # None => Cardinality(FiledAs(r))' <= Made(w)',
         Calm =>
           /\ ~UNCHANGED queue /\ rows'[r] # None => Unfiled(r)'
           /\ job'[w] # None =>
                /\ job'[w].at \in {"find", "customer", "create"} => Unfiled(r)'
                /\ job'[w].saw # Unlinked
           /\ Cardinality(FiledAs(r))' <= 1
  PROVE  Once(r)'
<1>1. "sync" \in Errand /\ job[w] # None /\ Worked("sync", r) /\ Once(r)
  BY DEF Errand, OnRow, Worked, Filing
<1>2. ~AskingSync(r)
  BY <1>1 DEF Once, Lone
<1>3. env' = env /\ (Calm' <=> Calm)
  BY SameEnvironment DEF Toils
<1>4. ~AskingSync(r)' /\ (AskingConfirm(r)' <=> AskingConfirm(r))
  BY <1>1, <1>2, StaysLone
<1>5. \A v \in Workers : OnRow(v, "sync", r)' => v = w /\ job'[w] # None
  BY <1>1, StaysLone
<1>6. Rationed(r)'
  <2>1. ASSUME NEW m \in BagToSet(queue'), m.task = "sync", m.of = r
        PROVE  Cardinality(FiledAs(r))' <= m.tries
    <3>1. m = Again(w) /\ ~UNCHANGED queue
      BY <1>1, <2>1, StaysLone
    <3> QED BY <3>1 DEF Again
  <2> QED BY <1>4, <1>5, <2>1 DEF Rationed
<1>7. ASSUME Calm PROVE SyncedOnce(r)'
  <2>1. Pending("sync", r)' => ~UNCHANGED queue
    BY <1>1, StaysLone
  <2>2. job'[w] # None => job'[w].at # "start"
    BY DEF Toils
  <2> QED BY <1>5, <1>7, <2>1, <2>2 DEF SyncedOnce
<1>8. ASSUME Calm PROVE ConfirmedOnce(r)'
  <2>1. \A v \in Workers : OnRow(v, "confirm", r)' => OnRow(v, "confirm", r) /\ job'[v] = job[v]
    BY <1>1, StaysLone DEF Errand
  <2>2. Pending("confirm", r)' => Pending("confirm", r)
    BY <1>1, StaysLone DEF Errand
  <2>3. rows'[r] # None => rows[r] # None
    BY DEF Toils
  <2> QED BY <1>1, <1>4, <1>8, <2>1, <2>2, <2>3 DEF Once, ConfirmedOnce
<1> QED BY <1>1, <1>3, <1>6, <1>7, <1>8, StaysLone DEF Once

LEMMA ConfirmRow ==
  ASSUME Sound, Filing, Tidy, NEW w \in Workers, Toils(w), NEW r \in Rows,
         OnRow(w, "confirm", r), UNCHANGED docs,
         Calm =>
           /\ ~UNCHANGED queue /\ rows'[r] # None => sent'[r] = 0
           /\ job'[w] # None => /\ job'[w].at = "send" => sent'[r] = 0
                               /\ job'[w].saw # Unlinked
           /\ sent'[r] <= 1
  PROVE  Once(r)'
<1>1. "confirm" \in Errand /\ job[w] # None /\ Worked("confirm", r) /\ Once(r)
  BY DEF Errand, OnRow, Worked, Filing
<1>2. ~AskingConfirm(r)
  BY <1>1 DEF Once, Lone
<1>3. env' = env /\ (Calm' <=> Calm)
  BY SameEnvironment DEF Toils
<1>4. ~AskingConfirm(r)' /\ (AskingSync(r)' <=> AskingSync(r))
      /\ FiledAs(r)' = FiledAs(r) /\ (Unfiled(r)' <=> Unfiled(r))
  BY <1>1, <1>2, StaysLone DEF FiledAs, Unfiled
<1>5. \A v \in Workers : OnRow(v, "sync", r)' => OnRow(v, "sync", r) /\ job'[v] = job[v]
  BY <1>1, StaysLone DEF Errand
<1>6. Rationed(r)'
  <2>1. ASSUME NEW m \in BagToSet(queue'), m.task = "sync", m.of = r
        PROVE  m \in BagToSet(queue)
    BY <1>1, <2>1, StaysLone DEF Errand
  <2>2. \A v \in Workers : job'[v] = job[v] => Made(v)' = Made(v)
    BY DEF Made
  <2> QED BY <1>1, <1>4, <1>5, <2>1, <2>2 DEF Once, Rationed
<1>7. ASSUME Calm PROVE SyncedOnce(r)'
  <2>1. Pending("sync", r)' => Pending("sync", r)
    BY <1>1, StaysLone DEF Errand
  <2>2. rows'[r] # None => rows[r] # None
    BY DEF Toils
  <2> QED BY <1>1, <1>4, <1>5, <1>7, <2>1, <2>2 DEF Once, SyncedOnce
<1>8. ASSUME Calm PROVE ConfirmedOnce(r)'
  <2>1. \A v \in Workers : OnRow(v, "confirm", r)' => v = w /\ job'[w] # None
    BY <1>1, StaysLone
  <2>2. Pending("confirm", r)' => ~UNCHANGED queue
    BY <1>1, StaysLone
  <2>3. job'[w] # None => job'[w].at # "start"
    BY DEF Toils
  <2> QED BY <1>4, <1>8, <2>1, <2>2, <2>3 DEF ConfirmedOnce
<1> QED BY <1>1, <1>3, <1>6, <1>7, <1>8, StaysLone DEF Once

(* A step of the task that files a row, and makes no document.             *)
LEMMA SameFiled ==
  ASSUME Sound, Filing, Tidy, NEW w \in Workers, Toils(w), NEW r \in Rows,
         OnRow(w, "sync", r), UNCHANGED <<docs, sent>>,
         \/ Finish(w)
         \/ TryAgain(w) /\ (Calm => Unfiled(r) \/ rows'[r] = None)
         \/ \E at \in {"find", "create", "customer"} :
              /\ Proceed(w, at) /\ UNCHANGED queue
              /\ job[w].at \notin {"log", "reference"} /\ (Calm => Unfiled(r))
         \/ Proceed(w, "reference") /\ UNCHANGED queue /\ job[w].at = "log"
  PROVE  Once(r)'
<1> USE DEF Sound, Typed
<1>1. FiledAs(r)' = FiledAs(r) /\ (Unfiled(r)' <=> Unfiled(r))
  BY DEF FiledAs, Unfiled
<1>2. Rationed(r) /\ (Calm => SyncedOnce(r)) /\ Cardinality(FiledAs(r)) <= Made(w)
  BY DEF Filing, Once, Rationed
<1>3. job[w] # None /\ job[w].tries \in Nat /\ Cardinality(FiledAs(r)) \in Nat
  <2>1. job[w] \in AnyJob /\ job[w] # None
    BY DEF OnRow, TypedJobs
  <2>2. job[w].tries \in Nat
    <3>1. job[w].tries \in Tries
      BY <2>1, JobParts
    <3> QED BY <3>1 DEF Tries
  <2>3. Cardinality(FiledAs(r)) \in Nat
    BY <1>2, CountIsNat
  <2> QED BY <2>1, <2>2, <2>3
<1>4. CASE Finish(w) \/ (TryAgain(w) /\ (Calm => Unfiled(r) \/ rows'[r] = None))
  <2>1. job'[w] = None
    BY <1>4, EndsJob
  <2>2. Cardinality(FiledAs(r)) <= job[w].tries + 1
    BY <1>2, <1>3 DEF Made
  <2>3. ~UNCHANGED queue /\ Calm /\ rows'[r] # None => Unfiled(r)
    BY <1>4 DEF Finish
  <2> QED BY <1>1, <1>2, <2>1, <2>2, <2>3, SyncRow DEF Rationed, SyncedOnce
<1>5. CASE ~(Finish(w) \/ (TryAgain(w) /\ (Calm => Unfiled(r) \/ rows'[r] = None)))
  <2>1. PICK at : /\ Proceed(w, at) /\ UNCHANGED queue
                  /\ at \in {"find", "create", "customer"} =>
                       job[w].at \notin {"log", "reference"} /\ (Calm => Unfiled(r))
                  /\ at \notin {"find", "create", "customer"} =>
                       at = "reference" /\ job[w].at = "log"
    <3>1. CASE Proceed(w, "reference") /\ UNCHANGED queue /\ job[w].at = "log"
      BY <3>1
    <3>2. CASE ~(Proceed(w, "reference") /\ UNCHANGED queue /\ job[w].at = "log")
      <4>1. PICK at \in {"find", "create", "customer"} :
              /\ Proceed(w, at) /\ UNCHANGED queue
              /\ job[w].at \notin {"log", "reference"} /\ (Calm => Unfiled(r))
        BY <1>5, <3>2
      <4> QED BY <4>1
    <3> QED BY <3>1, <3>2
  <2>2. /\ job'[w].at = at /\ job'[w].tries = job[w].tries /\ job'[w].saw = job[w].saw
    BY <1>3, <2>1, ProceedJob
  <2>3. Made(w)' = Made(w)
    BY <2>1, <2>2 DEF Made
  <2>4. Calm => job'[w].saw # Unlinked
    BY <1>2, <2>2 DEF SyncedOnce
  <2>5. Calm /\ job'[w].at \in {"find", "customer", "create"} => Unfiled(r)
    BY <2>1, <2>2
  <2> QED BY <1>1, <1>2, <2>1, <2>3, <2>4, <2>5, SyncRow DEF Rationed, SyncedOnce
<1> QED BY <1>4, <1>5

LEMMA OneMoreFiled ==
  ASSUME Sound, NEW r \in Rows, Rationed(r), NEW d \in Docs, docs[d] = None,
         docs' = [docs EXCEPT ![d] = r]
  PROVE  /\ IsFiniteSet(FiledAs(r))'
         /\ Cardinality(FiledAs(r))' = Cardinality(FiledAs(r)) + 1
<1>1. FiledAs(r)' = FiledAs(r) \union {d} /\ d \notin FiledAs(r)
  BY ConversationsAssumption DEF FiledAs, Sound, Typed, TypedState, ConversationsTypeOK
<1> QED BY <1>1, FS_AddElement DEF Rationed

LEMMA DocumentFiled ==
  ASSUME Sound, Filing, Tidy, NEW w \in Workers, Toils(w), NEW r \in Rows, r = Of(w),
         MakeDocument(w)
  PROVE  Once(r)'
<1> USE DEF Sound, Typed
<1>1. OnRow(w, "sync", r) /\ job[w] \in AnyJob /\ job[w].at = "create"
  BY DEF MakeDocument, InJob, OnRow, TypedJobs
<1>2. /\ Rationed(r) /\ Cardinality(FiledAs(r)) <= Made(w)
      /\ Calm => Unfiled(r) /\ SyncedOnce(r) /\ job[w].saw # Unlinked
  BY <1>1 DEF Filing, Once, Rationed, SyncedOnce
<1>3. /\ job[w].tries \in 0..Retries /\ Retries \in Nat
      /\ Cardinality(FiledAs(r)) \in Nat /\ Cardinality(FiledAs(r)) <= job[w].tries
      /\ Unfiled(r) => Cardinality(FiledAs(r)) = 0
  BY <1>1, <1>2, JobParts, CountIsNat, TasksAssumption DEF Made, Tries
<1>4. CASE UNCHANGED docs /\ TryAgain(w)
  BY <1>1, <1>2, <1>4, DocumentMade, SameFiled
<1>5. CASE ~(UNCHANGED docs /\ TryAgain(w))
  <2>1. PICK d \in Docs :
          /\ docs[d] = None /\ docs' = [docs EXCEPT ![d] = r]
          /\ \/ /\ UNCHANGED queue /\ job'[w].at = "log" /\ job'[w].tries = job[w].tries
                /\ job'[w].saw = IF job[w].saw = Unlinked THEN Unlinked ELSE d
             \/ Fault("lost") /\ TryAgain(w)
    BY <1>5, DocumentMade
  <2>2. sent' = sent
    BY DocumentMade
  <2>3. /\ IsFiniteSet(FiledAs(r))'
        /\ Cardinality(FiledAs(r))' = Cardinality(FiledAs(r)) + 1
    BY <1>2, <2>1, OneMoreFiled
  <2>4. /\ Cardinality(FiledAs(r))' <= Retries + 1
        /\ Cardinality(FiledAs(r))' <= job[w].tries + 1
        /\ Calm => Cardinality(FiledAs(r))' <= 1
    BY <1>2, <1>3, <2>3
  <2>5. CASE Fault("lost") /\ TryAgain(w)
    BY <1>1, <2>2, <2>3, <2>4, <2>5, EndsJob, CalmMeans, SyncRow
  <2>6. CASE ~(Fault("lost") /\ TryAgain(w))
    <3>1. /\ UNCHANGED queue /\ job'[w].at = "log" /\ job'[w].tries = job[w].tries
          /\ job'[w].saw = IF job[w].saw = Unlinked THEN Unlinked ELSE d
      BY <2>1, <2>6
    <3>2. Made(w)' = job[w].tries + 1
      BY <3>1 DEF Made
    <3>3. Calm => job'[w].saw # Unlinked
      BY <1>2, <3>1, UnlinkedAssumption
    <3> QED BY <1>1, <2>2, <2>3, <2>4, <3>1, <3>2, <3>3, SyncRow
  <2> QED BY <2>5, <2>6
<1> QED BY <1>4, <1>5

LEMMA SyncFiling ==
  ASSUME Sound, Filing, Tidy, NEW w \in Workers, Toils(w), NEW r \in Rows, r = Of(w),
         \/ StartSync(w) \/ FindCustomer(w) \/ MakeCustomer(w) \/ LogDocument(w)
         \/ StoreReference(w)
  PROVE  Once(r)'
<1>1. OnRow(w, "sync", r)
  BY DEF StartSync, FindCustomer, MakeCustomer, LogDocument, StoreReference, InJob, OnRow
<1>2. Calm => SyncedOnce(r)
  BY DEF Filing, Once
<1>3. CASE StartSync(w)
  <2>1. job[w].at = "start" /\ UNCHANGED <<docs, sent, rows>>
    BY <1>3 DEF StartSync, InJob, AtErp
  <2>2. Calm /\ rows[r] # None => Unfiled(r)
    BY <1>1, <1>2, <2>1 DEF SyncedOnce
  <2> QED BY <1>1, <1>3, <2>1, <2>2, SameFiled DEF StartSync
<1>4. CASE FindCustomer(w) \/ MakeCustomer(w)
  <2>1. job[w].at \in {"find", "customer"} /\ UNCHANGED <<docs, sent>>
    BY <1>4 DEF FindCustomer, MakeCustomer, InJob, AtErp
  <2>2. Calm => Unfiled(r)
    BY <1>1, <1>2, <2>1 DEF SyncedOnce
  <2> QED BY <1>1, <1>4, <2>1, <2>2, SameFiled DEF FindCustomer, MakeCustomer
<1>5. CASE LogDocument(w)
  <2>1. job[w].at = "log" /\ UNCHANGED <<docs, sent, rows>>
    BY <1>5 DEF LogDocument, InJob, AtErp
  <2>2. \/ Proceed(w, "reference") /\ UNCHANGED queue
        \/ TryAgain(w) /\ (Calm => company = None)
    <3>1. Calm => job[w].saw # Unlinked
      BY <1>1, <1>2 DEF SyncedOnce
    <3> QED BY <1>5, <3>1, CalmMeans DEF LogDocument, Logged
  <2>3. company = None => rows'[r] = None
    BY <2>1 DEF Sound, Cleared
  <2>4. CASE TryAgain(w) /\ (Calm => company = None)
    BY <1>1, <2>1, <2>3, <2>4, SameFiled
  <2>5. CASE ~(TryAgain(w) /\ (Calm => company = None))
    BY <1>1, <2>1, <2>2, <2>5, SameFiled
  <2> QED BY <2>4, <2>5
<1>6. CASE StoreReference(w)
  <2>1. /\ UNCHANGED <<docs, sent>>
        /\ Finish(w) \/ (TryAgain(w) /\ (Calm => rows'[r] = None))
    BY <1>6, ReferenceParts, CalmMeans
  <2> QED BY <1>1, <2>1, SameFiled
<1> QED BY <1>3, <1>4, <1>5, <1>6

LEMMA ConfirmFiling ==
  ASSUME Sound, Filing, Tidy, NEW w \in Workers, Toils(w), NEW r \in Rows, r = Of(w),
         StartConfirmation(w) \/ SendConfirmation(w) \/ LogConfirmation(w)
  PROVE  Once(r)'
<1> USE DEF Sound, Typed
<1>1. OnRow(w, "confirm", r) /\ job[w] # None /\ UNCHANGED <<docs, rows>>
  BY DEF StartConfirmation, SendConfirmation, LogConfirmation, InJob, OnRow, conversationVars
<1>2. Calm => ConfirmedOnce(r) /\ job[w].saw # Unlinked
  BY <1>1 DEF Filing, Once, ConfirmedOnce
<1>3. CASE StartConfirmation(w)
  <2>1. job[w].at = "start" /\ UNCHANGED sent
    BY <1>3 DEF StartConfirmation, InJob, conversationVars
  <2>2. CASE Confirmable(r)
    <3>1. Proceed(w, "send") /\ UNCHANGED queue
      BY <1>3, <2>2 DEF StartConfirmation
    <3>2. job'[w].saw = job[w].saw
      BY <1>1, <3>1, ProceedJob
    <3>3. Calm => sent[r] = 0
      BY <1>1, <1>2, <2>1, <2>2 DEF ConfirmedOnce, Confirmable
    <3> QED BY <1>1, <1>2, <2>1, <3>1, <3>2, <3>3, ConfirmRow
  <2>3. CASE ~Confirmable(r)
    <3>1. Finish(w)
      BY <1>3, <2>3 DEF StartConfirmation
    <3>2. job'[w] = None /\ UNCHANGED queue
      BY <3>1, EndsJob DEF Finish
    <3> QED BY <1>1, <1>2, <2>1, <3>2, ConfirmRow DEF ConfirmedOnce
  <2> QED BY <2>2, <2>3
<1>4. CASE SendConfirmation(w)
  <2>1. Calm => sent[r] = 0
    BY <1>1, <1>2, <1>4 DEF SendConfirmation, InJob, ConfirmedOnce
  <2>2. CASE Proceed(w, "log") /\ UNCHANGED queue /\ sent' = [sent EXCEPT ![r] = OneMore(@)]
    <3>1. job'[w].at = "log" /\ job'[w].saw = job[w].saw
      BY <1>1, <2>2, ProceedJob
    <3>2. Calm => sent'[r] = 1
      BY <2>1, <2>2 DEF OneMore, Many, TypedState, ConversationsTypeOK
    <3> QED BY <1>1, <1>2, <2>2, <3>1, <3>2, ConfirmRow
  <2>3. CASE TryAgain(w) /\ (Calm => UNCHANGED sent)
    BY <1>1, <2>1, <2>3, EndsJob, ConfirmRow
  <2> QED BY <1>4, <2>2, <2>3, CalmMeans DEF SendConfirmation
<1>5. CASE LogConfirmation(w)
  <2>1. UNCHANGED sent /\ (Finish(w) \/ TryAgain(w))
    BY <1>5 DEF LogConfirmation, Logged, conversationVars
  <2>2. job'[w] = None
    BY <2>1, EndsJob
  <2>3. Calm /\ ~UNCHANGED queue => rows'[r] = None
    <3>1. Calm /\ ~UNCHANGED queue => company = None
      BY <1>2, <1>5, CalmMeans DEF LogConfirmation, Logged, Finish
    <3> QED BY <1>1, <3>1 DEF Cleared
  <2> QED BY <1>1, <1>2, <2>1, <2>2, <2>3, ConfirmRow DEF ConfirmedOnce
<1> QED BY <1>3, <1>4, <1>5

LEMMA TaskFiling ==
  ASSUME Sound, Filing, NEW w \in Workers, ConversationTask(w)
  PROVE  Filing'
<1>1. PICK r \in Rows : r = Of(w)
  BY TaskToils
<1>2. Toils(w) /\ job[w] # None /\ Of(w) \in Rows
  BY TaskToils
<1>3. RefsRight'
  BY TaskRefs DEF Filing
<1>4. Tidy' <=> Tidy
  BY <1>2, SameEnvironment DEF Toils
<1>5. job[w].task \in Errand
  BY DEF ConversationTask, StartSync, FindCustomer, MakeCustomer, MakeDocument, LogDocument,
         StoreReference, StartConfirmation, SendConfirmation, LogConfirmation, InJob, Errand
<1>6. Tidy => Once(r)'
  BY <1>1, <1>2, DocumentFiled, SyncFiling, ConfirmFiling DEF ConversationTask
<1>7. Tidy => OneMessageEach' /\ \A s \in Rows : s # r => Once(s)'
  BY <1>1, <1>2, <1>5, TaskOthers
<1> QED BY <1>3, <1>4, <1>6, <1>7 DEF Filing

(* A worker that dies, in an environment where workers do.                 *)
LEMMA WorkerDiesFiling ==
  ASSUME Sound, Filing, NEW w \in Workers, WorkerDies(w),
         UNCHANGED <<env, company, req, conversationVars>>
  PROVE  Filing'
<1>1. ~Tidy /\ ~Tidy'
  BY DEF WorkerDies, Fault, Tidy
<1>2. job'[w] = None /\ \A v \in Workers \ {w} : job'[v] = job[v]
  BY DEF WorkerDies, Sound, Typed, TypedJobs
<1>3. RefsRight'
  BY <1>2 DEF Filing, RefsRight, InJob, Of, conversationVars
<1> QED BY <1>1, <1>3 DEF Filing

LEMMA FilingNext == Sound /\ Filing /\ [Next]_backOfficeVars => Filing'
<1> SUFFICES ASSUME Sound, Filing, [Next]_backOfficeVars PROVE Filing'
  OBVIOUS
<1>1. ASSUME NEW q \in Requests, Ask(q) \/ Serve(q)
      PROVE  Filing'
  BY <1>1, RequestAside, AsideFiling, InsertFiling, CreateFiling, QueueFiling, QuietFiling,
     UnlinkFiling
<1>2. ASSUME NEW w \in Workers, Work(w)
      PROVE  Filing'
  BY <1>2, WorkerAside, AsideFiling, TakeFiling, TaskFiling
<1>3. CASE Elsewhere \/ UNCHANGED backOfficeVars
  BY <1>3, ElsewhereAside, StillAside, AsideFiling
<1>4. CASE Dies
  BY <1>4, RequestDiesAside, AsideFiling, WorkerDiesFiling DEF Dies
<1> QED BY <1>1, <1>2, <1>3, <1>4 DEF Next

LEMMA FilingInit == Init => Filing
<1> SUFFICES ASSUME Init PROVE Filing
  OBVIOUS
<1> USE DEF Init, TasksInit, ConversationsInit
<1>1. BagToSet(queue) = {}
  BY QueueEmpty
<1>2. RefsRight
  BY DEF RefsRight, InJob
<1>3. OneMessageEach
  BY <1>1 DEF OneMessageEach
<1>4. ASSUME NEW r \in Rows PROVE Once(r)
  <2>1. FiledAs(r) = {} /\ sent[r] = 0
    BY ConversationsAssumption DEF FiledAs
  <2>2. /\ \A task : ~Pending(task, r) /\ \A w \in Workers : ~OnRow(w, task, r)
        /\ \A q \in Requests : ~Asks(q, r)
    BY <1>1 DEF Pending, OnRow, Asks
  <2>3. ~AskingSync(r) /\ ~AskingConfirm(r) /\ \A task : ~Worked(task, r)
    BY <2>2 DEF AskingSync, AskingConfirm, Asks, Worked
  <2>4. Lone(r) /\ Untouched(r)
    BY <2>1, <2>2, <2>3 DEF Lone, Untouched, Unfiled
  <2>5. Rationed(r)
    BY <1>1, <2>1, <2>2, <2>3, FS_EmptySet, TasksAssumption DEF Rationed
  <2>6. SyncedOnce(r)
    BY <2>1, <2>2, FS_EmptySet DEF SyncedOnce, Unfiled
  <2>7. ConfirmedOnce(r)
    <3>1. \A w \in Workers : ~OnRow(w, "confirm", r)
      BY <2>2
    <3>2. ~Pending("confirm", r) /\ sent[r] = 0
      BY <2>1, <2>2
    <3> QED BY <3>1, <3>2 DEF ConfirmedOnce
  <2> QED BY <2>4, <2>5, <2>6, <2>7 DEF Once
<1> QED BY <1>2, <1>3, <1>4 DEF Filing

-----------------------------------------------------------------------------
(* One customer for the caller: whoever makes one has found none.          *)
Searching == Calm /\ ~Fault("search")
OneCustomer ==
  Searching =>
    /\ customers <= 1
    /\ \A w \in Workers : InJob(w, "sync", "customer") => customers = 0

LEMMA AsideCustomer ==
  ASSUME OneCustomer, env' = env, UNCHANGED customers,
         \A w \in Workers : InJob(w, "sync", "customer")' => InJob(w, "sync", "customer")
  PROVE  OneCustomer'
  BY SameEnvironment DEF OneCustomer, Searching, Fault

LEMMA CustomerNext == Sound /\ OneCustomer /\ [Next]_backOfficeVars => OneCustomer'
<1> SUFFICES ASSUME Sound, OneCustomer, [Next]_backOfficeVars PROVE OneCustomer'
  OBVIOUS
<1> USE DEF Sound, Typed
<1>1. CASE Aside
  BY <1>1, AsideCustomer DEF Aside, Errand, InJob
<1>2. ASSUME NEW q \in Requests, ConversationAsked(q) \/ ConversationGoesOn(q)
      PROVE  OneCustomer'
  <2>1. env' = env /\ customers' = customers /\ (job' = job \/ Unlink(q))
    BY <1>2, ConversationFrame
    DEF ConversationAsked, ConversationGoesOn, AnswerCall, TestCall, NewCall, ResolveCall,
        UpdateCall, Complete, OnlyCalls, UpdateRequest, CreateRequest, SearchRequest,
        InsertRequest, OnlyRows, UploadRecording, Link, Unlink, taskVars, StoreRecording,
        QueueSync, QueueConfirmation, OnlyQueue, conversationVars
  <2>2. CASE job' = job
    BY <2>1, <2>2, AsideCustomer DEF InJob
  <2>3. CASE Unlink(q)
    BY <2>1, <2>3, SameEnvironment, CalmMeans DEF Unlink, OneCustomer, Searching
  <2> QED BY <2>1, <2>2, <2>3
<1>3. ASSUME NEW w \in Workers, Take(w), UNCHANGED <<env, conversationVars>>
      PROVE  OneCustomer'
  <2>1. job'[w].at = "start" /\ \A v \in Workers \ {w} : job'[v] = job[v]
    BY <1>3 DEF Take, TypedJobs
  <2> QED BY <1>3, <2>1, AsideCustomer DEF InJob, conversationVars
<1>4. ASSUME NEW w \in Workers, ConversationTask(w)
      PROVE  OneCustomer'
  <2>0. Toils(w) /\ job[w] # None
    BY <1>4, TaskToils
  <2>1. env' = env /\ \A v \in Workers \ {w} : job'[v] = job[v]
    BY <2>0 DEF Toils
  <2>2. ASSUME UNCHANGED customers, ~InJob(w, "sync", "customer")'
        PROVE  OneCustomer'
    BY <2>1, <2>2, AsideCustomer DEF InJob
  <2>3. ASSUME UNCHANGED customers,
               \/ Finish(w) \/ TryAgain(w)
               \/ \E at \in {"find", "create", "reference", "send", "log"} : Proceed(w, at)
        PROVE  OneCustomer'
    <3>1. ~InJob(w, "sync", "customer")'
      <4>1. CASE Finish(w) \/ TryAgain(w)
        BY <4>1, EndsJob DEF InJob
      <4>2. CASE \E at \in {"find", "create", "reference", "send", "log"} : Proceed(w, at)
        BY <2>0, <4>2, ProceedJob DEF InJob
      <4> QED BY <2>3, <4>1, <4>2
    <3> QED BY <2>2, <2>3, <3>1
  <2>4. CASE StartSync(w)
    BY <2>3, <2>4 DEF StartSync, AtErp
  <2>5. CASE FindCustomer(w)
    <3>1. UNCHANGED customers
      BY <2>5 DEF FindCustomer
    <3>2. CASE TryAgain(w) \/ ~Proceed(w, "customer")
      BY <2>3, <2>5, <3>1, <3>2 DEF FindCustomer
    <3>3. CASE ~TryAgain(w) /\ Proceed(w, "customer") /\ Searching
      <4>1. ~Fault("search")
        BY <3>3 DEF Searching
      <4>2. ~Proceed(w, "create")
        <5>1. job'[w].at = "customer"
          BY <2>0, <3>3, ProceedJob
        <5>2. Proceed(w, "create") => job'[w].at = "create"
          BY <2>0, ProceedJob
        <5> QED BY <5>1, <5>2
      <4>3. ~(customers > 0) /\ customers \in 0..Many
        BY <2>5, <3>3, <4>1, <4>2 DEF FindCustomer, TypedState, ConversationsTypeOK
      <4>4. customers = 0
        BY <4>3 DEF Many
      <4> QED BY <2>1, <3>1, <4>4 DEF OneCustomer
    <3>4. CASE ~Searching
      BY <2>1, <3>4, SameEnvironment DEF OneCustomer, Searching, Fault
    <3> QED BY <3>2, <3>3, <3>4
  <2>6. CASE MakeCustomer(w)
    <3>1. CASE UNCHANGED customers /\ TryAgain(w)
      BY <2>3, <3>1
    <3>2. CASE Searching /\ ~(UNCHANGED customers /\ TryAgain(w))
      <4>1. ~Fault("lost") /\ ~Fault("parallel")
        BY <3>2, CalmMeans DEF Searching
      <4>2. customers' = OneMore(customers) /\ Proceed(w, "create")
        BY <2>6, <3>2, <4>1 DEF MakeCustomer
      <4>3. customers = 0
        BY <2>6, <3>2 DEF OneCustomer, MakeCustomer
      <4>4. customers' = 1
        BY <4>2, <4>3 DEF OneMore, Many
      <4>5. job'[w].at = "create"
        BY <2>0, <4>2, ProceedJob
      <4>6. \A v \in Workers \ {w} : job'[v] = None
        BY <2>0, <2>1, <4>1 DEF Alone, Serial
      <4> QED BY <4>4, <4>5, <4>6 DEF OneCustomer, InJob
    <3>3. CASE ~Searching
      BY <2>1, <3>3, SameEnvironment DEF OneCustomer, Searching, Fault
    <3> QED BY <3>1, <3>2, <3>3
  <2>7. CASE MakeDocument(w)
    <3>1. UNCHANGED customers
      BY <2>7, DocumentMade
    <3>2. TryAgain(w) \/ job'[w].at = "log"
      BY <2>7, DocumentMade
    <3> QED BY <2>2, <2>3, <3>1, <3>2 DEF InJob
  <2>8. CASE StoreReference(w)
    BY <2>3, <2>8 DEF StoreReference
  <2>9. CASE \/ LogDocument(w) \/ StartConfirmation(w) \/ SendConfirmation(w)
             \/ LogConfirmation(w)
    BY <2>3, <2>9 DEF LogDocument, AtErp, StartConfirmation, SendConfirmation, LogConfirmation,
                      Logged, conversationVars
  <2> QED BY <1>4, <2>4, <2>5, <2>6, <2>7, <2>8, <2>9 DEF ConversationTask
<1>5. ASSUME NEW w \in Workers, WorkerDies(w), UNCHANGED <<env, conversationVars>>
      PROVE  OneCustomer'
  BY <1>5, SameEnvironment, CalmMeans DEF WorkerDies, OneCustomer, Searching, Tidy
<1>6. ASSUME NEW q \in Requests, Ask(q) \/ Serve(q)
      PROVE  OneCustomer'
  BY <1>1, <1>2, <1>6, RequestAside
<1>7. ASSUME NEW w \in Workers, Work(w)
      PROVE  OneCustomer'
  BY <1>1, <1>3, <1>4, <1>7, WorkerAside
<1>8. CASE Elsewhere \/ UNCHANGED backOfficeVars
  BY <1>1, <1>8, ElsewhereAside, StillAside
<1>9. CASE Dies
  BY <1>1, <1>5, <1>9, RequestDiesAside DEF Dies
<1> QED BY <1>6, <1>7, <1>8, <1>9 DEF Next

(* A reference names a document made of that very row, whatever fails, and *)
(* unless a worker dies a row has at most one document for each try of its *)
(* task.  Where nothing fails once ERPNext or UltraMsg has done its part,  *)
(* a request is filed once, confirmed once and its caller made one         *)
(* customer (sync_request_to_erpnext, send_booking_confirmation).          *)
THEOREM RequestsFiledOnce == Spec => []FiledOnce
<1>1. Init => OneCustomer
  BY DEF Init, TasksInit, ConversationsInit, OneCustomer, InJob
<1>2. Filing /\ OneCustomer => FiledOnce
  <2> SUFFICES ASSUME Filing, OneCustomer PROVE FiledOnce
    OBVIOUS
  <2>1. \A r \in Rows : rows[r] # None /\ rows[r].ref # None => docs[rows[r].ref] = r
    BY DEF Filing, RefsRight
  <2>2. ~Fault("crash") => \A r \in Rows : Cardinality(FiledAs(r)) <= Retries + 1
    BY DEF Filing, Tidy, Once, Rationed
  <2>3. Calm => \A r \in Rows : Cardinality(FiledAs(r)) <= 1 /\ sent[r] <= 1
    BY CalmMeans DEF Filing, Once, SyncedOnce, ConfirmedOnce
  <2>4. Calm /\ ~Fault("search") => customers <= 1
    BY DEF OneCustomer, Searching
  <2> QED BY <2>1, <2>2, <2>3, <2>4 DEF FiledOnce
<1> QED BY <1>1, <1>2, CustomerNext, FilingInit, FilingNext, SoundAlways, PTL DEF Spec
=============================================================================
