---------------------------- MODULE Conversations ----------------------------
(***************************************************************************)
(* What becomes of a call: it is completed, by the voice agent or a user,  *)
(* which may repeat what was not answered; a request is made of it once;   *)
(* a worker files the request in ERPNext as a document and finds or makes  *)
(* its customer there; another confirms a booking over WhatsApp.  Nothing  *)
(* but the rows a step has read tells a repetition from the first time.    *)
(*                                                                         *)
(* Durations, transcripts and texts are left out, and so is who calls.     *)
(***************************************************************************)
EXTENDS Tasks

CONSTANTS
  Calls,   \* identities of calls
  Rows,    \* identities of rows of requests
  Docs     \* names of documents in ERPNext

(* No step tells the statuses before the end apart, nor the outcomes that  *)
(* ask for nothing: information_request, no_action and failed.             *)
CallStatus == {"open", "completed"}
Outcome == {"booking_created", "callback_requested", "nothing"}
RequestOutcomes == {"booking_created", "callback_requested"}

(* url and key name the object of a recording, by the call it is of: one   *)
(* in a column, one in the metadata.  linked: the metadata say under which *)
(* identity Asterisk knows the call.                                       *)
Call == [source : {"telephony", "web_test"}, status : CallStatus,
         outcome : Outcome \union {None}, url : Calls \union {None},
         key : Calls \union {None}, linked : BOOLEAN]

(* made: by completing the call, or by a user.  booking: its type is one   *)
(* of the two that are.  phone: the customer's number is known.            *)
Row == [call : Calls \union {None}, made : {"complete", "user"}, booking : BOOLEAN,
        phone : BOOLEAN, ref : Docs \union {None}]

ASSUME ConversationsAssumption == None \notin Calls \union Rows \union Row \union Call

ConversationRequest ==
  [op : {"search", "insert"}, call : Calls, outcome : Outcome, booking : BOOLEAN,
   phone : BOOLEAN]
  \union [op : {"sync"}, row : Rows, outcome : Outcome]
  \union [op : {"confirm"}, row : Rows]
  \union [op : {"recorded"}, call : Calls, seen : Call]

(* search: the customer search at ERPNext may answer with an error.        *)
ConversationFaults == {"search"}
ConversationOperations ==
  {"answer", "test_call", "resolve", "update_call", "complete", "create_request",
   "update_request", "record", "link", "unlink"}

VARIABLES
  calls,       \* rows of calls, None where there is none
  rows,        \* rows of requests, None where there is none
  docs,        \* by document that exists in ERPNext, the row it was made from
  customers,   \* how many customers ERPNext has for the caller's number
  sent,        \* by row, how many confirmations went out
  recordings,  \* calls whose recording is in the object storage
  links        \* connected integrations: how many ERPNext, and whether WhatsApp

conversationVars == <<calls, rows, docs, customers, sent, recordings, links>>

(* Counts are kept up to Many, which stands for more than one as well.     *)
Many == 2
OneMore(n) == IF n < Many THEN n + 1 ELSE Many

ConversationsTypeOK ==
  /\ calls \in [Calls -> Call \union {None}]
  /\ rows \in [Rows -> Row \union {None}]
  /\ docs \in [Docs -> Rows \union {None}]
  /\ customers \in 0..Many
  /\ sent \in [Rows -> 0..Many]
  /\ recordings \subseteq Calls
  /\ links \in [erp : 0..Many, whatsapp : BOOLEAN]

ConversationsInit ==
  /\ calls = [c \in Calls |-> None]
  /\ rows = [r \in Rows |-> None]
  /\ docs = [d \in Docs |-> None]
  /\ customers = 0
  /\ sent = [r \in Rows |-> 0]
  /\ recordings = {}
  /\ links = [erp |-> 1, whatsapp |-> TRUE]

-----------------------------------------------------------------------------
(* Calls.  The bounds are the identities; any unused one is as good as     *)
(* another, here and below.                                                *)
OnlyCalls == UNCHANGED <<env, company, queue, job, rows, docs, customers, sent, recordings, links>>
NewCall(source) ==
  /\ company # None
  /\ \E c \in Calls : calls[c] = None
  /\ calls' = [calls EXCEPT ![CHOOSE c \in Calls : calls[c] = None] =
                 [source |-> source, status |-> "open", outcome |-> None, url |-> None,
                  key |-> None, linked |-> source = "telephony"]]
  /\ UNCHANGED req /\ OnlyCalls

(* An inbound call, while there are minutes left.                          *)
AnswerCall(q) == Free(q) /\ Asked("answer") /\ NewCall("telephony")
TestCall(q) == Free(q) /\ Asked("test_call") /\ NewCall("web_test")

(* The voice agent joins a browser call: it is in progress, also when it   *)
(* was completed.                                                          *)
ResolveCall(q) ==
  /\ Free(q) /\ Asked("resolve")
  /\ \E c \in Calls :
       /\ calls[c] # None /\ calls[c].source = "web_test"
       /\ calls' = [calls EXCEPT ![c].status = "open"]
  /\ UNCHANGED req /\ OnlyCalls

(* A user's update may set status, outcome, recording and metadata to what *)
(* it likes, none of them back to NULL, and makes no request.              *)
UpdateCall(q) ==
  /\ Free(q) /\ Asked("update_call")
  /\ \E c \in Calls, new \in Call :
       /\ calls[c] # None /\ new.source = calls[c].source
       /\ \A f \in {"outcome", "url"} : new[f] = None => calls[c][f] = None
       /\ calls' = [calls EXCEPT ![c] = new]
  /\ UNCHANGED req /\ OnlyCalls

(* complete_call commits the call first.  A request follows for two        *)
(* outcomes, or when the conversation names a type of request.             *)
Complete(q) ==
  /\ Free(q) /\ Asked("complete")
  /\ \E c \in Calls, outcome \in Outcome, booking, phone, typed \in BOOLEAN :
       /\ calls[c] # None /\ (booking => typed)
       /\ calls' = [calls EXCEPT ![c].status = "completed", ![c].outcome = outcome]
       /\ IF outcome \in RequestOutcomes \/ typed
            THEN Become(q, [op |-> "search", call |-> c, outcome |-> outcome,
                            booking |-> booking, phone |-> phone])
            ELSE UNCHANGED req
  /\ OnlyCalls

-----------------------------------------------------------------------------
(* The request of a call.  Rows bounds how many there can be.              *)
OnlyRows == UNCHANGED <<env, company, queue, job, calls, docs, customers, sent, recordings, links>>

MutantSearchRequest(q) ==
  /\ At(q, "search")
  /\ Become(q, [req[q] EXCEPT !.op = "insert"])
  /\ UNCHANGED rows /\ OnlyRows

SearchRequest(q) ==
  /\ At(q, "search")
  /\ LET found == \E r \in Rows : rows[r] # None /\ rows[r].call = req[q].call IN
       Become(q, IF found THEN Idle ELSE [req[q] EXCEPT !.op = "insert"])
  /\ UNCHANGED rows /\ OnlyRows

Unused == {r \in Rows : rows[r] = None}
NewRow == CHOOSE r \in Unused : TRUE

InsertRequest(q) ==
  /\ At(q, "insert")
  /\ LET c == req[q].call IN
       \/ /\ calls[c] # None /\ Unused # {}
          /\ rows' = [rows EXCEPT ![NewRow] =
               [call |-> c, made |-> "complete", booking |-> req[q].booking,
                phone |-> req[q].phone, ref |-> None]]
          /\ Become(q, [op |-> "sync", row |-> NewRow, outcome |-> req[q].outcome])
       \/ /\ calls[c] = None \/ Unused = {} \/ Fault("database")
          /\ Become(q, Idle) /\ UNCHANGED rows
  /\ OnlyRows

(* Queuing is best effort: a failure is logged.                            *)
OnlyQueue == UNCHANGED <<env, company, job, conversationVars>>

QueueSync(q) ==
  /\ At(q, "sync")
  /\ Publish("sync", req[q].row)
  /\ Become(q, IF req[q].outcome = "booking_created"
                 THEN [op |-> "confirm", row |-> req[q].row] ELSE Idle)
  /\ OnlyQueue

QueueConfirmation(q) ==
  /\ At(q, "confirm")
  /\ Publish("confirm", req[q].row)
  /\ Become(q, Idle)
  /\ OnlyQueue

(* A user's request is not synchronised, only confirmed.                   *)
CreateRequest(q) ==
  /\ Free(q) /\ Asked("create_request") /\ company # None /\ Unused # {}
  /\ \E c \in Calls \union {None}, booking, phone \in BOOLEAN :
       /\ c # None => calls[c] # None
       /\ rows' = [rows EXCEPT ![NewRow] = [call |-> c, made |-> "user", booking |-> booking,
                                            phone |-> phone, ref |-> None]]
       /\ IF booking THEN Become(q, [op |-> "confirm", row |-> NewRow]) ELSE UNCHANGED req
  /\ OnlyRows

(* It may later be given a telephone number; other edits are left out.     *)
UpdateRequest(q) ==
  /\ Free(q) /\ Asked("update_request")
  /\ \E r \in Rows :
       /\ rows[r] # None
       /\ rows' = [rows EXCEPT ![r].phone = TRUE]
  /\ UNCHANGED req /\ OnlyRows

-----------------------------------------------------------------------------
(* The recording of a call: Asterisk uploads it, it is stored under a key  *)
(* of the call, and only then the call says so.                            *)
UploadRecording(q) ==
  /\ Free(q) /\ Asked("record")
  /\ \E c \in Calls :
       /\ calls[c] # None /\ calls[c].linked
       /\ \/ /\ recordings' = recordings \union {c}
             /\ Become(q, [op |-> "recorded", call |-> c, seen |-> calls[c]])
          \/ Fault("lost") /\ recordings' = recordings \union {c} /\ UNCHANGED req
          \/ Fault("refuse") /\ UNCHANGED <<recordings, req>>
  /\ UNCHANGED <<env, company, queue, job, calls, rows, docs, customers, sent, links>>

(* The metadata are one column.                                            *)
StoreRecording(q) ==
  /\ At(q, "recorded")
  /\ LET c == req[q].call  seen == req[q].seen IN
       \/ /\ calls[c] # None
          /\ calls' = [calls EXCEPT ![c].url = Written(@, seen.url, c),
                                    ![c].key = Written(@, seen.key, c),
                                    ![c].linked = @ \/ seen.key # c]
       \/ (calls[c] = None \/ Fault("database")) /\ UNCHANGED calls
  /\ Become(q, Idle)
  /\ OnlyCalls

(* Integrations are connected and disconnected by their users.             *)
Link(q) ==
  /\ Free(q) /\ Asked("link")
  /\ \E erp \in 0..Many, whatsapp \in BOOLEAN :
       links' = [erp |-> erp, whatsapp |-> whatsapp]
  /\ UNCHANGED <<taskVars, calls, rows, docs, customers, sent, recordings>>

(* An integration is deleted, connected or not.  A task that has loaded it *)
(* goes on, and cannot log what it does: the log refers to the row.        *)
Unlinked == "unlinked"
ASSUME UnlinkedAssumption == Unlinked \notin Docs \union {None}

Loaded ==
  {w \in Jobs("sync") \union Jobs("confirm") :
     job[w].at \in {"find", "customer", "create", "send", "log"}}
Unlink(q) ==
  /\ Free(q) /\ Asked("unlink")
  /\ \E erp \in 0..links.erp, whatsapp \in BOOLEAN, holders \in SUBSET Loaded :
       /\ whatsapp => links.whatsapp
       /\ links' = [erp |-> erp, whatsapp |-> whatsapp]
       /\ job' = [w \in Workers |-> IF w \in holders THEN [job[w] EXCEPT !.saw = Unlinked]
                                                     ELSE job[w]]
  /\ UNCHANGED <<env, company, req, queue, calls, rows, docs, customers, sent, recordings>>

-----------------------------------------------------------------------------
(* sync_request_to_erpnext.  Whatever raises is tried again from the start.*)
AtErp == UNCHANGED <<env, company, req, calls, rows, sent, recordings, links>>

(* Two connected ERPNext integrations raise: one or none is expected.      *)
StartSync(w) ==
  /\ InJob(w, "sync", "start")
  /\ LET row == rows[Of(w)] IN
       \/ (row = None \/ links.erp = 0) /\ Finish(w)
       \/ row # None /\ links.erp = Many /\ TryAgain(w)
       \/ /\ row # None /\ links.erp = 1
          /\ Proceed(w, IF row.phone THEN "find" ELSE "create")
          /\ UNCHANGED queue
  /\ UNCHANGED <<docs, customers>> /\ AtErp

MutantFindCustomer(w) ==
  /\ InJob(w, "sync", "find")
  /\ Proceed(w, "customer") /\ UNCHANGED queue
  /\ UNCHANGED <<docs, customers>> /\ AtErp

(* An answer other than 200 counts as no customer found.                   *)
FindCustomer(w) ==
  /\ InJob(w, "sync", "find")
  /\ \/ Proceed(w, IF customers > 0 THEN "create" ELSE "customer") /\ UNCHANGED queue
     \/ Fault("search") /\ Proceed(w, "customer") /\ UNCHANGED queue
     \/ Fault("refuse") /\ TryAgain(w)
  /\ UNCHANGED <<docs, customers>> /\ AtErp

MakeCustomer(w) ==
  /\ InJob(w, "sync", "customer")
  /\ \/ customers' = OneMore(customers) /\ Proceed(w, "create") /\ UNCHANGED queue
     \/ Fault("lost") /\ customers' = OneMore(customers) /\ TryAgain(w)
     \/ Fault("refuse") /\ UNCHANGED customers /\ TryAgain(w)
  /\ UNCHANGED docs /\ AtErp

(* Docs bounds how many documents there can be.                            *)
MakeDocument(w) ==
  /\ InJob(w, "sync", "create")
  /\ \/ /\ \E d \in Docs : docs[d] = None
        /\ LET d == CHOOSE d \in Docs : docs[d] = None IN
             /\ docs' = [docs EXCEPT ![d] = Of(w)]
             /\ \/ /\ job' = [job EXCEPT ![w].at = "log",
                                          ![w].saw = IF @ = Unlinked THEN Unlinked ELSE d]
                   /\ UNCHANGED queue
                \/ Fault("lost") /\ TryAgain(w)
     \/ /\ Fault("refuse") \/ \A d \in Docs : docs[d] # None
        /\ UNCHANGED docs /\ TryAgain(w)
  /\ UNCHANGED customers /\ AtErp

(* A log row is committed before anything is known here of the document:   *)
(* when that fails, the task starts over.                                  *)
Logged(w, next) ==
  \/ company # None /\ job[w].saw # Unlinked /\ next
  \/ (Fault("database") \/ company = None \/ job[w].saw = Unlinked) /\ TryAgain(w)

LogDocument(w) ==
  /\ InJob(w, "sync", "log")
  /\ Logged(w, Proceed(w, "reference") /\ UNCHANGED queue)
  /\ UNCHANGED <<docs, customers>> /\ AtErp

StoreReference(w) ==
  /\ InJob(w, "sync", "reference")
  /\ \/ /\ rows[Of(w)] # None
        /\ rows' = [rows EXCEPT ![Of(w)].ref = job[w].saw] /\ Finish(w)
     \/ /\ rows[Of(w)] = None \/ Fault("database")
        /\ UNCHANGED rows /\ TryAgain(w)
  /\ UNCHANGED <<env, company, req, calls, docs, customers, sent, recordings, links>>

-----------------------------------------------------------------------------
(* send_booking_confirmation.  Whether it is a booking is read again: by   *)
(* its type, or by the outcome the call has now.                           *)
Booked(row) ==
  row.booking \/ (/\ row.call # None /\ calls[row.call] # None
                  /\ calls[row.call].outcome = "booking_created")

Confirmable(r) == rows[r] # None /\ Booked(rows[r]) /\ rows[r].phone /\ links.whatsapp

MutantStartConfirmation(w) ==
  /\ InJob(w, "confirm", "start")
  /\ IF Confirmable(Of(w)) /\ rows[Of(w)].ref # None
       THEN Proceed(w, "send") /\ UNCHANGED queue ELSE Finish(w)
  /\ UNCHANGED <<env, company, req, conversationVars>>

StartConfirmation(w) ==
  /\ InJob(w, "confirm", "start")
  /\ IF Confirmable(Of(w)) THEN Proceed(w, "send") /\ UNCHANGED queue ELSE Finish(w)
  /\ UNCHANGED <<env, company, req, conversationVars>>

SendConfirmation(w) ==
  /\ InJob(w, "confirm", "send")
  /\ \/ sent' = [sent EXCEPT ![Of(w)] = OneMore(@)] /\ Proceed(w, "log") /\ UNCHANGED queue
     \/ Fault("lost") /\ sent' = [sent EXCEPT ![Of(w)] = OneMore(@)] /\ TryAgain(w)
     \/ Fault("refuse") /\ UNCHANGED sent /\ TryAgain(w)
  /\ UNCHANGED <<env, company, req, calls, rows, docs, customers, recordings, links>>

(* That it went out is logged as well, and sent again when it cannot be.   *)
LogConfirmation(w) ==
  /\ InJob(w, "confirm", "log")
  /\ Logged(w, Finish(w))
  /\ UNCHANGED <<env, company, req, conversationVars>>

ConversationAsked(q) ==
  \/ AnswerCall(q) \/ TestCall(q) \/ ResolveCall(q) \/ UpdateCall(q) \/ Complete(q)
  \/ CreateRequest(q) \/ UpdateRequest(q) \/ UploadRecording(q) \/ Link(q)
  \/ Unlink(q)

ConversationGoesOn(q) ==
  \/ SearchRequest(q) \/ InsertRequest(q) \/ QueueSync(q) \/ QueueConfirmation(q)
  \/ StoreRecording(q)

ConversationTask(w) ==
  \/ StartSync(w) \/ FindCustomer(w) \/ MakeCustomer(w) \/ MakeDocument(w)
  \/ LogDocument(w) \/ StoreReference(w)
  \/ StartConfirmation(w) \/ SendConfirmation(w) \/ LogConfirmation(w)

-----------------------------------------------------------------------------
(* Completing a call makes at most one request of it, however often it is  *)
(* completed and wherever a completion dies, unless completions overlap:   *)
(* the search and the insert are two transactions.                         *)
OneRequestPerCall ==
  ~Fault("parallel") =>
    \A r, s \in Rows :
      /\ rows[r] # None /\ rows[s] # None
      /\ rows[r].call = rows[s].call /\ rows[r].made = "complete" /\ rows[s].made = "complete"
      => r = s

(* A reference names a document that was made from that very row, and      *)
(* unless a worker dies a row has no more documents than its task may be   *)
(* tried, whatever fails.  Where nothing fails after ERPNext or UltraMsg   *)
(* has done its part - no answer is lost, and what is logged and stored of *)
(* it is committed, for which the integration must still be there - a row  *)
(* is filed once, its caller is one customer, and it is confirmed once: a  *)
(* retry resumes nothing, and starts over only what had not yet happened.  *)
FiledAs(r) == {d \in Docs : docs[d] = r}
Calm == ~Suffers({"parallel", "crash", "lost", "database"}) /\ ~Asked("unlink")
FiledOnce ==
  /\ \A r \in Rows :
       rows[r] # None /\ rows[r].ref # None => docs[rows[r].ref] = r
  /\ ~Fault("crash") => \A r \in Rows : Cardinality(FiledAs(r)) <= Retries + 1
  /\ Calm => \A r \in Rows : Cardinality(FiledAs(r)) <= 1 /\ sent[r] <= 1
  /\ Calm /\ ~Fault("search") => customers <= 1

(* Undisturbed, with the integrations connected and the queues served,     *)
(* what a completed call asks for happens: its request gets its document,  *)
(* and a booking is confirmed unless it stops being one before.            *)
Undisturbed ==
  env.faults \subseteq {"parallel"} /\ env.operations \intersect {"link", "unlink"} = {}
  /\ ComposeQueues \subseteq env.queues
Filed(r) ==
  Undisturbed /\ rows[r] # None /\ rows[r].made = "complete"
    ~> rows[r] = None \/ rows[r].ref # None
Confirmed(r) ==
  Undisturbed /\ (\E q \in Working({"confirm"}) : req[q].row = r)
    ~> sent[r] > 0 \/ ~Confirmable(r)
RequestsHandled == \A r \in Rows : Filed(r) /\ Confirmed(r)

(* README 193 and 270: the request of a completed call is synchronised to  *)
(* ERPNext.                                                                *)
SyncConsumed == \A r \in Rows : Filed(r)
=============================================================================
