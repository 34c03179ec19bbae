# Formal model of the AI agent dashboard backend

The repository is a multi-tenant FastAPI backend: companies configure voice
agents, connect phone numbers, upload knowledge, run outbound calling campaigns
and pay for it through manual invoices or Stripe.  PostgreSQL holds all durable
state, Celery workers (Redis broker) run what must not block a request, and the
calls themselves are made by external systems (Asterisk, LiveKit, a voice
pipeline) that call back over HTTP.

This directory holds TLA+ models of the parts whose correctness depends on the
order in which transactions, messages and callbacks happen, the TLC
configurations that check them on small instances, and theorems about them
checked by TLAPS for every instance.

## 1. The system

| component | code | state it keeps | operations | interacts with |
|---|---|---|---|---|
| Outbound dispatch | `app/workers/outbound_tasks.py` | recipients, attempts, calls (rows); the reserved jobs of a running task (memory) | `dispatch_campaign`, `dispatch_due_campaigns` | entitlements, Asterisk provisioner, the Celery queue |
| Outbound campaigns | `app/modules/outbound_campaigns/` | campaigns, recipients, attempts, do-not-call entries | create, update, import, audio, validate, schedule, start, pause, resume, cancel, single and test call, apply_event, do-not-call list | dispatch (enqueues it), entitlements, storage, text to speech, Asterisk |
| Entitlements | `billing/entitlements.py` | none (reads subscription, plan, calls) | require_active_subscription, require_resource_capacity, require_minutes_available | locks the subscription row for agents, integrations, campaigns |
| Billing | `billing/service.py`, `models.py` | subscriptions, invoices, payments | change_plan, record_payment, void_invoice | entitlements |
| Stripe | `billing/stripe_service.py`, `stripe_gateway.py` | processed webhook events, links to Stripe objects | create_checkout, portal, process_webhook | billing rows, Stripe |
| Calls and requests | `calls/service.py`, `requests/` | calls, transcripts, requests | complete_call, request creation | integrations (enqueues a sync) |
| Internal voice API | `dashboard/internal_router.py`, `agents/test_calls.py` | calls, recordings | resolve agent, create and complete call, upload recording | voice pipeline, storage |
| Phone connections | `phone_connections/`, `phone_numbers/` | connections, encrypted credentials, numbers | create, provision, test, disconnect, delete, switch | Twilio, Asterisk |
| Authentication | `auth/service.py` | users, refresh tokens, verification and reset tokens | signup, login, refresh, verify, resend, forgot, reset | e-mail worker |
| Knowledge base | `knowledge_base/`, `workers/knowledge_tasks.py` | documents, chunks, versions | upload, process, reprocess, delete, versioning | storage, worker |
| Integrations | `integrations/`, `workers/integration_tasks.py` | integrations, ERPNext references of requests | create, update, test, connect, disconnect; synchronise, confirm | ERPNext, UltraMsg |
| Agents, extensions | `agents/`, `extensions/` | agents, a voice cache per process; extensions | create, update, delete, list and import voices, rotate password | entitlements, ElevenLabs, Asterisk |
| Companies, users, admin, onboarding, website forms, notifications, dashboard | the modules of these names | single rows | reads and single-row writes | e-mail worker |
| Scripts | `scripts/` | none | `delete_company`, seed | every table, storage |
| Core | `app/core/` | none | sessions, storage, rate limit, permissions | everything |

What is hard here: the sessions neither lock nor refresh what they read
(`app/core/database.py:14-20`: no autoflush, no expiry on commit), requests and
tasks commit several times, the broker delivers messages at least once
(`celery_app.py:25`), and providers answer late, twice, out of order or not at
all.  The components are correct when

* dispatch: nobody is called twice at once or more than `max_attempts` times,
  a suppressed contact is not called, caps hold, no slot leaks, a campaign is
  completed when and only when nothing is left;
* billing: a payment or webhook counts once, an invoice is paid or void, never
  both, and a subscription follows its last paid plan;
* entitlements: limits hold under concurrent creates;
* phone connections and extensions: what was provisioned outside is either
  named by a row or undone, and no row forgets what still exists;
* integrations and voices: a connected integration was tested as it is
  configured, a cached page knows the voices its process imported;
* authentication: a refresh token is exchanged for one other, a link replaces
  the one before it, a session does not survive a reset of the password;
* knowledge base: the snapshot the voice agent keeps is what the tables say, a
  row has its file, a document does not wait for ever;
* calls: one request per call however often it is completed, filed and confirmed
  once and in the end;
* campaign setup: a campaign that may be dialled has contacts, and the audio of
  the text it has now, where Asterisk can play it.

## 2. Modules

| module | what it is |
|---|---|
| `OutboundDispatch.tla` | one company's campaigns being dialled: workers, event handlers, Beat, users, provider |
| `CampaignCalls.tla` | abstract: what dialling promises the people on the lists; `OutboundDispatch` implements it |
| `MCOutboundDispatch.tla` | its instances and their environments |
| `OutboundDispatchProofs.tla` | inductive invariants, refinement and theorems about `OutboundDispatch` |
| `Billing.tla` | one company's subscription: plan changes, invoices, payments, Checkout, webhooks, Stripe |
| `MCBilling.tla` | its instances and their environments |
| `BillingProofs.tla` | inductive invariants and theorems about it |
| `Workspace.tla` | agents and integrations under the plan's limits, the voice library |
| `Allotment.tla` | abstract: what a plan promises about the resources it limits; `Workspace` implements it |
| `Telephony.tla` | phone numbers: provisioning, compensation, disconnection, first call; extends `Workspace` |
| `Extensions.tla` | internal extensions and their Asterisk endpoints; extends `Workspace` |
| `Office.tla` | the composition of these three: one pool of requests, shared locks |
| `MCOffice.tla` | its instance and environments |
| `OfficeProofs.tla` | inductive invariants, refinement and theorems about `Office` |
| `Tasks.tla` | the pool of requests, the Celery broker and workers; what the next four share |
| `Conversations.tla` | calls, their requests and recordings, ERPNext and WhatsApp |
| `Library.tla` | knowledge items, documents, their worker, the voice agent's snapshot |
| `Accounts.tla` | users, sessions, verification and reset links, e-mail |
| `Campaigns.tla` | setting up, launching and pausing campaigns, their contacts and audio, the do-not-call list |
| `BackOffice.tla` | the composition of these five, and the script that deletes a company |
| `MCBackOffice.tla` | its instances and environments |
| `BackOfficeProofs.tla` | its type invariant, and that a deleted company is gone |
| `ConversationsProofs.tla`, `LibraryProofs.tla`, `CampaignsProofs.tla`, `AccountsProofs.tla` | inductive invariants and theorems about the part each is named after, within `BackOffice`; all extend `BackOfficeProofs` |

```
OutboundDispatch     Billing     Office                      BackOffice
     : implements                |  Telephony   Extensions   |  Conversations Library Accounts Campaigns
CampaignCalls                    |        \     /            |           \       |      |      /
                                 |        Workspace          |                   Tasks
                                 |            : implements
                                 |        Allotment
```

All models have a rigid variable `env`: a record chosen in `Init` from the
constant `Environments` and never changed.  It says what may go wrong
(`faults`), what users, administrators and external parties do, and the bounds
of this behaviour.  One run therefore covers many scenarios, and a property can
state as a premise on `env` what it needs to be spared.

`Office` and `BackOffice` are layered: a module that another one EXTENDS gives
it its variables, its helpers and named parts of `Init` and of the next-state
relation (`WorkspaceInit`, `TelephonyStep`, ...), and only the top module has
`Init`, `Next` and `Spec`.  The variable `req` says what each API request is
doing: an operation is an action that finds its request free and stores what it
has read, and the transactions and provider calls that follow find it there.
Without the fault `parallel` one request is served at a time.  An identity of a
row is a model value; a fresh one is one nothing refers to any more, and a fresh
token is new also to the requests and workers that still hold one.

### OutboundDispatch

Each action is one database transaction, or one request to the provider, of the
code it names; what the code read in an earlier transaction is a variable.

| variable | code |
|---|---|
| `campaignStatus`, `recipientStatus`, `attemptsCount`, `attemptStatus`, `callStatus`, `dnc` | columns of `outbound_campaigns`, `outbound_recipients`, `outbound_attempts`, `calls`, rows of `do_not_call_entries` |
| `due` | `next_attempt_at` is empty or has passed |
| `tasks` | campaigns with a `dispatch_campaign` message (a set: Beat enqueues every running campaign again every 15 s, so further copies add nothing) |
| `slots`, `jobs`, `placed`, `failed` | local variables of a `_dispatch_campaign` call: the slots it counted, the attempts it reserved, the one whose outcome it has not committed |
| `beat`, `promoting` | `_dispatch_due` between its statements |
| `loaded`, `settling`, `completing` | an `apply_event` request before its first commit, before its count, before it writes COMPLETED |
| `decided` | a user request that has read the campaign it will write |
| `provider`, `events` | Asterisk's calls and the events on their way (external) |

| action | code |
|---|---|
| `DispatchRead` | `_dispatch_campaign` up to `if not slots: return`; no lock is held |
| `DispatchPause`, `DispatchQueue`, `DispatchFail` | the three ways the transaction under the subscription lock ends: no minutes, recipients reserved, number not connected |
| `Originate`, `RecordDialing`, `RecordFailure` | the loop over `jobs`: request, then commit of its outcome |
| `WorkerCrash`, `HandlerCrash` | the process dies between two transactions; the message may come again |
| `BeatRead`, `BeatPromote`, `BeatEnqueue` | the three statements of `_dispatch_due` |
| `EventRead`, `EventCommit`, `EventConflict`, `EventSettle`, `EventComplete` | `apply_event`: load, first commit or its unique violation, count, second commit |
| `UserRead`, `UserWrite`, `UserRefused` | `schedule`, `start`, `set_status` |
| `AddDnc`, `DeleteDnc` | `add_dnc`, `delete_dnc` |
| `Ring`, `Answer`, `HangUp`, `RetryDue` | the provider and the passing of time (external) |

What the model relies on in the code's libraries: SQLAlchemy writes a column
only when the value differs from the one the session loaded (`EventCommit`,
`UserWrite`), flushes at commit only, and keeps loaded values after a commit
(`RecordFailure` compares the count it wrote itself).

What is abstracted: the three counting SELECTs of `DispatchRead` are one step;
whether minutes are left, a window is open or a scheduled time has come is a
free choice; the order of candidates is not kept, a scan takes any of them; a
row another transaction has locked is not skipped but waited for.  `Init` is a
company whose contacts were imported and some of whose campaigns were started.

`CallsKept` says that `OutboundDispatch` implements `CampaignCalls`, in which an
attempt is reserved, then placed, ended and settled, or dropped.  The mapping
(`Stage`): an attempt is reserved while a worker has it and its call is not
placed, also after it was refused; live and ended as the provider says; settled
when no event that ends it is on its way any more; dropped when it was refused or
its worker died.  In the abstract module a reservation of a reliable system looks
at every attempt of the recipient; the code looks at the recipient's row alone
(PENDING, and never at `max_attempts`), and rows, memory of workers, events and
the provider agree only by what all their steps keep.  In every environment a
number is reserved once and becomes at most one call.

The premises on `env` are necessary; without them TLC finds a counterexample:

* a lost answer (`timeout`) or an event applied twice (`duplicate`) puts a
  recipient back to PENDING during a call: `OneCallAtATime`, `RetryBudget` and,
  were it to call such an environment reliable, `CallsKept` fail;
* an event that overtakes the worker is overwritten by DIALING, which nothing
  clears: `NoSlotLeak`, `CompletedIsDone` fail;
* a crash after the reservation leaves recipients QUEUED for ever:
  `QueuedHasWorker`, `NoSlotLeak` fail;
* two dispatch tasks at once overrun the caps: `CapsRespected` fails, while
  `OverrunBounded` says by how much;
* somebody becomes active without a reservation when an event is reordered,
  repeated or its answer lost, or when a recipient is cancelled whom a dead
  worker left QUEUED although its call was placed: `CapsSerial` and
  `OverrunBounded` fail unless the environment is `Orderly`, as those of the run
  that checks them are;
* when the last recipient is refused, or has an unknown timezone, no event
  follows and nobody completes the campaign: `RunningCompletes` fails.

### Billing

| variable | code |
|---|---|
| `sub` | the company's row of `subscriptions`: plan, `pending_plan_id`, status, link to the Stripe subscription, `cancel_at_period_end` |
| `inv`, `payments`, `price`, `processed` | rows of `invoices`, `payments`, `plans.price_monthly_minor`, `stripe_events` |
| `customer` | `companies.stripe_customer_id` is set |
| `req` | the requests being served: what each has read, and for `create_checkout` which of its commits are done |
| `sessions`, `stripe`, `period`, `log` | Checkout sessions, subscriptions, billed periods and emitted events at Stripe (external) |

| action | code |
|---|---|
| `ChangeRead`, `ChangeFree`, `ChangeInvoice` | `change_plan`: reads without a lock, then the commit for a free and for a paid plan |
| `CheckoutRead`, `CheckoutCustomer`, `CheckoutSession`, `CheckoutCommit`, `CheckoutRefused` | `create_checkout`: under the row lock; the customer request and its commit, which releases the lock; the session request with the invoice as idempotency key; the last commit; a refusal by Stripe |
| `PayRead`, `PayCommit`, `PayConflict` | `record_payment`, which locks the invoice and not the subscription; the unique reference |
| `Charge`, `VoidRead`, `VoidCommit`, `Reprice` | `create_invoice`, `void_invoice`, the price in `update_plan` |
| `CancelRead`, `CancelStripe`, `CancelCommit` | `set_cancel_at_period_end` and the gateway request before it |
| `HookCompleted` | `_checkout_completed`, which locks both rows and is one step |
| `HookRead`, `HookReport`, `HookSettle`, `HookMirror`, `HookRenew`, `HookIgnore` | the other webhook handlers: what they load, and the commit of each branch |
| `Abandon` | any request that is rolled back |
| `StripePay`, `StripeExpire`, `StripeRenew`, `StripeFail`, `StripeEnd`, `StripePortal` | Stripe and its customer (external) |

`Merge` is SQLAlchemy's UPDATE: the columns that differ from the values the
request loaded, applied to the row as it is by then.  A Stripe subscription is
named by the local invoice whose Checkout created it; any logged event may be
delivered again until it is in `processed`, which the code inserts in the same
transaction as the effects.  Left out: taxes, currencies, dates, e-mails, the
creation of Stripe prices for plans (planned).

The premises on `env` are necessary here as well:

* a webhook handled while another one or a payment is (`overlap`) lets both
  settle the same invoice and books two payments: `BooksBalance` fails.  So do
  `OneStripeSubscription` and `OneChangeOpen`: an `invoice.paid` that was read
  while a change was pending and is committed after that subscription has ended
  and another Checkout has begun clears the new pending change and leaves the
  status cancelled, so that a further Checkout opens;
* webhooks out of order (`reorder`) leave the state of an older event: `Current`
  and `RenewalsMirrored` fail;
* changes, payments, charges and new prices beside a Checkout may keep its
  subscription from being linked, or a webhook from being accepted:
  `OneStripeSubscription` and `RenewalsMirrored` are claimed for a company that
  buys its plans through Checkout only, and may cancel, resume and use the
  portal (`CheckoutOnly`), `Current` for the same company served one request or
  webhook at a time;
* `change_plan` takes no lock, so two of them, or one and a Checkout, open two
  invoices: `OneChangeOpen` fails;
* a charge, a new price or a partial payment between session and payment makes
  the webhook refuse what Stripe has collected: `SessionsMatch` fails;
* voiding the invoice of a plan already in use: `PlanPaidFor` fails;
* metadata on renewal invoices: `RenewalsMirrored` fails, see the runs.

One thing seen while modelling has no run: a repeated `record_payment` of the
payment that completed an invoice is answered with the error for closed invoices
and not with the payment (`PayReply` checks the status first), while README
1144-1145 calls repeated references idempotent.

### Office

| variable | code |
|---|---|
| `sub`, `holder` | the company's subscription with its plan's limits; who holds `SELECT ... FOR UPDATE` on it (`entitlements.py:36-60`) |
| `agents`, `integ` | rows of agents and integrations |
| `mine`, `catalog`, `known`, `page` | My Voices at ElevenLabs (external); by process, the lock and caches of `ElevenLabsVoiceCatalog` |
| `line` | a `telephony_connections` row with its `phone_numbers` row |
| `trunks`, `lists`, `routes` | what exists at Twilio and in Asterisk (external) |
| `row`, `endpoint` | an extension and its endpoint in Asterisk (external) |
| `tested`, `imported` | history: configurations tested, voices a process imported |

| action | code |
|---|---|
| `Reserve` (`CreateAgent`, `CreateIntegration`, `TemplateRead`, `TemplateReserve`), `Insert` | `AgentService.create`, `IntegrationService.create`, onboarding's template agent: lock and count; the voice import runs under the lock; the insert commits |
| `LookUp`, `Present`, `Import`, `ImportFails`, `ListVoices`, `ListFetch`, `ListStore`, `ListFails`, `CacheExpires` | `ensure_my_voice`, `list_library_voices`, the clock of the caches |
| `UpdateIntegration`, `Connect`, `Disconnect`, `Save` | read, provider test, commit of the columns that differ |
| `Provision`, `Claim`, `CreateTrunk`, `CreateList`, `Attach`, `PutRoute`, `StoreProvisioned` | `PhoneConnectionService.provision`: the status check, the commit of PROVISIONING, and the Twilio client, one exchange each |
| `UndoTrunk`, `UndoList` / `BackTrunk`, `BackList`, `BackRoute`, `StoreFailed` | the client's own undoing / the service's compensation |
| `DisconnectNumber`, `DropTrunk`, `DropList`, `DropRoute`, `StoreDisconnected`, `Remove` | `disconnect`, `delete` |
| `Ring`, `Admit`, `Activate` | `create_call` of the internal API: number lookup, the minutes check under the lock, activation |
| `CreateExtension`, `StoreExtension`, `ForgetExtension`, `ChangeExtension`, `StoreChange`, `DeleteExtension`, `RemoveRow` | `ExtensionService`: Asterisk is told first, the commit follows |
| `ChangePlan`, `PeriodTurns`, `ProcessDies` | billing or an administrator; the clock; a crash of a uvicorn process |

`PlanKept` says that `Workspace`, and with it `Office`, implements `Allotment`,
where taking a resource is one step that finds the plan usable and with room.  In the code the check and the insert
are a lock, a count, perhaps two calls to ElevenLabs, and a commit apart.  The
mapping is the identity on rows; the lock is what makes the step atomic.

What the premises on `env` spare the properties, each seen as a counterexample
of TLC first:

* `CleanRollback` needs that no answer is lost, no undoing is refused, and the
  commit that stores what was provisioned succeeds, and with it the read that
  builds the answer.  When the commit fails the session has expired its
  attributes, so the compensation of a Twilio number raises on reading the
  connection's provider, and trunk and list stay, and the connection is
  PROVISIONING for good; when the read fails the compensation takes down what the
  committed row goes on naming;
* `NeverForgotten` and `ReadyIsProvisioned` need requests that do not overlap:
  two `provision` requests pass the status check (`Provision`) before either
  commits PROVISIONING (`Claim`) and one trunk is orphaned; a `delete` during `provision` leaves a live route without a row; a
  disconnection that an inbound call overtakes ends ACTIVE without a route;
* `ReadyIsProvisioned` needs that users do not switch numbers on themselves;
  the endpoint does not look at the connection;
* `RowFollowsEndpoint` needs extension requests that do not overlap; a lost
  answer to a create leaves an endpoint no row names, which the property allows
  because no row changes;
* `ConnectedWasTested` needs that an update does not overlap a `connect`.

`CacheKnowsImports` has no premise.  Its run lets two requests of one process
and one of another list and import at once, so that a listing waits for the lock
of the catalogue while an import goes on, or fetches My Voices and imports
before the page of the library has come or failed.

Seen while modelling: `FOR UPDATE` without `OF` locks the joined plan row too,
so an agent created while ElevenLabs is slow holds up the creates of every
company on the plan; onboarding looks for existing agents before it takes the
lock; the credential list's identity stays in `configuration` after a
disconnection; README 777-781 describes the import of the voice an agent names,
and `update` imports the default voice as well when the agent turns realtime.

Left out: an agent's settings, transfer targets, who may call what, the pending
connection row onboarding may add (it is what `AddNumber` adds), `test()` of a
connection (it only asks Asterisk) and the LiveKit client (no operation calls
it).

### BackOffice

| variable | code |
|---|---|
| `company`, `req`, `queue`, `job` | the company's status; requests; messages at Redis (a bag); the task a worker has and has not acknowledged |
| `calls`, `rows` | rows of calls (with what `recording_url` and the metadata name) and requests |
| `docs`, `customers`, `sent` | ERPNext and UltraMsg (external): documents by the row they were made from, customers with the caller's number, confirmations |
| `recordings`, `objects` | the object storage (external) |
| `links` | connected ERPNext and WhatsApp integrations |
| `items`, `documents` | knowledge rows; the status of documents |
| `reading`, `kept` | the snapshot endpoint between its statements; the voice process's cache for the current version |
| `campaigns`, `contacts`, `listed` | rows of `outbound_campaigns` (status, text with voice, audio), `outbound_recipients` (may be called or not), `do_not_call_entries` |
| `audios`, `atAsterisk` | a campaign's audio in the object storage and at Asterisk (external), by the text it says: keys are hashes of text and voice |
| `users`, `tokens`, `inbox` | rows of users and `auth_tokens`; links that have arrived by e-mail |

| action | code |
|---|---|
| `Take`, `Finish`, `TryAgain`, `WorkerDies` | Celery with late acknowledgement, `self.retry` with `max_retries`, the death of a worker or of its child process |
| `AnswerCall`, `TestCall`, `ResolveCall`, `UpdateCall`, `Complete`, `SearchRequest`, `InsertRequest`, `QueueSync`, `QueueConfirmation` | the calls API; the transactions and `delay()` calls of `complete_call` |
| `CreateRequest`, `UpdateRequest`, `UploadRecording`, `StoreRecording` | requests made by users; recording upload |
| `Link`, `Unlink` | integrations connected, disconnected and deleted, seen from the tasks |
| `StartSync`, `FindCustomer`, `MakeCustomer`, `MakeDocument`, `LogDocument`, `StoreReference` | `sync_request_to_erpnext` and the ERPNext client; the log row is a commit of its own |
| `StartConfirmation`, `SendConfirmation`, `LogConfirmation` | `send_booking_confirmation`, its log row likewise |
| `CreateItem`, `UpdateItem`, `DeleteItem`, `BumpVersion`, `ReadTemplate`, `ApplyTemplate` | `KBItemService` and templates |
| `Upload`, `StoreDocument`, `UndoUpload`, `Register`, `QueueDocument`, `Retry`, `QueueAgain`, `DeleteDocument`, `BumpRemoved`, `RemoveObject` | `KBDocumentService` |
| `StartProcessing`, `Download`, `Clear`, `PublishChunks`, `MarkFailed`, `RetryProcessing` | `process_knowledge_document` |
| `ReadVersion`, `ReadItems`, `ReadChunks` | the internal knowledge endpoint, statement by statement |
| `Signup`, `Mail`, `SendEmail`, `Login`, `FailLogin`, `LogIn`, `ReadRefresh`, `Refresh`, `ReadVerification`, `VerifyEmail`, `ReadResend`, `ResendVerification`, `ReadForgot`, `ForgotPassword`, `ReadReset`, `ResetPassword` | `AuthService`, each split between its reads and its commit |
| `CreateUser`, `UpdateUser`, `DeleteUser`, `SetCompanyStatus`, `TimePasses` | users and administration; expiry |
| `CreateCampaign`, `LoadEdit`, `Edit`, `AddDnc`, `DeleteDnc` | `create`, `update`, `add_dnc`, `delete_dnc` |
| `LoadAudio`, `StoreAudio`, `SendAudio`, `SaveAudio` | `generate_audio`: load and speak, upload, Asterisk, commit |
| `LoadImport`, `ReadImport`, `SaveImport` | `import_contacts`: load and delete, read contacts and list, commit |
| `LoadLaunch`, `Launch`, `SaveLaunch`, `LoadStatus`, `SetStatus` | `schedule` and `start` with `validate`, `set_status` |
| `SingleCall`, `TestCampaign`, `AddContact` | `single_call` and `test_call`, which go on with audio and `start` |
| `Dial` | external here: what `dispatch_campaign`, Beat and `apply_event` do to a campaign; `OutboundDispatch` is their model |
| `ShowCompany`, `DeleteRows`, `DeleteFiles` | `scripts/delete_company.py` and the schema's cascades |

`BackOffice` is about one company: an environment without it from the start
deletes none, and whoever signs up after a deletion belongs to another one
(`BackOfficeAssumption`).

What the premises on `env` spare the properties:

* `OneRequestPerCall`, `TokensSound`: nothing is locked between the search and
  the insert, or between a token's check and its use.  Two completions at once
  make two requests, two exchanges of one refresh token two sessions;
* `FiledOnce`: a lost answer or a worker that dies repeats what ERPNext or
  UltraMsg has done already, and so does a log row or a reference that cannot be
  committed after it: because the database fails, or because the integration the
  log refers to was deleted while the task used it.  Where any of this may happen
  a row has still no more documents than its task may be tried, unless a worker
  dies.  A search ERPNext answers with an error is taken as no customer found;
* `SnapshotFresh`: items and their version are two commits, and a request that
  dies or fails between them leaves the old snapshot in use;
* `StorageMatches`: a row names a file that is there, except that an upload whose
  row is committed and cannot be read again deletes its file, and that
  `PATCH /calls/{id}` writes any `recording_url` and `metadata_` into a call.  A
  file without row is left by a crash, a lost answer, a refused deletion, an
  upload that overlaps the deletion of the company, the deletion of a document
  whose new version cannot be committed, and a recording whose row cannot be;
* `BroadcastsReady`: `update` accepts a PAUSED campaign and takes its audio, and
  `set_status` resumes it without a `validate`, so a broadcast runs with nothing
  to play; audio that is claimed to exist is not asked where both can happen.
  Where requests overlap, an edit during `generate_audio` ends with the new text
  and the audio of the old one, and an import that loaded a READY campaign may
  put it back to DRAFT while it runs;
* `TokensSound` leaves out `update_user`: an administrator's new password ends
  no session, a reset does;
* `DocumentsSettle`: a crash after the commit and before `delay()`, an upload
  whose row cannot be read again, or a retry that finds no broker, leaves a
  document PENDING; users can retry it.  FAILED is a commit like any other: when
  it fails after the broker did, the document stays PENDING, and when
  `_mark_failed` fails, `self.retry` is not reached and it stays PROCESSING.

Two faults are the database's.  Under "database" any commit that has an action
of its own may fail after something outside or an earlier commit was done; under
"reread" a `refresh` after a commit fails.  Environments without them test the
properties that need their absence; environments with them test the properties
that do not (a reference names a document of its row, the bound on a row's
documents, files come first and go last).

Seen while modelling: deleting an agent sets its knowledge items' `agent_id` to
NULL without a new version, so its cached snapshot is served on; the audio a
new text replaces is never removed from the storage, not by `delete_company`
either, so `StorageMatches` says of audio only that what a row names is there;
README 588 says that `/audio` saves the text before the audio is made, but text
and audio are one commit at the end, and a failure keeps neither; a campaign
whose contacts have all been called can be started again and `validate` counts
them as callable; an upload whose `refresh` fails deletes the file of the row it
has just committed, because the `try` covers both; ERPNext and UltraMsg are asked
again when only their log row could not be stored; a user's `metadata_` replaces
`asterisk_linked_id`, and then the recording of the call is not found.

Left out: what a log says; transcripts, durations, minutes and every text but what a broadcast
says; the assignment of
items and documents to agents; access tokens and rate limits, which are not
rows; profile fields; the script's `--skip-storage` (it keeps the files, which
`DeleteFiles` allows).  Two branches exist in the model and never fire in the
run because no environment overlaps them with the deletion of their row:
`InsertRequest` and `ResetPassword` for a row deleted meanwhile.

## 3. Runs

At most about three and a half minutes each with two workers; every run checks all environments
its MC module lists for it.

| run | instance | checks |
|---|---|---|
| `OutboundCalls` | one campaign, 2 recipients, 2 workers, 1 handler, 1 user | `OneCallAtATime`, `ReservedOnce`, `QueuedHasWorker`, `CallRowsClosed`, `CallsKept` |
| `OutboundCampaigns` | 2 campaigns sharing a number, 3 recipients, 2 workers, 2 handlers, 1 user | `TypeOK`, `CompletedIsDone`, `NoSlotLeak`, `CapsSerial`, `OverrunBounded`, `OptOutListed`, `SuppressedStays` |
| `OutboundFinishes` | 2 recipients, 2 handlers, fairness | `RunningCompletes` |
| `OutboundCapsOverrun` | 3 recipients, 2 workers, 1 slot | violates `CapsRespected` |
| `OutboundDnc` | 1 recipient, a user adding numbers | violates `DncSuppressed` |
| `Billing` | 2 concurrent requests, 3 invoices, a free and two paid plans | `TypeOK`, `PendingPayable`, `BooksBalance`, `PlanPaidFor`, `OneStripeSubscription`, `SessionsMatch`, `OneChangeOpen`, `RenewalsMirrored`, `Current` |
| `BillingActivates` | the same with 2 invoices, fairness | `WebhookActivates` |
| `BillingVoid` | a payment and a void request | violates `OnlyOpenVoided` |
| `BillingRenewal` | a Checkout and its renewal, invoices with metadata | violates `AllRenewalsMirrored` |
| `office` | 3 requests, two of them of one process, 2 agents, integrations, voices, numbers, 3 trunks, 1 extension | `OfficeTypeOK`, `PlanKept`, `CacheKnowsImports`, `ConnectedWasTested`, `CleanRollback`, `NeverForgotten`, `ReadyIsProvisioned`, `RowFollowsEndpoint` |
| `back_office` | 2 requests, 2 workers, 1 call, 2 documents, 1 user, 3 tokens, 2 campaigns, 2 texts, fairness | `BackOfficeTypeOK`, `OneRequestPerCall`, `FiledOnce`, `SnapshotFresh`, `StorageMatches`, `TokensSound`, `BroadcastsReady`, `RequestsHandled`, `DocumentsSettle` |
| `back_office_sync` | the same with the queues `docker-compose.yml` serves | violates `SyncConsumed` |

Environments.  `CallEnvironments` puts together the faults that act on one call
(refused, lost, overtaken, reordered, duplicated, with and without crashes);
`CampaignEnvironments` those that act between recipients (completion by two
handlers, shared caps, opt-outs, early ends of a dispatch).
`BillingEnvironments` has one environment in which everything that settles or
voids an invoice runs at once, one with changing prices, one with partial
payments and out-of-order webhooks, Checkout alone with every fault but
overlapping webhooks, the same in order and without metadata on Stripe's
invoices, and a company that cancels and uses the portal, one request at a time
and with requests in parallel and webhooks in any order.
`OfficeEnvironments` pairs the operations that share something: creates with
plan changes, deletes and crashes; imports with listings, by two requests of a
process and one of another; the life of a number
with every fault one request at a time, for a Twilio number and for a trunk,
then with requests that overlap, and calls with creates of agents, which want
the same lock; extensions with faults and with overlap.  `BackOfficeEnvironments`
does the same for conversations (each kind of failure outside, commits that fail,
integrations connected, disconnected and deleted, users), files (each failure,
commits and reads that fail, overlap), the snapshot against items and documents, sessions, links and administrators, campaigns (setup with every
fault, dialling with pauses, single calls and tests, overlap), and the deletion of the
company against everything that writes a row or a file.

Bounds.  The interesting cases need two of each actor that can race (workers,
handlers, requests), a recipient that is retried once (`MaxAttempts = 2`), an
invoice for the old and for the new subscription, and one renewal
(`PeriodBound = 1`).  `AttemptBound` and `env.attempts` cap the attempts counted:
where the number of attempts is the question (`OutboundCalls`) there is room for
one more than `MaxAttempts`; elsewhere the proof of `RetryBudget` justifies
making them equal.  `env.events` and `env.invoices` cap the Stripe events and the
invoices of a behaviour; a mutant of every property is violated well inside
them.  In `office` a limit of one is reached by the first agent and passed by a
second create that does not see it, `Unlimited` lets both be made; three trunks
let two be orphaned while a third is made.  In `back_office` one retry
(`Retries = 1`, three in the code) already gives a first, a repeated and a last
attempt; a refresh token exchanged twice takes three tokens; two rows suffice
for a second request of the one call, three documents for a row filed twice.
`Many` stands for more than one customer or message.  Users create one campaign
(`Created`), single calls and tests make the second; two texts are the old and
the new one; one number is enough for a contact that is imported, replaced,
blocked, or added twice.

Fairness.  `OutboundFinishes`: a worker keeps taking its messages, Beat runs
every 15 seconds, requests are served, delays elapse and every call ends;
nothing is assumed of users or failures.  `BillingActivates`: strong fairness of
serving a request, because PostgreSQL grants row locks in turn and a request
that waits for one gets it, and of delivering an event, because Stripe sends it
again until it is accepted.  `back_office`: weak fairness of every request that
has begun and of every worker, each step of which changes `req[q]` or `job[w]`; nobody has to ask for anything, and no particular
branch of a failing provider has to end: `RequestsHandled` is claimed where
nothing fails, `DocumentsSettle` also where providers refuse, because retries
are counted.

The five runs that violate a property are disagreements between the code and
what the repository says of it:

* the caps (README 622): `_dispatch_campaign` counts active recipients before it
  takes the subscription lock and does not count again.  Two workers read,
  both reserve.  `OverrunBounded` and `CapsSerial` show how far it can go and
  that one dispatch at a time keeps the caps;
* do-not-call suppression (README 622): the worker never reads the list, which
  is consulted when contacts are imported and for single and test calls;
* "Only open invoices can be voided" (`service.py:645`): the check reads a row
  without a lock, a payment commits, and the void request then writes VOID over
  a PAID invoice, whose CHECK constraint the result satisfies;
* "Successful renewal invoices and payments are mirrored" (README 1175): a
  renewal invoice that carries the metadata of its subscription is taken for the
  first, closed invoice, and no branch mirrors it;
* "Syncs completed call requests to ERPNext" (README 193): the task is named
  `sync_request_to_erpnext`, which matches no pattern of `task_routes`, so it
  goes to the default queue, and the worker of `docker-compose.yml` does not
  consume that queue.

## 4. Proofs

### OutboundDispatchProofs

The theorems hold for any number of campaigns, recipients, workers, handlers and
users, any caps and any set of environments, from `ConstantsAssumption` alone;
`EnvRigid` carries a premise on `env` from one state to the next.

* `TypeCorrect`: `TypeOK` is inductive.
* `OwnershipInvariant`: reserved attempts are fresh (their call was never
  placed, `JobsFresh`), different workers hold different attempts (`HeldApart`),
  held and placed attempts have been counted (`Counted`), events are of placed
  calls (`EventsOfCalls`) and a worker with counted slots holds nothing
  (`SlotsFirst`).  A reservation takes the number after the last counted one, so
  it is fresh by `Counted`; the other parts keep that true.  It gives
  `ReservedOnceHolds` and `SuppressedStaysHolds` (a recipient whose count is 0
  has no attempt anybody could still act on).
* `OptOutListedHolds` adds that a handler which saw a number listed still finds
  it listed.
* `QueuedHasWorkerHolds` adds that a worker has at most one uncommitted outcome.
* `TokenInvariant`: call an attempt a token while it is reserved, refused, being
  talked on, or ended by an event nobody has applied.  Without lost answers and
  duplicates a token is the latest attempt of its recipient, exists once, and
  its recipient is not PENDING; making the recipient PENDING spends it.
  `OneCallAtATimeHolds` and `RetryBudgetHolds` follow.  The properties
  themselves are not inductive: they do not exclude that an old event is still on its way
  when the recipient is called again.  `RetryBudget` is in no run of its own: a
  reservation beyond the limit is a violation of `CallsKept`.
* `CallRowsClosedHolds`: by `Flow`, a handler serves one event, and while events
  come in order and once, a call has one event on its way, the ending one when it
  is over.  The commit of that event closes the row and later ones do not reopen
  it (`Sealed`).
* `DispatchInvariant`: the converse of ownership.  Where no answer is lost and
  events come once and in order, the recipient of a token is active, or was
  cancelled and is in the hands of a worker that will write its row again
  (`TokensEngaged`).
* `NoSlotLeakHolds`: an occupied slot is `Served` by a worker, a call or an
  event.  An event on its way belongs to a call whose answer is stored
  (`PlacedApart`), and a handler that found its recipient inactive is right until
  it commits (`KnownInactive`), or a slot would be taken again behind its back.
* `CompletedIsDoneHolds`: once nobody of a campaign remains nobody ever will
  (`Ended`), because whoever is in a call is active and only PENDING recipients
  are reserved; so what was true when the handler counted is true when it writes
  COMPLETED (`Watched`).
* `CapsSerialHolds`: the occupants of slots, who are active or in a worker's
  hands, together with the slots a worker has counted stay within each cap
  (`CapRoom`), while at most one worker has counted (`SoleCounter`).  Only a
  reservation adds occupants, in place of slots.
* `OverrunBoundedHolds`: each occupant can be charged to one worker so that no
  worker is charged, its slots included, with more than the company's cap
  (`Shared`): a worker that counts takes over whoever is active and in nobody's
  hands.  Lemma `Spread` adds up the charges by giving each occupant a place of
  its own at its worker; that takes finitely many workers, as
  `ConstantsAssumption` says.

* `DispatchKeepsCalls`: `Spec => CallsKept`, the refinement of `CampaignCalls`.
  An attempt has a row exactly when its number has been counted (`RowsCounted`),
  because every later write of a row is of an attempt somebody holds or that was
  placed (`RowsKeptStep`); so the number `DispatchQueue` takes next is fresh.  An
  unsettled attempt is a token (`UnsettledToken`), and the recipient of a token is
  not PENDING and a PENDING one is below its limit, so the reservation of the
  code passes the guard of the abstract one (`ReserveCalls`).  Every other step
  places, ends or settles one attempt, drops what a worker had, or changes
  nothing there (`OriginateCalls`, `ReportCalls`, `EventCalls`, `DropCalls`).

Only model-checked: `RunningCompletes` (liveness, out of the prover's reach).

### BillingProofs

The theorems hold for any number of concurrent requests, plans, invoices and
payment references, any prices and any set of environments, from
`BillingAssumption` alone.  `BillingInvariant` proves one inductive invariant,
one lemma per part and class of actions:

* `PaysFit`: an invoice somebody is paying is open, the amount is within what is
  due, and no other request holds its row lock.  Without the lock two payments
  could each fit and together not; with it no amount becomes negative
  (`BillingTypeCorrect`).
* `Reserved`: the identifier of an invoice that a Checkout has not written yet
  is its own, so two requests cannot write one row.
* `TargetsExist`, `RowsExist`, `EventsExist`: requests, rows, Stripe's objects
  and its events refer to invoices that exist, so none of these is overwritten
  when a new invoice is created.
* `Planned`, `Logged`, `Links`, `Hooks`: what Stripe reports has a plan, the
  link of a subscription leads to one that was started, also in the copies a
  request read before; a handled event is one that was sent.
* `Pending`: while a change is pending, some open invoice for that plan is its
  witness.  That alone is `PendingPayable` (`PendingPayableHolds`), and is not
  inductive: a request that read the subscription before the change was pending
  could settle or void the invoice and leave the change pending.  The witness
  therefore also says that whoever is about to settle or void it saw a change
  pending, so that the same commit clears it.

More invariants rest on that one.  `PlanI` says why the plan in use is
paid for, and `PlanPaidForHolds` follows: whoever is about to put a plan into
use, a request included that read its invoice earlier, has one that will be paid
in the same commit, and a subscription's copies in requests show a plan that was
justified when they were read (`Justified`, `PaidUp`).

`Quiet` (`BillingQuiet`) is about a company that buys its plans through Checkout
only, and may also cancel, resume and use the portal.  Call an invoice alive
while it is open, held by a Checkout at work, charged for at Stripe, or its
subscription's end is not reported yet.  `OneAlive` says that at most one is, and
none when the subscription is calm (no change pending, no live link) but the one
a Checkout at work holds; `OneAtATime`, `Sales`, `LinkPaid`, `Orders`, `Reports`
and `Endings` say what requests, sessions, links and unreported events then look
like.  `OneStripeSubscription` alone is not inductive, because a session opened
earlier can still be paid; nor is `OneChangeOpen`, because the lock is released
while the customer is created; the two need each other and the events.
`OneStripeSubscriptionHolds`, `OneChangeOpenHolds` and `SessionsMatchHolds` are
its corollaries.

`Ordered` (`BillingOrdered`) adds, for events in order: handled events are a
prefix of the log, renewals come after the completion and nothing after the
deletion (`Turns`), a completed Checkout has paid its invoice (`Honoured`), the
link is to the subscription Stripe still serves (`Follow`), and a webhook being
handled is the next one (`AllNext`).  Two invariants rest on it:

* `Renewing`, without metadata on Stripe's invoices: what was handled is booked
  (`Booked`), no commit undoes a mirror (`MirrorsKept`), and a renewal is heard
  of (`AllHeard`): an invoice that another branch ignored would be lost.  It
  gives `RenewalsMirroredHolds`.
* `Agreeing` (`BillingAgreeing`), with one request or webhook at a time.  The log
  tells the life of each Stripe subscription: its last event carries it as it is
  (`Agrees`), its first ones what was bought (`Shapes`), and each event changes
  only what its type says, the plan with an update, the flag with an update or
  the end (`Chain`).  The row says what the last event handled of the linked
  subscription says (`RowSays`).  The cancellation flag is the exception that
  makes `Current` not inductive: a cancellation reaches Stripe before the row and
  the row before its own event, so the flag may differ while an event that
  carries it is still to come (`ToCome`, and `Warned` for a cancellation between
  its two commits).  When every event is handled none is to come, and the last
  event of the linked subscription is the last of the log: that is
  `CurrentHolds`.

`Books` (`BillingBooks`) is about what invoices have been paid; `BooksBalance`
counts the minor units of an invoice's payments (`MinorUnits`), so a sum is the
cardinality of a union and needs no induction.  It is not inductive alone: a
webhook that finds its invoice open must find no payment under its reference,
because then it would settle the invoice and book nothing, and what it books must
be what is due.  `Charging`: Stripe charges a period once and tells of it once.
`Receipts`: a payment under a reference of Stripe's exists only when the invoice
of its Checkout is closed, or when the event that tells of it was handled.
`Posts`: unless webhooks overlap there is one payment or webhook at a time, of
an event not handled yet, and an invoice it will settle still has due what Stripe
charged.  `Balances` and `Countable`: paid and due add up to the total, payments
of an invoice are finitely many units.  A step writes one invoice at most and one
payment with it (`BookMoves`).  `BooksBalanceHolds` is the corollary.  Its premise
`Refs \intersect StripeRefs = {}` says that an administrator does not record a
payment under a reference Stripe's payments use: the column is unique, and the
code then takes the webhook's payment for one already booked.

Only model-checked: `WebhookActivates` (liveness, out of the prover's reach).

### OfficeProofs

The theorems hold for any number of requests, processes, rows, voices, numbers,
trunks and extensions, any limits and any set of environments, from the named
assumptions of the modules: `None` is not a row or a request, `Unlimited` is not
a number, an environment's limit is one of `Limits`.  All properties of the run
are proved.

* `OfficeTypeCorrect`: `OfficeTypeOK` alone is not inductive: `CreateList` names
  a credential list after the trunk its request has made, so `TrunkFirst` says
  that a request which makes a list has a trunk.
* `OfficeKeepsPlan`: `Spec => PlanKept`, the refinement of `Allotment`.  The
  invariant says who holds the lock and what that preserves: a request that
  creates, or admits a call, is the holder (`LockHeld`); while it creates, the
  subscription is usable and the room it counted is still there (`RoomKept`);
  rows are finitely many (`RowsFinite`, without which counting means nothing).
  `RoomKept` is kept because nobody else creates (`LockStep`), the plan changes
  only while nobody holds the lock (`ReplanStep`), and deleting makes room
  (`FewerRows`).  The lemmas `WorkspaceMoves`, `TelephonyMoves` and
  `ExtensionMoves` say which requests a step of each part touches, so that the
  steps of telephony and extensions need no case of their own; an inbound call,
  which takes the same lock, is the exception.
* `ImportsAreKnown`: a request that fetches the list of voices holds its
  process's lock, and what it has fetched already shows what the process has
  imported since (`CacheI`: `Cached`, `Listing`).
* `ConnectionsAreTested`: without overlap (`Alone`: one request is not idle), a
  row that says connected was tested as it is (`RowsEarned`), and so was what a
  request is about to save as connected (`SavesEarned`); a new row is pending.
* `ProviderThingsNamed` (an action property) and `ReadyLinesRouted`: what the
  request at work has loaded is still the row; a row that is to be stored as
  disconnected or deleted has had its trunk and route taken down
  (`DroppedFirst`, `RemovedBare`), a connection in the making or stopped names
  nothing outside (`MakingBare`, `StoppedBare`), unless what was provisioned is
  in its row already and is being undone because the answer could not be read
  (`Spoilt`), and an admitted call found a
  number that is still routed (`ReadyI`).
* `AsteriskComesFirst` (an action property): `Told` says that a request about to
  write an extension's row has had exactly that accepted by Asterisk.
* `RefusedLeavesNothing`: where only creations are refused, `CleanI` accounts for
  every trunk, list, route by a row or by the request that has made it and not
  yet stored or undone it, at each of its points of failure.

### BackOfficeProofs and the modules on it

The theorems hold for any number of requests, workers, calls, documents,
recordings, users, tokens, campaigns, texts and retries, from the assumptions
that name what is not a row.  `BackOfficeProofs` proves what the four parts
share; each of them then proves its own, with one lemma per class of actions
and lemmas (`...Move`) about what all steps of the other parts leave alone.

* `TypeCorrect`: the type invariant is not inductive without knowing that a
  token, also one a request holds, is of a user there is (`TokensOwned`,
  `TokensHeld`) and that a campaign whose audio is made has a text
  (`SomethingToSay`).
* `DeletedIsGone`: a company that is not there has no row of any kind, and a
  deleted one does not come back, whatever was at work when it went.  Every
  insert checks the company in its own transaction; `Sound` says what a request
  still holds of one that has gone and that the script which removes the files
  was asked to (`DeletionAsked`), and that the operations it waits for are idle.
* `OneRequest`: a completion that has searched and found nothing is right about
  it (`SearchedInVain`), as long as completions do not overlap.
* `RequestsFiledOnce`: a reference names a document of that very row in every
  environment (`RefsRight`).  Unless a worker dies there is one message or job
  for a row at a time (`OneMessageEach`), and each of its documents has used up
  one of its tries (`Rationed`), so a row has at most `Retries + 1`.  Where moreover nothing
  overlaps or is lost, every commit succeeds and no integration is deleted, a
  task that starts over finds its row neither filed nor confirmed (`SyncedOnce`,
  `ConfirmedOnce`, `Untouched`), and a caller is made one customer
  (`OneCustomer`).
* `SnapshotIsFresh`: what the snapshot endpoint has read so far agrees with the
  tables unless the version is about to be raised by somebody who is between
  two commits (`ItemsRead`, `ReadyListed`), and so does what is cached
  (`ItemsKept`, `NoneDeletedKept`); a cache for an old version does not count.
* `RowsAndFilesMatch`: every row's file is there, also after crashes, overlaps
  and failed commits, because files are stored before the row and removed after
  it (`FilesThere`, `RecordingsThere`, `DeletedFirst`); excepted are documents
  whose rows cannot be read again and recordings that users write into calls.
  The converse accounts for each file by a
  row or a request (`FilesAccounted`, `RecordingsAccounted`), which knows what
  rows there are (`DocumentsExpected`, `CallsExpected`).
* `WhatIsDialledIsReady`: in every environment, audio that a row names, or that a
  request has loaded and may write back, is at Asterisk and in the object storage
  (`Backed`, `Heard`).  Without overlap it says what the campaign says and a
  campaign to be dialled is ready (`RowReady`), because what a request loaded
  before it launches, pauses or edits is still the row (`KnowsRow`, `PlansWell`).
* `LinksAndSessionsSound`: without overlap a login has one usable refresh token
  (`Roots`, `Exchanged`) and a user one link of each kind (`OneLinkEach`), and
  sessions and the requests that will make one know the password of now
  (`SessionsKnowPassword`, `PasswordsKept`).

Only model-checked: `RequestsHandled` and `DocumentsSettle` (liveness).

## 5. Plan

Done: the four compositions `OutboundDispatch`, `Billing`, `Office` (with its
refinement of `Allotment`) and `BackOffice`; `CampaignCalls`, which
`OutboundDispatch` implements; the proofs of all safety properties and
refinements that the passing runs check.  Next, in this order:

1. `Campaigns` composed with `OutboundDispatch` at `start`, in place of `Dial`.
2. Provisioning of plans and prices at Stripe, added to `Billing`.

## 6. Not modelled

* The provisioning of plans and prices at Stripe: planned, see above.
* Read-only endpoints and dashboard statistics: no state.
* Website forms and notifications' other senders: one row or one e-mail each.
* Website analysis in onboarding, the voice pipeline, the providers themselves:
  outside; only what they accept, refuse or fail to answer is modelled.
* Formatting, file parsing, `chunk_text`, encryption, rate limiting, permissions,
  e-mail contents: data the properties do not tell apart.
* Migrations, the seed and other maintenance scripts: run by hand, alone.
