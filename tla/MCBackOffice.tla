----------------------------- MODULE MCBackOffice -----------------------------
(* Instances of BackOffice: two requests, two workers, few rows of each    *)
(* kind, and the environments they are put in.                             *)
EXTENDS BackOffice, TLC

Served == ComposeQueues \union {"celery"}
Around(faults, operations, queues, status) ==
  [faults |-> faults, operations |-> operations, queues |-> queues, company |-> status]

(* A call completed again and again: while everything outside fails, while *)
(* commits fail, and undisturbed; while integrations are connected,        *)
(* disconnected or deleted, where the worker of the default queue files    *)
(* its request, and where bookings are confirmed; what users do themselves.*)
ConversationEnvironments ==
  {Around({"crash", "lost"}, {"answer", "complete"}, Served, "active"),
   Around({"refuse"}, {"answer", "complete"}, Served, "active"),
   Around({"broker", "search"}, {"answer", "complete"}, Served, "active"),
   Around({"database"}, {"answer", "complete"}, Served, "active"),
   Around({}, {"answer", "complete", "link"}, {"celery"}, "active"),
   Around({}, {"answer", "complete", "unlink"}, {"celery"}, "active"),
   Around({}, {"create_request", "update_request", "link"}, Served, "active"),
   Around({}, {"create_request", "unlink"}, Served, "active"),
   Around({}, {"answer", "complete"}, Served, "active"),
   Around({"broker"}, {"test_call", "resolve", "create_request", "update_request"},
          Served, "active"),
   Around({"parallel"}, {"create_request", "update_request"}, Served, "active"),
   Around({"database"}, {"answer", "record", "update_call"}, Served, "active")}

(* Files and their rows under every fault, one request at a time, and with *)
(* a database that keeps what it is told; requests and workers that        *)
(* overlap; items and templates against the snapshot.                      *)
LibraryEnvironments ==
  {Around({"refuse", "lost", "storage", "database", "reread", "broker"},
          {"upload", "register", "delete_document"}, Served, "active"),
   Around({"database"}, {"upload", "register", "snapshot"}, Served, "active"),
   Around({"refuse", "lost", "storage", "broker"}, {"upload", "delete_document"}, Served, "active"),
   Around({"refuse", "broker"}, {"register", "delete_document"}, Served, "active"),
   Around({"crash", "refuse", "broker"}, {"register", "retry"}, Served, "active"),
   Around({"parallel"}, {"register", "retry"}, Served, "active"),
   Around({"parallel"}, {"register", "delete_document", "snapshot"}, Served, "active"),
   Around({"parallel"}, {"upload", "delete_document", "snapshot"}, Served, "active"),
   Around({"parallel"}, {"create_item", "update_item", "delete_item", "apply_template", "snapshot"},
          Served, "active"),
   Around({"database", "reread"},
          {"create_item", "update_item", "delete_item", "apply_template", "snapshot"},
          Served, "active")}

(* Sessions and passwords; the clock; links whose e-mail gets lost and     *)
(* whose requests die; requests that overlap; administrators.              *)
AccountEnvironments ==
  {Around({}, {"create_user", "login", "refresh", "forgot", "reset"}, Served, "active"),
   Around({}, {"create_user", "login", "refresh", "time"}, Served, "active"),
   Around({"crash", "lost", "broker"}, {"signup", "verify", "resend", "forgot", "reset"},
          Served, None),
   Around({"refuse"}, {"signup", "verify", "resend"}, Served, None),
   Around({"parallel"}, {"signup", "login", "refresh", "verify"}, Served, None),
   Around({}, {"create_user", "update_user", "delete_user", "login"}, Served, "active"),
   Around({}, {"create_user", "delete_user", "set_status", "login", "refresh"}, Served, "active")}

(* The company is deleted, with its files, while others still work for it. *)
DeletionEnvironments ==
  {Around({"storage", "crash", "lost", "refuse"}, {"answer", "record", "upload", "delete_company"},
          Served, "active"),
   Around({}, {"answer", "record", "upload", "create_item", "delete_company"}, Served, "active"),
   Around({}, {"answer", "complete", "delete_company"}, Served, "active"),
   Around({"parallel"},
          {"upload", "delete_document", "create_item", "apply_template", "delete_company"},
          Served, "active")}

(* A campaign's text, audio and contacts, and its launch; campaigns that   *)
(* are paused and resumed while they are dialled; single calls and tests   *)
(* whose steps fail or die; requests that overlap; and a deleted company.  *)
CampaignEnvironments ==
  {Around({"crash", "refuse", "lost"},
          {"create_campaign", "edit", "import", "audio", "launch", "cancel"}, Served, "active"),
   Around({}, {"create_campaign", "import", "audio", "launch", "pause", "resume", "dial"},
          Served, "active"),
   Around({"crash", "refuse"},
          {"create_campaign", "single_call", "campaign_test", "audio", "add_dnc", "delete_dnc"},
          Served, "active"),
   Around({"parallel"}, {"single_call", "import", "add_dnc"}, Served, "active"),
   Around({"storage"}, {"single_call", "audio", "delete_company"}, Served, "active")}

BackOfficeEnvironments ==
  ConversationEnvironments \union LibraryEnvironments \union AccountEnvironments
  \union DeletionEnvironments \union CampaignEnvironments

(* The workers as docker-compose.yml starts them.                          *)
ComposeEnvironments ==
  {Around({}, {"answer", "complete", "record"}, ComposeQueues, "active")}
=============================================================================
