------------------------------ MODULE Telephony ------------------------------
(***************************************************************************)
(* A company's phone numbers at their providers: a connection is one row   *)
(* with its number's row, and is provisioned in several external steps, a  *)
(* Twilio trunk and its credential list first when Twilio provides the     *)
(* number, then a route in Asterisk.  Disconnecting undoes them, deleting  *)
(* disconnects first, and the first inbound call activates.  An inbound    *)
(* call takes the subscription lock of Workspace to check the minutes.     *)
(*                                                                         *)
(* A request that provisions commits twice and runs its own compensation;  *)
(* nothing keeps another request out meanwhile but the status it wrote.    *)
(***************************************************************************)
EXTENDS Workspace

CONSTANTS
  Connections,   \* telephony_connections rows, each with its phone_numbers row
  ModeOf,        \* twilio, ip_trunk or registration, by connection
  Trunks         \* identities of Twilio trunks and of their credential lists

ASSUME TelephonyAssumption ==
  /\ ModeOf \in [Connections -> {"twilio", "ip_trunk", "registration"}]
  /\ None \notin Trunks

(* cleanup: deleting something at a provider is refused.  in_use: a        *)
(* campaign refers to the number, whose row then cannot be deleted.        *)
(* database: a commit fails, or what is read of the row after it.          *)
(* The faults of Workspace apply to the providers of this module too, and  *)
(* an environment also says which lines the company may add.               *)
TelephonyFaults == {"cleanup", "in_use", "database"}
TelephonyOperations ==
  {"add_number", "provision", "disconnect_number", "delete_number", "enable", "call"}

LineStatus == {"pending", "provisioning", "testing", "active", "error",
               "disconnected", "awaiting_provider_setup", "registering"}
PhoneState == {"connected", "disconnected", "error", "pending"}

(* trunk and list are the Twilio identities the connection row names,      *)
(* route whether it names its Asterisk resource; enabled and state are     *)
(* columns of the number's row.                                            *)
Line == [status : LineStatus, trunk : Trunks \union {None}, list : Trunks \union {None},
         route : BOOLEAN, enabled : BOOLEAN, state : PhoneState]

ASSUME LinesAssumption ==
  None \notin Line /\ \A e \in Environments : e.lines \subseteq Connections

(* made is what this request knows it created and has not undone.          *)
Made == [trunk : Trunks \union {None}, list : Trunks \union {None}, route : BOOLEAN]
ProvisionStep ==
  {"claim", "new_trunk", "new_list", "attach", "undo_trunk", "undo_list", "route",
   "store", "back_trunk", "back_list", "back_route", "failed"}
DisconnectStep == {"drop_trunk", "drop_list", "drop_route", "disconnected"}
TelephonyRequest ==
  [op : ProvisionStep, line : Connections, seen : Line, made : Made]
  \union [op : DisconnectStep, line : Connections, seen : Line, delete : BOOLEAN]
  \union [op : {"remove"}, line : Connections]
  \union [op : {"ring"}, line : Connections, state : PhoneState]
  \union [op : {"admit"}, line : Connections, state : PhoneState, seen : LineStatus]

VARIABLES
  line,    \* rows, None where there is none
  trunks,  \* trunks that exist at Twilio
  lists,   \* credential lists that exist at Twilio, by the trunk they are for
  routes   \* connections Asterisk routes calls for

lineVars == <<line, trunks, lists, routes>>
telephonyVars == <<lineVars, workspaceVars>>

TelephonyTypeOK ==
  /\ line \in [Connections -> Line \union {None}]
  /\ trunks \subseteq Trunks /\ lists \subseteq Trunks
  /\ routes \subseteq Connections

-----------------------------------------------------------------------------
TelephonyInit ==
  /\ line = [c \in Connections |-> None]
  /\ trunks = {} /\ lists = {} /\ routes = {}

Working(ops) == {q \in Requests : req[q].op \in ops}
OnLine == ProvisionStep \union DisconnectStep \union {"remove", "ring", "admit"}
InWork(c) == \E q \in Working(OnLine) : req[q].line = c
Twilio(c) == ModeOf[c] = "twilio"

Suffers(faults) == env.faults \intersect faults # {}

(* Only what a step changes is named; the rest of Workspace stays.         *)
setupVars == <<env, sub, agents, integ, tested, catalogVars>>
Serving == UNCHANGED <<setupVars, holder>>

(* Columns of a connection that differ from the row as it was loaded.      *)
Update(now, seen, new) ==
  [now EXCEPT !.status = Column(@, seen.status, new.status),
              !.trunk = Column(@, seen.trunk, new.trunk),
              !.list = Column(@, seen.list, new.list),
              !.route = Column(@, seen.route, new.route),
              !.enabled = Column(@, seen.enabled, new.enabled),
              !.state = Column(@, seen.state, new.state)]

(* A new row's identity is new everywhere; identities bound how many there *)
(* can be.  That the number is not taken is checked twice, the second time *)
(* by its unique constraint.                                               *)
FreshLines == {c \in env.lines : line[c] = None /\ c \notin routes /\ ~InWork(c)}

AddNumber(q) ==
  /\ Free(q) /\ Asked("add_number")
  /\ \/ \E c \in FreshLines :
          line' = [line EXCEPT ![c] =
            [status |-> "pending", trunk |-> None, list |-> None, route |-> FALSE,
             enabled |-> FALSE, state |-> "pending"]]
     \/ FreshLines = {} /\ UNCHANGED line
  /\ UNCHANGED <<trunks, lists, routes, req>> /\ Serving

(* Users switch a number on and off, whatever its connection is.           *)
SetEnabled(q) ==
  /\ Free(q) /\ Asked("enable")
  /\ \E c \in Connections, enabled \in BOOLEAN :
       /\ line[c] # None
       /\ line' = [line EXCEPT ![c].enabled = enabled]
  /\ UNCHANGED <<trunks, lists, routes, req>> /\ Serving

-----------------------------------------------------------------------------
(* Provisioning.  The row says "provisioning" before anything is created,  *)
(* but its status was looked at without a lock and before that commit.     *)

Nothing == [trunk |-> None, list |-> None, route |-> FALSE]
Step(q, op, made) == Become(q, [req[q] EXCEPT !.op = op, !.made = made])
At(q, op) == req[q].op = op
Refused == "refuse" \in env.faults
Lost == "lost" \in env.faults
CommitFails(c) == line[c] = None \/ "database" \in env.faults

Provision(q) ==
  /\ Free(q) /\ Asked("provision")
  /\ \E c \in Connections :
       /\ line[c] # None /\ line[c].status \in {"pending", "error", "disconnected"}
       /\ Become(q, [op |-> "claim", line |-> c, seen |-> line[c], made |-> Nothing])
  /\ UNCHANGED lineVars /\ Serving

Claim(q) ==
  /\ At(q, "claim")
  /\ LET c == req[q].line IN
       \/ /\ line[c] # None
          /\ line' = [line EXCEPT ![c].status = "provisioning"]
          /\ Become(q, [op |-> IF Twilio(c) THEN "new_trunk" ELSE "route", line |-> c,
                        seen |-> [req[q].seen EXCEPT !.status = "provisioning"],
                        made |-> Nothing])
       \/ CommitFails(c) /\ Become(q, Idle) /\ UNCHANGED line
  /\ UNCHANGED <<trunks, lists, routes>> /\ Serving

Unclaimed ==
  {t \in Trunks : /\ t \notin trunks \union lists
                  /\ \A c \in Connections : line[c] # None => t \notin {line[c].trunk, line[c].list}
                  /\ \A q \in Working(ProvisionStep) : t \notin {req[q].made.trunk, req[q].made.list}
                  /\ \A q \in Working(ProvisionStep \union DisconnectStep) :
                       t \notin {req[q].seen.trunk, req[q].seen.list}}

(* Trunks bounds how many there can be: no more are given out than exist.  *)
CreateTrunk(q) ==
  /\ At(q, "new_trunk")
  /\ \/ \E t \in Unclaimed :
          /\ trunks' = trunks \union {t}
          /\ \/ Step(q, "new_list", [Nothing EXCEPT !.trunk = t])
             \/ Lost /\ Step(q, "failed", Nothing)
     \/ /\ Refused \/ Unclaimed = {}
        /\ Step(q, "failed", Nothing) /\ UNCHANGED trunks
  /\ UNCHANGED <<line, lists, routes>> /\ Serving

CreateList(q) ==
  /\ At(q, "new_list")
  /\ LET made == req[q].made  t == made.trunk IN
       \/ lists' = lists \union {t} /\ Step(q, "attach", [made EXCEPT !.list = t])
       \/ Lost /\ lists' = lists \union {t} /\ Step(q, "undo_trunk", made)
       \/ Refused /\ UNCHANGED lists /\ Step(q, "undo_trunk", made)
  /\ UNCHANGED <<line, trunks, routes>> /\ Serving

(* The credential, its association, the origination URL and the number.    *)
Attach(q) ==
  /\ At(q, "attach")
  /\ \/ Step(q, "route", req[q].made)
     \/ Refused /\ Step(q, "undo_trunk", req[q].made)
  /\ UNCHANGED lineVars /\ Serving

(* Removing something at a provider: done; or not done, which not every    *)
(* caller notices.                                                         *)
Removed(things, things_, x) == things_ = things \ {x}
Stays(things, things_) == "cleanup" \in env.faults /\ things_ = things

(* The client undoes what it created; its answer to the trunk is not       *)
(* looked at, but an exception ends the undoing.                           *)
UndoTrunk(q) ==
  /\ At(q, "undo_trunk")
  /\ LET made == req[q].made
         after == IF made.list = None THEN "failed" ELSE "undo_list" IN
       \/ Removed(trunks, trunks', made.trunk) /\ Step(q, after, made)
       \/ /\ Stays(trunks, trunks')
          /\ Step(q, after, made) \/ Step(q, "failed", Nothing)
  /\ UNCHANGED <<line, lists, routes>> /\ Serving

UndoList(q) ==
  /\ At(q, "undo_list")
  /\ \/ Removed(lists, lists', req[q].made.list)
     \/ Stays(lists, lists')
  /\ Step(q, "failed", Nothing)
  /\ UNCHANGED <<line, trunks, routes>> /\ Serving

MutantRollBack(q, made) == Step(q, IF made.route THEN "back_route" ELSE "failed", made)

RollBack(q, made) ==
  Step(q, IF made.trunk # None THEN "back_trunk" ELSE IF made.route THEN "back_route"
          ELSE "failed", made)

PutRoute(q) ==
  /\ At(q, "route")
  /\ LET c == req[q].line  made == req[q].made IN
       \/ routes' = routes \union {c} /\ Step(q, "store", [made EXCEPT !.route = TRUE])
       \/ Lost /\ routes' = routes \union {c} /\ RollBack(q, made)
       \/ Refused /\ UNCHANGED routes /\ RollBack(q, made)
  /\ UNCHANGED <<line, trunks, lists>> /\ Serving

Reached(c) == CASE ModeOf[c] = "ip_trunk" -> "awaiting_provider_setup"
                [] ModeOf[c] = "registration" -> "registering"
                [] OTHER -> "testing"

(* A commit that fails, as it does on a row deleted meanwhile, also makes  *)
(* the session forget what it had loaded: the compensation of a Twilio     *)
(* number then fails itself, on reading the connection's provider.  When   *)
(* the answer cannot be read after the commit, all is taken down again     *)
(* that the row by now names.                                              *)
StoreProvisioned(q) ==
  /\ At(q, "store")
  /\ LET c == req[q].line  seen == req[q].seen  made == req[q].made IN
       \/ /\ line[c] # None
          /\ line' = [line EXCEPT ![c] = Update(@, seen,
                   [seen EXCEPT !.status = Reached(c), !.trunk = made.trunk, !.route = TRUE,
                                !.list = IF Twilio(c) THEN made.list ELSE @,
                                !.enabled = TRUE, !.state = "pending"])]
          /\ Become(q, Idle) \/ ("database" \in env.faults /\ RollBack(q, made))
       \/ /\ CommitFails(c)
          /\ IF Twilio(c) THEN Become(q, Idle) ELSE RollBack(q, made)
          /\ UNCHANGED line
  /\ UNCHANGED <<trunks, lists, routes>> /\ Serving

(* The compensation of provision(): each part may fail and is then let go. *)
BackTrunk(q) ==
  /\ At(q, "back_trunk")
  /\ LET made == req[q].made
         after == IF made.route THEN "back_route" ELSE "failed" IN
       \/ Removed(trunks, trunks', made.trunk) /\ Step(q, "back_list", made)
       \/ Stays(trunks, trunks') /\ Step(q, after, made)
  /\ UNCHANGED <<line, lists, routes>> /\ Serving

BackList(q) ==
  /\ At(q, "back_list")
  /\ \/ Removed(lists, lists', req[q].made.list)
     \/ Stays(lists, lists')
  /\ Step(q, IF req[q].made.route THEN "back_route" ELSE "failed", req[q].made)
  /\ UNCHANGED <<line, trunks, routes>> /\ Serving

BackRoute(q) ==
  /\ At(q, "back_route")
  /\ \/ Removed(routes, routes', req[q].line)
     \/ Stays(routes, routes')
  /\ Step(q, "failed", req[q].made)
  /\ UNCHANGED <<line, trunks, lists>> /\ Serving

(* Then the row says "error".  The credential list stays in its            *)
(* configuration once the Twilio part had succeeded.  Where a route had    *)
(* been made, it was the database that failed, and this commit fails on    *)
(* the session that has spoilt.                                            *)
StoreFailed(q) ==
  /\ At(q, "failed")
  /\ LET c == req[q].line  seen == req[q].seen  made == req[q].made IN
       \/ /\ line[c] # None /\ ~made.route
          /\ line' = [line EXCEPT ![c] = Update(@, seen,
                   [seen EXCEPT !.status = "error", !.enabled = FALSE, !.state = "error",
                                !.list = IF made.list # None THEN made.list ELSE @])]
       \/ (made.route \/ CommitFails(c)) /\ UNCHANGED line
  /\ Become(q, Idle)
  /\ UNCHANGED <<trunks, lists, routes>> /\ Serving

-----------------------------------------------------------------------------
(* Disconnecting removes what the row named when it was read, whatever its *)
(* status.  Any failure ends the request and leaves the row as it is.      *)

FirstDrop(seen) ==
  IF seen.trunk # None THEN "drop_trunk" ELSE IF seen.route THEN "drop_route" ELSE "disconnected"
NextDrop(q) == IF req[q].seen.route THEN "drop_route" ELSE "disconnected"
Proceed(q, op) == Become(q, [req[q] EXCEPT !.op = op])

DisconnectNumber(q) ==
  /\ Free(q)
  /\ \E c \in Connections, delete \in BOOLEAN :
       /\ line[c] # None
       /\ Asked(IF delete THEN "delete_number" ELSE "disconnect_number")
       /\ Become(q, [op |-> FirstDrop(line[c]), line |-> c, seen |-> line[c],
                     delete |-> delete])
  /\ UNCHANGED lineVars /\ Serving

MutantDropFails(q, things, things_, x) == Stays(things, things_) /\ Proceed(q, NextDrop(q))

DropFails(q, things, things_, x) ==
  /\ \/ Stays(things, things_)
     \/ Lost /\ Removed(things, things_, x)
  /\ Become(q, Idle)

DropTrunk(q) ==
  /\ At(q, "drop_trunk")
  /\ LET t == req[q].seen.trunk IN
       \/ /\ Removed(trunks, trunks', t)
          /\ Proceed(q, IF req[q].seen.list # None THEN "drop_list" ELSE NextDrop(q))
       \/ DropFails(q, trunks, trunks', t)
  /\ UNCHANGED <<line, lists, routes>> /\ Serving

DropList(q) ==
  /\ At(q, "drop_list")
  /\ LET t == req[q].seen.list IN
       \/ Removed(lists, lists', t) /\ Proceed(q, NextDrop(q))
       \/ DropFails(q, lists, lists', t)
  /\ UNCHANGED <<line, trunks, routes>> /\ Serving

DropRoute(q) ==
  /\ At(q, "drop_route")
  /\ \/ Removed(routes, routes', req[q].line) /\ Proceed(q, "disconnected")
     \/ DropFails(q, routes, routes', req[q].line)
  /\ UNCHANGED <<line, trunks, lists>> /\ Serving

MutantOff(now) == [now EXCEPT !.state = "disconnected"]
Off(now) == [now EXCEPT !.enabled = FALSE, !.state = "disconnected"]

(* The number's row is loaded only now, and configuration keeps its list.  *)
StoreDisconnected(q) ==
  /\ At(q, "disconnected")
  /\ LET c == req[q].line  seen == req[q].seen IN
       \/ /\ line[c] # None
          /\ line' = [line EXCEPT ![c] =
               Off(Update(@, seen, [seen EXCEPT !.status = "disconnected", !.trunk = None,
                                                !.route = FALSE]))]
          /\ Become(q, IF req[q].delete THEN [op |-> "remove", line |-> c] ELSE Idle)
       \/ CommitFails(c) /\ Become(q, Idle) /\ UNCHANGED line
  /\ UNCHANGED <<trunks, lists, routes>> /\ Serving

(* delete() then deletes both rows, unless a campaign needs the number.    *)
Remove(q) ==
  /\ At(q, "remove")
  /\ \/ line' = [line EXCEPT ![req[q].line] = None]
     \/ Suffers({"in_use", "database"}) /\ UNCHANGED line
  /\ Become(q, Idle)
  /\ UNCHANGED <<trunks, lists, routes>> /\ Serving

-----------------------------------------------------------------------------
(* An inbound call reaches the voice agent along the route, which asks the *)
(* backend to record it if the number is switched on.                      *)
Ring(q) ==
  /\ Free(q) /\ Asked("call")
  /\ \E c \in routes :
       /\ line[c] # None /\ line[c].enabled
       /\ Become(q, [op |-> "ring", line |-> c, state |-> line[c].state])
  /\ UNCHANGED lineVars /\ Serving

(* It takes the subscription lock, and is turned away without minutes; the *)
(* row of the connection is read after that.                               *)
Admit(q) ==
  /\ At(q, "ring") /\ holder = None
  /\ LET c == req[q].line IN
       \/ Become(q, Idle) /\ UNCHANGED holder
       \/ /\ Active /\ line[c] # None
          /\ holder' = q
          /\ Become(q, [op |-> "admit", line |-> c, state |-> req[q].state,
                        seen |-> line[c].status])
  /\ UNCHANGED <<lineVars, setupVars>>

MutantActivate(q) ==
  /\ At(q, "admit")
  /\ LET c == req[q].line IN
       line' = IF line[c] = None THEN line ELSE [line EXCEPT ![c].status = "connected"]
  /\ holder' = None
  /\ Become(q, Idle)
  /\ UNCHANGED <<trunks, lists, routes, setupVars>>

(* The first call makes the connection active.                             *)
Activate(q) ==
  /\ At(q, "admit")
  /\ LET c == req[q].line IN
       \/ /\ line[c] # None /\ req[q].seen # "active"
          /\ line' = [line EXCEPT ![c].status = "active",
                                  ![c].state = Column(@, req[q].state, "connected")]
       \/ (req[q].seen = "active" \/ CommitFails(c)) /\ UNCHANGED line
  /\ holder' = None
  /\ Become(q, Idle)
  /\ UNCHANGED <<trunks, lists, routes, setupVars>>

TelephonyStep ==
  \E q \in Requests :
    \/ AddNumber(q) \/ SetEnabled(q) \/ Provision(q) \/ Claim(q)
    \/ CreateTrunk(q) \/ CreateList(q) \/ Attach(q) \/ UndoTrunk(q) \/ UndoList(q)
    \/ PutRoute(q) \/ StoreProvisioned(q)
    \/ BackTrunk(q) \/ BackList(q) \/ BackRoute(q) \/ StoreFailed(q)
    \/ DisconnectNumber(q) \/ DropTrunk(q) \/ DropList(q) \/ DropRoute(q)
    \/ StoreDisconnected(q) \/ Remove(q)
    \/ Ring(q) \/ Admit(q) \/ Activate(q)

-----------------------------------------------------------------------------
(* Where a provider may refuse to create something and nothing else goes   *)
(* wrong, every trunk, credential list and route that exists is named by   *)
(* its row or belongs to a request still at work: the compensation leaves  *)
(* nothing behind at any of the points where provisioning can fail.        *)
Named(f) == {line[c][f] : c \in {d \in Connections : line[d] # None}}
InMaking(f) == {req[q].made[f] : q \in Working(ProvisionStep)}
CleanRollback ==
  ~Suffers({"parallel", "crash", "lost", "cleanup", "database"}) =>
    /\ trunks \subseteq Named("trunk") \union InMaking("trunk")
    /\ lists \subseteq Named("list") \union InMaking("list")
    /\ \A c \in routes : (line[c] # None /\ line[c].route) \/ InWork(c)

(* The cleanup of delete() always comes first.  As long as requests do not *)
(* overlap, and whatever crashes or goes unanswered, a row stops naming a  *)
(* trunk or a route, or is deleted, only when that trunk or route is gone. *)
Forgets(c, f) == line[c] # None /\ (line'[c] = None \/ line'[c][f] # line[c][f])
NeverForgotten ==
  [][~Suffers({"parallel"}) =>
       \A c \in Connections :
         /\ Forgets(c, "trunk") => line[c].trunk \notin trunks'
         /\ Forgets(c, "route") /\ line[c].route => c \notin routes']_telephonyVars

(* A number is switched on, or its connection active, only while the row   *)
(* names the route to take down again, unless requests overlap or users    *)
(* switch numbers on by themselves.                                        *)
ReadyIsProvisioned ==
  ~Suffers({"parallel"}) /\ ~Asked("enable") =>
    \A c \in Connections : line[c] # None =>
      (line[c].enabled \/ line[c].status = "active" => line[c].route)
=============================================================================
