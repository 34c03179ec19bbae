------------------------------ MODULE Extensions ------------------------------
(***************************************************************************)
(* Internal extensions: a row and an endpoint in Asterisk that repeats it. *)
(* Every change sends Asterisk the whole endpoint, computed from the row   *)
(* as it was read, and commits the row only after Asterisk has accepted.   *)
(* There is no reconciliation: what a failed change leaves in Asterisk     *)
(* stays until the next change of the same extension, and what a failed    *)
(* create leaves there stays for good.  That the numbers of a company      *)
(* differ is a constraint of the database and left out.                    *)
(***************************************************************************)
EXTENDS Workspace

CONSTANTS
  Extensions,   \* identities of rows, new for every create
  Passwords,    \* generated SIP passwords; more than one
  Names         \* display names

(* database: a commit fails.                                               *)
ExtensionFaults == {"database"}
ExtensionOperations == {"new_extension", "rename", "switch", "rotate", "delete_extension"}

(* The row is "active" when it is enabled and "disabled" when it is not.   *)
Extension == [password : Passwords, enabled : BOOLEAN, name : Names]

ASSUME ExtensionsAssumption == None \notin Extension

ExtensionRequest ==
  [op : {"new_row"}, extension : Extensions, new : Extension]
  \union [op : {"change_row"}, extension : Extensions, seen : Extension, new : Extension]
  \union [op : {"delete_row", "forget"}, extension : Extensions]

VARIABLES
  row,       \* rows of extensions, None where there is none
  endpoint   \* endpoints in Asterisk, None where there is none

extensionVars == <<row, endpoint>>

ExtensionsTypeOK ==
  /\ row \in [Extensions -> Extension \union {None}]
  /\ endpoint \in [Extensions -> Extension \union {None}]

ExtensionsInit ==
  /\ row = [x \in Extensions |-> None]
  /\ endpoint = [x \in Extensions |-> None]

-----------------------------------------------------------------------------
OnExtension == {"new_row", "change_row", "delete_row", "forget"}
Rest == UNCHANGED <<env, sub, holder, agents, integ, tested, catalogVars>>

MutantTell(q, x, state, next) ==
  \/ endpoint' = [endpoint EXCEPT ![x] = state] /\ Become(q, next)
  \/ "refuse" \in env.faults /\ UNCHANGED endpoint /\ Become(q, next)

(* Asterisk answers, refuses, or does it without its answer arriving; then *)
(* the request ends with nothing stored.                                   *)
Tell(q, x, state, next) ==
  \/ endpoint' = [endpoint EXCEPT ![x] = state] /\ Become(q, next)
  \/ /\ "lost" \in env.faults
     /\ endpoint' = [endpoint EXCEPT ![x] = state] /\ Become(q, Idle)
  \/ "refuse" \in env.faults /\ UNCHANGED endpoint /\ Become(q, Idle)

(* Identities bound how many rows and endpoints there can be.              *)
Fresh ==
  {x \in Extensions : /\ row[x] = None /\ endpoint[x] = None
                      /\ \A q \in Requests : req[q].op \in OnExtension => req[q].extension # x}

(* The row is inserted but not committed while Asterisk is asked: until    *)
(* then nobody else sees it, and a failure leaves no row.                  *)
CreateExtension(q) ==
  /\ Free(q) /\ Asked("new_extension")
  /\ \/ \E x \in Fresh, password \in Passwords, name \in Names :
          LET new == [password |-> password, enabled |-> TRUE, name |-> name] IN
            Tell(q, x, new, [op |-> "new_row", extension |-> x, new |-> new])
     \/ Fresh = {} /\ UNCHANGED <<endpoint, req>>
  /\ UNCHANGED row /\ Rest

(* When the commit fails, or only the refresh after it, Asterisk is told   *)
(* to forget it again.                                                     *)
StoreExtension(q) ==
  /\ req[q].op = "new_row"
  /\ LET x == req[q].extension  stored == [row EXCEPT ![x] = req[q].new] IN
       \/ row' = stored /\ Become(q, Idle)
       \/ /\ "database" \in env.faults
          /\ row' \in {row, stored}
          /\ Become(q, [op |-> "forget", extension |-> x])
  /\ UNCHANGED endpoint /\ Rest

ForgetExtension(q) ==
  /\ req[q].op = "forget"
  /\ Tell(q, req[q].extension, None, Idle)
  /\ UNCHANGED row /\ Rest

(* What update, set_enabled and rotate_password make of the row they read. *)
Changes(x) ==
  (IF Asked("rename") THEN {[row[x] EXCEPT !.name = n] : n \in Names} ELSE {})
  \union (IF Asked("switch") THEN {[row[x] EXCEPT !.enabled = e] : e \in BOOLEAN} ELSE {})
  \union (IF Asked("rotate")
            THEN {[row[x] EXCEPT !.password = p] : p \in Passwords \ {row[x].password}}
            ELSE {})

ChangeExtension(q) ==
  /\ Free(q)
  /\ \E x \in Extensions :
       /\ row[x] # None
       /\ \E new \in Changes(x) :
            Tell(q, x, new, [op |-> "change_row", extension |-> x, seen |-> row[x], new |-> new])
  /\ UNCHANGED row /\ Rest

(* The commit writes the columns that changed; it also fails when the row  *)
(* has been deleted since it was read.                                     *)
StoreChange(q) ==
  /\ req[q].op = "change_row"
  /\ LET x == req[q].extension  seen == req[q].seen  new == req[q].new IN
       \/ /\ row[x] # None
          /\ row' = [row EXCEPT ![x].password = Column(@, seen.password, new.password),
                                ![x].enabled = Column(@, seen.enabled, new.enabled),
                                ![x].name = Column(@, seen.name, new.name)]
       \/ (row[x] = None \/ "database" \in env.faults) /\ UNCHANGED row
  /\ Become(q, Idle)
  /\ UNCHANGED endpoint /\ Rest

(* Asterisk first, so that a delete that fails half way can be repeated.   *)
DeleteExtension(q) ==
  /\ Free(q) /\ Asked("delete_extension")
  /\ \E x \in Extensions :
       /\ row[x] # None
       /\ Tell(q, x, None, [op |-> "delete_row", extension |-> x])
  /\ UNCHANGED row /\ Rest

RemoveRow(q) ==
  /\ req[q].op = "delete_row"
  /\ \/ row' = [row EXCEPT ![req[q].extension] = None]
     \/ "database" \in env.faults /\ UNCHANGED row
  /\ Become(q, Idle)
  /\ UNCHANGED endpoint /\ Rest

ExtensionStep ==
  \E q \in Requests :
    \/ CreateExtension(q) \/ StoreExtension(q) \/ ForgetExtension(q)
    \/ ChangeExtension(q) \/ StoreChange(q) \/ DeleteExtension(q) \/ RemoveRow(q)

(* Whatever becomes of a row, Asterisk has it already: when a row appears, *)
(* changes or goes, its endpoint is exactly what the row now says, so that *)
(* any later change repairs what crashes and lost answers left behind.     *)
(* Overlapping requests are excepted: they commit in another order than    *)
(* Asterisk was told.                                                      *)
RowFollowsEndpoint ==
  [][\A x \in Extensions :
       "parallel" \notin env.faults /\ row'[x] # row[x] => endpoint'[x] = row'[x]
    ]_<<extensionVars, workspaceVars>>
=============================================================================
