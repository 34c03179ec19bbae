------------------------------- MODULE Accounts -------------------------------
(***************************************************************************)
(* Accounts of a company and the tokens that act for them: a link that     *)
(* verifies an address, a link that resets a password, and the refresh     *)
(* tokens of a login, each of which is exchanged for the next.  A request  *)
(* reads a token and its user and commits what follows from them; nothing  *)
(* is locked between.  Links reach their user by e-mail, at best.          *)
(*                                                                         *)
(* Access tokens, which are not stored, and rate limits are left out.      *)
(***************************************************************************)
EXTENDS Tasks

CONSTANTS
  Users,      \* identities of users, each with an address of its own
  Tokens,     \* identities of tokens
  Passwords,
  MaxFails    \* MAX_FAILED_LOGIN_ATTEMPTS

TokenType == {"email_verification", "password_reset", "refresh_token"}
TokenState == {"unused", "used", "expired"}

User == [active : BOOLEAN, verified : BOOLEAN, password : Passwords,
         fails : 0..MaxFails, locked : BOOLEAN]

(* root is the refresh token of the login, and given the password at its   *)
(* issue; both are history.                                                *)
Token == [type : TokenType, user : Users, state : TokenState, root : Tokens,
          given : Passwords]

ASSUME AccountsAssumption ==
  MaxFails \in Nat \ {0} /\ Passwords # {} /\ None \notin User \union Token

AccountRequest ==
  [op : {"log_in", "fail", "verify", "reset"}, user : Users, seen : User,
   token : Tokens \union {None}, status : CompanyStatus \union {None}]
  \union [op : {"refresh", "resend", "forgot"}, user : Users, token : Tokens \union {None}]
  \union [op : {"mail"}, token : Tokens]

AccountOperations ==
  {"signup", "login", "refresh", "verify", "resend", "forgot", "reset",
   "create_user", "update_user", "delete_user", "set_status", "time"}

VARIABLES
  users,   \* rows of users, None where there is none
  tokens,  \* rows of auth_tokens, None where there is none
  inbox    \* tokens that have reached their user by e-mail

accountVars == <<users, tokens, inbox>>

AccountsTypeOK ==
  /\ users \in [Users -> User \union {None}]
  /\ tokens \in [Tokens -> Token \union {None}]
  /\ inbox \subseteq Tokens

AccountsInit ==
  /\ users = [u \in Users |-> None]
  /\ tokens = [t \in Tokens |-> None]
  /\ inbox = {}

-----------------------------------------------------------------------------
Usable(t) == tokens[t] # None /\ tokens[t].state = "unused"
Running == company \in {"trial", "active"}

(* Tokens bounds how many there can be.  A new one is new everywhere, also *)
(* to requests and workers that still hold one of a deleted user, and any  *)
(* new one is as good as another.                                          *)
OnToken == {"verify", "reset", "refresh", "mail"}
Fresh ==
  {t \in Tokens :
     /\ tokens[t] = None /\ t \notin inbox /\ ~Pending("email", t)
     /\ \A q \in Working(OnToken) : req[q].token # t
     /\ \A w \in Jobs("email") : Of(w) # t}
NewToken == CHOOSE t \in Fresh : TRUE

Issue(rest, type, u) ==
  [rest EXCEPT ![NewToken] = [type |-> type, user |-> u, state |-> "unused",
                              root |-> NewToken, given |-> users'[u].password]]

(* An UPDATE of every unused token of one type.                            *)
Invalidate(u, type) ==
  [t \in Tokens |-> IF Usable(t) /\ tokens[t].user = u /\ tokens[t].type = type
                      THEN [tokens[t] EXCEPT !.state = "used"] ELSE tokens[t]]
Use(rest, t) == [rest EXCEPT ![t].state = "used"]

Keep == UNCHANGED <<env, queue, job, inbox>>
New(user) == [active |-> TRUE, verified |-> user, password |-> CHOOSE p \in Passwords : TRUE,
              fails |-> 0, locked |-> FALSE]

(* Company, trial, user and link are one transaction; the unique address   *)
(* admits one of two signups.  The e-mail is queued afterwards.  Whoever   *)
(* signs up after a company is deleted makes another, not this one.        *)
Signup(q) ==
  /\ Free(q) /\ Asked("signup") /\ company = None /\ env.company = None
  /\ Fresh # {}
  /\ \E u \in Users :
       /\ users[u] = None
       /\ users' = [users EXCEPT ![u] = New(FALSE)]
       /\ tokens' = Issue(tokens, "email_verification", u)
       /\ Become(q, [op |-> "mail", token |-> NewToken])
  /\ company' = "pending_verification"
  /\ Keep

(* Best effort.                                                            *)
Mail(q) ==
  /\ At(q, "mail")
  /\ Publish("email", req[q].token)
  /\ Become(q, Idle)
  /\ UNCHANGED <<env, company, job, accountVars>>

SendEmail(w) ==
  /\ InJob(w, "email", "start")
  /\ \/ inbox' = inbox \union {Of(w)} /\ Finish(w)
     \/ Fault("lost") /\ inbox' = inbox \union {Of(w)} /\ TryAgain(w)
     \/ Fault("refuse") /\ UNCHANGED inbox /\ TryAgain(w)
  /\ UNCHANGED <<env, company, req, users, tokens>>

-----------------------------------------------------------------------------
(* Logging in.  Attempts are counted in Python, from the row as read.      *)
Login(q) ==
  /\ Free(q) /\ Asked("login")
  /\ \E u \in Users, right \in BOOLEAN :
       /\ users[u] # None /\ ~users[u].locked
       /\ right => users[u].active /\ users[u].verified /\ Running
       /\ Become(q, [op |-> IF right THEN "log_in" ELSE "fail", user |-> u, seen |-> users[u],
                     token |-> None, status |-> None])
  /\ UNCHANGED <<company, users, tokens>> /\ Keep

FailLogin(q) ==
  /\ At(q, "fail")
  /\ LET u == req[q].user  fails == req[q].seen.fails + 1 IN
       users' = IF users[u] = None THEN users
                ELSE [users EXCEPT ![u].fails = IF fails < MaxFails THEN fails ELSE MaxFails,
                                   ![u].locked = @ \/ fails >= MaxFails]
  /\ Become(q, Idle)
  /\ UNCHANGED <<company, tokens>> /\ Keep

LogIn(q) ==
  /\ At(q, "log_in")
  /\ LET u == req[q].user  seen == req[q].seen IN
       IF users[u] = None \/ Fresh = {}
         THEN UNCHANGED <<users, tokens>>
         ELSE /\ users' = [users EXCEPT ![u].fails = Written(@, seen.fails, 0)]
              /\ tokens' = Issue(tokens, "refresh_token", u)
  /\ Become(q, Idle)
  /\ UNCHANGED company /\ Keep

(* The lock ends by the clock, and leaves the count; so do tokens.         *)
TimePasses ==
  /\ Asked("time")
  /\ \/ \E u \in Users :
          /\ users[u] # None /\ users[u].locked
          /\ users' = [users EXCEPT ![u].locked = FALSE]
          /\ UNCHANGED tokens
     \/ \E t \in Tokens :
          /\ Usable(t)
          /\ tokens' = [tokens EXCEPT ![t].state = "expired"]
          /\ UNCHANGED users
  /\ UNCHANGED <<company, req>> /\ Keep

ReadRefresh(q) ==
  /\ Free(q) /\ Asked("refresh") /\ Running
  /\ \E t \in Tokens :
       /\ Usable(t) /\ tokens[t].type = "refresh_token"
       /\ users[tokens[t].user].active /\ users[tokens[t].user].verified
       /\ Become(q, [op |-> "refresh", user |-> tokens[t].user, token |-> t])
  /\ UNCHANGED <<company, users, tokens>> /\ Keep

MutantRotate(t) == tokens

(* The old token is used up in the transaction that adds the new one.      *)
Rotate(t) == Use(tokens, t)

Refresh(q) ==
  /\ At(q, "refresh")
  /\ LET t == req[q].token  u == req[q].user IN
       IF tokens[t] = None \/ Fresh = {}
         THEN UNCHANGED tokens
         ELSE tokens' = [Rotate(t) EXCEPT ![NewToken] =
                [tokens[t] EXCEPT !.state = "unused", !.given = users[u].password]]
  /\ Become(q, Idle)
  /\ UNCHANGED <<company, users>> /\ Keep

-----------------------------------------------------------------------------
(* Links.  Whoever follows one has received it.                            *)
Follow(q, op, type) ==
  \E t \in inbox :
    /\ Usable(t) /\ tokens[t].type = type
    /\ Become(q, [op |-> op, user |-> tokens[t].user, seen |-> users[tokens[t].user],
                  token |-> t, status |-> company])

ReadVerification(q) ==
  /\ Free(q) /\ Asked("verify")
  /\ Follow(q, "verify", "email_verification")
  /\ UNCHANGED <<company, users, tokens>> /\ Keep

(* The first verification starts the trial; the user is logged in.         *)
VerifyEmail(q) ==
  /\ At(q, "verify")
  /\ LET u == req[q].user  seen == req[q].seen  t == req[q].token IN
       IF tokens[t] = None \/ Fresh = {}
         THEN UNCHANGED <<company, users, tokens>>
         ELSE /\ users' = [users EXCEPT ![u].verified = Written(@, seen.verified, TRUE),
                                        ![u].active = Written(@, seen.active, TRUE)]
              /\ company' = IF req[q].status = "pending_verification" THEN "trial" ELSE company
              /\ tokens' = Issue(Use(tokens, t), "refresh_token", u)
  /\ Become(q, Idle)
  /\ Keep

(* Resending does nothing within a minute of the last link.                *)
ReadResend(q) ==
  /\ Free(q) /\ Asked("resend")
  /\ \E u \in Users :
       /\ users[u] # None /\ ~users[u].verified
       /\ Become(q, [op |-> "resend", user |-> u, token |-> None])
  /\ UNCHANGED <<company, users, tokens>> /\ Keep

ReadForgot(q) ==
  /\ Free(q) /\ Asked("forgot")
  /\ \E u \in Users :
       /\ users[u] # None /\ users[u].active
       /\ Become(q, [op |-> "forgot", user |-> u, token |-> None])
  /\ UNCHANGED <<company, users, tokens>> /\ Keep

(* A new link replaces the unused ones of its kind.                        *)
NewLink(q, op, type) ==
  /\ At(q, op)
  /\ UNCHANGED <<company, users>> /\ Keep
  /\ LET u == req[q].user IN
       IF users[u] = None \/ Fresh = {}
         THEN UNCHANGED tokens /\ Become(q, Idle)
         ELSE /\ tokens' = Issue(Invalidate(u, type), type, u)
              /\ Become(q, [op |-> "mail", token |-> NewToken])

ResendVerification(q) == NewLink(q, "resend", "email_verification")
ForgotPassword(q) == NewLink(q, "forgot", "password_reset")

ReadReset(q) ==
  /\ Free(q) /\ Asked("reset")
  /\ Follow(q, "reset", "password_reset")
  /\ UNCHANGED <<company, users, tokens>> /\ Keep

(* A new password ends every session.                                      *)
ResetPassword(q) ==
  /\ At(q, "reset")
  /\ LET u == req[q].user  t == req[q].token IN
       IF tokens[t] = None
         THEN UNCHANGED <<users, tokens>>
         ELSE /\ \E p \in Passwords :
                   users' = [users EXCEPT ![u].password = p,
                               ![u].fails = Written(@, req[q].seen.fails, 0),
                               ![u].locked = Written(@, req[q].seen.locked, FALSE)]
              /\ tokens' = Use(Invalidate(u, "refresh_token"), t)
  /\ Become(q, Idle)
  /\ UNCHANGED company /\ Keep

-----------------------------------------------------------------------------
(* What administrators do.  A user they add is taken to be verified.       *)
CreateUser(q) ==
  /\ Free(q) /\ Asked("create_user") /\ company # None
  /\ \E u \in Users :
       /\ users[u] = None
       /\ users' = [users EXCEPT ![u] = New(TRUE)]
  /\ UNCHANGED <<company, req, tokens>> /\ Keep

UpdateUser(q) ==
  /\ Free(q) /\ Asked("update_user")
  /\ \E u \in Users, active \in BOOLEAN, p \in Passwords :
       /\ users[u] # None
       /\ users' = [users EXCEPT ![u].active = active, ![u].password = p]
  /\ UNCHANGED <<company, req, tokens>> /\ Keep

(* A user's tokens go with the user.                                       *)
Orphaned(gone) ==
  [t \in Tokens |-> IF tokens[t] # None /\ tokens[t].user \in gone THEN None ELSE tokens[t]]

DeleteUser(q) ==
  /\ Free(q) /\ Asked("delete_user")
  /\ \E u \in Users :
       /\ users[u] # None
       /\ users' = [users EXCEPT ![u] = None]
       /\ tokens' = Orphaned({u})
  /\ UNCHANGED <<company, req>> /\ Keep

SetCompanyStatus(q) ==
  /\ Free(q) /\ Asked("set_status") /\ company # None
  /\ company' \in CompanyStatus
  /\ UNCHANGED <<req, users, tokens>> /\ Keep

AccountAsked(q) ==
  \/ Signup(q) \/ Login(q) \/ ReadRefresh(q) \/ ReadVerification(q) \/ ReadResend(q)
  \/ ReadForgot(q) \/ ReadReset(q)
  \/ CreateUser(q) \/ UpdateUser(q) \/ DeleteUser(q) \/ SetCompanyStatus(q)

AccountGoesOn(q) ==
  \/ Mail(q) \/ FailLogin(q) \/ LogIn(q) \/ Refresh(q) \/ VerifyEmail(q)
  \/ ResendVerification(q) \/ ForgotPassword(q) \/ ResetPassword(q)

AccountTask(w) == SendEmail(w)

-----------------------------------------------------------------------------
(* As long as requests do not overlap: a user has one usable link of each  *)
(* kind at most; a login has one usable refresh token at most, through any *)
(* number of exchanges; and a session outlives no reset of the password,   *)
(* wherever a request dies and whatever e-mail is lost.                    *)
OneLinkEach ==
  \A s, t \in Tokens :
    /\ Usable(s) /\ Usable(t)
    /\ tokens[s].user = tokens[t].user /\ tokens[s].type = tokens[t].type
    /\ tokens[s].type # "refresh_token" \/ tokens[s].root = tokens[t].root
    => s = t

SessionsKnowPassword ==
  \A t \in Tokens :
    Usable(t) /\ tokens[t].type = "refresh_token" /\ ~Asked("update_user")
      => tokens[t].given = users[tokens[t].user].password

TokensSound == ~Fault("parallel") => OneLinkEach /\ SessionsKnowPassword
=============================================================================
