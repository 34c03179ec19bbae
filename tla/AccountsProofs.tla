---------------------------- MODULE AccountsProofs ----------------------------
(***************************************************************************)
(* What is promised of links and sessions, proved: TokensSound, for any    *)
(* number of users, tokens and requests, wherever a request dies and       *)
(* whatever e-mail is lost.                                                *)
(***************************************************************************)
EXTENDS BackOfficeProofs

(* The refresh token a login began with stays as long as its user, so that *)
(* no later login is mistaken for this one; and the token a request is     *)
(* about to exchange is the only one of its login that could be.           *)
Roots ==
  \A t \in Tokens : tokens[t] # None /\ tokens[t].type = "refresh_token" =>
    /\ tokens[t].root \in Tokens /\ tokens[tokens[t].root] # None
    /\ tokens[tokens[t].root].user = tokens[t].user

Alike(s, t) ==
  /\ tokens[s].user = tokens[t].user /\ tokens[s].type = tokens[t].type
  /\ tokens[s].type # "refresh_token" \/ tokens[s].root = tokens[t].root
Sole(t) == \A s \in Tokens : Usable(s) /\ Alike(s, t) => s = t

Exchanged ==
  \A q \in Requests : req[q].op = "refresh" /\ tokens[req[q].token] # None =>
    tokens[req[q].token].type = "refresh_token" /\ Sole(req[q].token)

TokensI == Serial => Roots /\ OneLinkEach /\ SessionsKnowPassword /\ Exchanged

-----------------------------------------------------------------------------
(* What a step does to tokens.  Those there were keep what they are, and   *)
(* never become usable again; they go with their user; one that is added   *)
(* begins a login or goes on with one, and has none beside it; and a       *)
(* password changes only with the sessions that knew it.                   *)
Age ==
  \A t \in Tokens : tokens[t] # None /\ tokens'[t] # None =>
    /\ tokens'[t].user = tokens[t].user /\ tokens'[t].type = tokens[t].type
    /\ tokens'[t].root = tokens[t].root /\ tokens'[t].given = tokens[t].given
    /\ tokens'[t].state = "unused" => tokens[t].state = "unused"

GoWithUser ==
  \A s, t \in Tokens : tokens[t] # None /\ tokens'[t] = None /\ tokens'[s] # None =>
    tokens'[s].user # tokens[t].user

Issued(t) ==
  /\ Sole(t)'
  /\ tokens'[t].type = "refresh_token" =>
       /\ tokens'[t].given = users'[tokens'[t].user].password
       /\ \/ tokens'[t].root = t
          \/ /\ tokens'[t].root \in Tokens /\ tokens[tokens'[t].root] # None
             /\ tokens[tokens'[t].root].user = tokens'[t].user

PasswordsKept ==
  ~Asked("update_user") =>
    \A t \in Tokens :
      tokens[t] # None /\ tokens'[t] # None /\ tokens'[t].state = "unused"
        /\ tokens'[t].type = "refresh_token"
        => users'[tokens'[t].user].password = users[tokens'[t].user].password

TokensMove ==
  /\ Age /\ GoWithUser /\ PasswordsKept
  /\ \A t \in Tokens : tokens[t] = None /\ tokens'[t] # None => Issued(t)

LEMMA RootsMove ==
  ASSUME Roots, TokensMove
  PROVE  Roots'
  BY DEF Roots, TokensMove, Age, GoWithUser, Issued

LEMMA LinksMove ==
  ASSUME OneLinkEach, TokensMove
  PROVE  OneLinkEach'
<1> SUFFICES ASSUME NEW s \in Tokens, NEW t \in Tokens, Usable(s)', Usable(t)', Alike(s, t)'
             PROVE  s = t
  BY DEF OneLinkEach, Alike
<1>1. CASE tokens[s] = None
  <2>1. Sole(s)'
    BY <1>1 DEF TokensMove, Issued, Usable
  <2> QED BY <2>1 DEF Sole, Alike
<1>2. CASE tokens[t] = None
  BY <1>2 DEF TokensMove, Issued, Usable, Sole
<1>3. CASE tokens[s] # None /\ tokens[t] # None
  <2>1. Usable(s) /\ Usable(t)
    BY <1>3 DEF TokensMove, Age, Usable
  <2>2. Alike(s, t)
    BY <1>3 DEF TokensMove, Age, Usable, Alike
  <2> QED BY <2>1, <2>2 DEF OneLinkEach, Alike
<1> QED BY <1>1, <1>2, <1>3

LEMMA SessionsMove ==
  ASSUME SessionsKnowPassword, TokensMove, env' = env
  PROVE  SessionsKnowPassword'
<1> SUFFICES ASSUME NEW t \in Tokens, Usable(t)', tokens'[t].type = "refresh_token",
                    ~Asked("update_user")
             PROVE  tokens'[t].given = users'[tokens'[t].user].password
  BY DEF SessionsKnowPassword, Asked
<1>1. CASE tokens[t] = None
  BY <1>1 DEF TokensMove, Issued, Usable
<1>2. CASE tokens[t] # None
  <2>1. /\ Usable(t) /\ tokens[t].type = "refresh_token"
        /\ tokens'[t].given = tokens[t].given /\ tokens'[t].user = tokens[t].user
    BY <1>2 DEF TokensMove, Age, Usable
  <2>2. users'[tokens'[t].user].password = users[tokens'[t].user].password
    BY <1>2 DEF TokensMove, PasswordsKept, Usable
  <2> QED BY <2>1, <2>2 DEF SessionsKnowPassword
<1> QED BY <1>1, <1>2

(* A request that holds a token while none is added.                       *)
LEMMA ExchangeKept ==
  ASSUME Exchanged, Age, NEW q \in Requests, req'[q].op = "refresh", req'[q] = req[q],
         req[q].token \in Tokens, tokens'[req'[q].token] # None,
         \A t \in Tokens : tokens'[t] # None => tokens[t] # None
  PROVE  tokens'[req'[q].token].type = "refresh_token" /\ Sole(req[q].token)'
<1> DEFINE t == req[q].token
<1>1. /\ tokens[t] # None /\ tokens[t].type = "refresh_token" /\ Sole(t)
  BY DEF Exchanged
<1>2. ASSUME NEW s \in Tokens, Usable(s)', Alike(s, t)' PROVE s = t
  <2>1. tokens[s] # None /\ Usable(s)
    BY <1>2 DEF Usable, Age
  <2>2. Alike(s, t)
    BY <1>1, <1>2, <2>1 DEF Age, Alike, Usable
  <2> QED BY <1>1, <2>1, <2>2 DEF Sole
<1> QED BY <1>1, <1>2 DEF Sole, Age

-----------------------------------------------------------------------------
(* The ways tokens move.                                                   *)
Aging(rest) ==
  /\ rest \in [Tokens -> Token \union {None}]
  /\ \A t \in Tokens : rest[t] = None <=> tokens[t] = None
  /\ \A t \in Tokens : tokens[t] # None =>
       /\ rest[t].user = tokens[t].user /\ rest[t].type = tokens[t].type
       /\ rest[t].root = tokens[t].root /\ rest[t].given = tokens[t].given
       /\ rest[t].state = "unused" => tokens[t].state = "unused"

LEMMA TokenFields ==
  ASSUME NEW x \in Token, NEW s \in TokenState
  PROVE  /\ [x EXCEPT !.state = s] \in Token
         /\ [x EXCEPT !.state = s].user = x.user /\ [x EXCEPT !.state = s].type = x.type
         /\ [x EXCEPT !.state = s].root = x.root /\ [x EXCEPT !.state = s].given = x.given
         /\ [x EXCEPT !.state = s].state = s
         /\ [x EXCEPT !.state = s] # None /\ x # None
  BY AccountsAssumption DEF Token

LEMMA AgingTokens ==
  ASSUME AccountsTypeOK
  PROVE  /\ Aging(tokens)
         /\ \A u, type : Aging(Invalidate(u, type))
         /\ \A rest : Aging(rest) =>
              \A t \in Tokens, s \in {"used", "expired"} :
                tokens[t] # None => Aging([rest EXCEPT ![t].state = s])
<1>1. Aging(tokens)
  BY DEF Aging, AccountsTypeOK
<1>2. ASSUME NEW u, NEW type PROVE Aging(Invalidate(u, type))
  <2>1. Invalidate(u, type) \in [Tokens -> Token \union {None}]
    BY OlderTokens DEF Older
  <2>2. ASSUME NEW t \in Tokens, tokens[t] # None
        PROVE  /\ Invalidate(u, type)[t] # None
               /\ Invalidate(u, type)[t].user = tokens[t].user
               /\ Invalidate(u, type)[t].type = tokens[t].type
               /\ Invalidate(u, type)[t].root = tokens[t].root
               /\ Invalidate(u, type)[t].given = tokens[t].given
               /\ Invalidate(u, type)[t].state = "unused" => tokens[t].state = "unused"
    <3>1. tokens[t] \in Token
      BY <2>2 DEF AccountsTypeOK
    <3> DEFINE y == [tokens[t] EXCEPT !.state = "used"]
    <3>2. Invalidate(u, type)[t] \in {tokens[t], y}
      BY DEF Invalidate
    <3>3. /\ y # None /\ y.user = tokens[t].user /\ y.type = tokens[t].type
          /\ y.root = tokens[t].root /\ y.given = tokens[t].given /\ y.state = "used"
      BY <3>1, TokenFields DEF TokenState
    <3> HIDE DEF y
    <3> QED BY <2>2, <3>2, <3>3
  <2>3. \A t \in Tokens : tokens[t] = None => Invalidate(u, type)[t] = None
    BY DEF Invalidate, Usable
  <2> QED BY <2>1, <2>2, <2>3 DEF Aging
<1>3. ASSUME NEW rest, Aging(rest), NEW t \in Tokens, NEW s \in {"used", "expired"},
             tokens[t] # None
      PROVE  Aging([rest EXCEPT ![t].state = s])
  <2>1. rest[t] \in Token /\ s \in TokenState /\ s # "unused"
    BY <1>3 DEF Aging, TokenState
  <2> DEFINE x == [rest[t] EXCEPT !.state = s]
  <2>2. /\ x \in Token /\ x.user = rest[t].user /\ x.type = rest[t].type /\ x.root = rest[t].root
        /\ x.given = rest[t].given /\ x.state = s /\ x # None
    BY <2>1, TokenFields
  <2>3. [rest EXCEPT ![t].state = s] = [rest EXCEPT ![t] = x]
    BY <1>3 DEF Aging
  <2> HIDE DEF x
  <2> QED BY <1>3, <2>1, <2>2, <2>3 DEF Aging
<1> QED BY <1>1, <1>2, <1>3

LEMMA AgingMove ==
  ASSUME Aging(tokens'), PasswordsKept
  PROVE  TokensMove
  BY DEF Aging, TokensMove, Age, GoWithUser

(* Passwords of users that stay.                                           *)
Remembered ==
  \A v \in Users : users[v] # None /\ users'[v] # None =>
    users'[v].password = users[v].password

LEMMA RememberedKept ==
  ASSUME AccountsTypeOK, TokensOwned, TokensOwned', Age, Remembered
  PROVE  PasswordsKept
<1> SUFFICES ASSUME NEW t \in Tokens, tokens[t] # None, tokens'[t] # None
             PROVE  users'[tokens'[t].user].password = users[tokens'[t].user].password
  BY DEF PasswordsKept
<1>1. tokens[t].user \in Users /\ tokens'[t].user = tokens[t].user
  BY TokenUpdates DEF AccountsTypeOK, Age
<1>2. users[tokens[t].user] \in User /\ users'[tokens[t].user] \in User
  BY <1>1 DEF TokensOwned
<1>3. \A x \in User : x # None
  BY AccountsAssumption
<1> QED BY <1>1, <1>2, <1>3 DEF Remembered

LEMMA IssueMove ==
  ASSUME AccountsTypeOK, TokensOwned, TokensOwned', Roots, Remembered,
         NEW rest, Aging(rest), NEW u \in Users, NEW type \in TokenType, Fresh # {},
         tokens' = Issue(rest, type, u),
         type # "refresh_token" =>
           \A t \in Tokens : rest[t] # None /\ rest[t].user = u /\ rest[t].type = type
                             => rest[t].state # "unused"
  PROVE  TokensMove
<1>0. PICK n : n = NewToken
  OBVIOUS
<1>1. n \in Tokens /\ tokens[n] = None
  BY <1>0, FreshToken
<1> DEFINE new == [type |-> type, user |-> u, state |-> "unused",
                   root |-> n, given |-> users'[u].password]
<1>2. tokens' = [rest EXCEPT ![n] = new]
  BY <1>0 DEF Issue
<1>3. /\ new.type = type /\ new.user = u /\ new.root = n
      /\ new.given = users'[u].password
  OBVIOUS
<1> HIDE DEF new
<1>4. /\ tokens'[n] = new
      /\ \A t \in Tokens \ {n} : tokens'[t] = rest[t]
  BY <1>1, <1>2 DEF Aging
<1>5. Age /\ GoWithUser
  BY <1>1, <1>4 DEF Aging, Age, GoWithUser
<1>6. ASSUME NEW s \in Tokens, Usable(s)', Alike(s, n)' PROVE s = n
  <2> SUFFICES ASSUME s # n PROVE FALSE
    OBVIOUS
  <2>1. /\ rest[s] # None /\ rest[s].state = "unused" /\ rest[s].user = u
        /\ rest[s].type = type /\ (type # "refresh_token" \/ rest[s].root = n)
    BY <1>3, <1>4, <1>6 DEF Usable, Alike
  <2>2. type = "refresh_token" /\ rest[s].root = n
    BY <2>1
  <2>3. tokens[s] # None /\ tokens[s].type = "refresh_token" /\ tokens[s].root = n
    BY <2>1, <2>2 DEF Aging
  <2> QED BY <1>1, <2>3 DEF Roots
<1>7. Issued(n)
  BY <1>3, <1>4, <1>6 DEF Issued, Sole
<1>8. PasswordsKept
  BY <1>5, RememberedKept
<1> QED BY <1>1, <1>4, <1>5, <1>7, <1>8 DEF TokensMove, Aging

-----------------------------------------------------------------------------
(* The operations.                                                         *)
LEMMA OwnsNone ==
  ASSUME TokensOwned, AccountsTypeOK, NEW u \in Users, users[u] = None
  PROVE  \A t \in Tokens : tokens[t] # None => tokens[t].user # u
<1>1. None \notin User
  BY AccountsAssumption
<1> QED BY <1>1 DEF TokensOwned

LEMMA SignupMove ==
  ASSUME Typed, Typed', Roots, NEW q \in Requests, Signup(q)
  PROVE  TokensMove
<1> USE DEF Typed, TypedState
<1>1. PICK u \in Users :
        /\ users[u] = None /\ users' = [users EXCEPT ![u] = New(FALSE)]
        /\ tokens' = Issue(tokens, "email_verification", u)
  BY DEF Signup
<1>2. Fresh # {}
  BY DEF Signup
<1>3. Remembered
  BY <1>1 DEF Remembered, AccountsTypeOK
<1> QED BY <1>1, <1>2, <1>3, OwnsNone, AgingTokens, IssueMove DEF TokenType

LEMMA CreateMove ==
  ASSUME Typed, Typed', NEW q \in Requests, CreateUser(q)
  PROVE  TokensMove
<1> USE DEF Typed, TypedState
<1>1. PICK u \in Users : users[u] = None /\ users' = [users EXCEPT ![u] = New(TRUE)]
  BY DEF CreateUser
<1>2. tokens' = tokens /\ Remembered
  BY <1>1 DEF CreateUser, Remembered, AccountsTypeOK
<1>3. Aging(tokens') /\ Age
  BY <1>2, AgingTokens DEF Aging, Age
<1> QED BY <1>2, <1>3, RememberedKept, AgingMove

LEMMA UpdateMove ==
  ASSUME Typed, Typed', NEW q \in Requests, UpdateUser(q)
  PROVE  TokensMove
<1> USE DEF Typed, TypedState
<1>1. tokens' = tokens /\ Asked("update_user")
  BY DEF UpdateUser
<1> QED BY <1>1, AgingTokens, AgingMove DEF PasswordsKept

LEMMA DeleteMove ==
  ASSUME Typed, Typed', NEW q \in Requests, DeleteUser(q)
  PROVE  TokensMove
<1> USE DEF Typed, TypedState
<1>1. PICK u \in Users : users' = [users EXCEPT ![u] = None] /\ tokens' = Orphaned({u})
  BY DEF DeleteUser
<1>2. /\ \A t \in Tokens : tokens'[t] # None => tokens'[t] = tokens[t] /\ tokens[t].user # u
      /\ \A t \in Tokens : tokens[t] # None /\ tokens'[t] = None => tokens[t].user = u
  BY <1>1 DEF Orphaned
<1>3. Age /\ GoWithUser
  BY <1>2 DEF Age, GoWithUser
<1>4. Remembered
  BY <1>1 DEF Remembered, AccountsTypeOK
<1> QED BY <1>2, <1>3, <1>4, RememberedKept DEF TokensMove

(* What leaves both tokens and passwords.                                  *)
LEMMA StillMove ==
  ASSUME Typed, Typed', UNCHANGED tokens, UNCHANGED users
  PROVE  TokensMove
<1> USE DEF Typed, TypedState
<1>1. Remembered
  BY DEF Remembered
<1>2. Aging(tokens') /\ Age
  BY AgingTokens DEF Age
<1> QED BY <1>1, <1>2, RememberedKept, AgingMove

(* A user of whom something other than the password is written.            *)
LEMMA RememberedUser ==
  ASSUME AccountsTypeOK, NEW u \in Users, NEW y, users' = [users EXCEPT ![u] = y],
         y.password = users[u].password
  PROVE  Remembered
  BY DEF AccountsTypeOK, Remembered

LEMMA FailMove ==
  ASSUME Typed, Typed', NEW q \in Requests, FailLogin(q)
  PROVE  TokensMove
<1> USE DEF Typed, TypedState
<1>1. PICK u : u = req[q].user
  OBVIOUS
<1>2. u \in Users
  BY <1>1, AccountParts DEF FailLogin, At, TypedRequests
<1>3. Remembered
  <2>1. PICK n, b :
          /\ n = (IF req[q].seen.fails + 1 < MaxFails THEN req[q].seen.fails + 1 ELSE MaxFails)
          /\ b = (req[q].seen.fails + 1 >= MaxFails)
    OBVIOUS
  <2>2. \/ users' = users
        \/ /\ users[u] # None
           /\ users' = [users EXCEPT ![u].fails = n, ![u].locked = @ \/ b]
    BY <1>1, <2>1 DEF FailLogin
  <2>3. CASE users' = users
    BY <2>3 DEF Remembered
  <2>4. CASE users[u] # None /\ users' = [users EXCEPT ![u].fails = n, ![u].locked = @ \/ b]
    <3>1. users[u] \in User
      BY <1>2, <2>4 DEF AccountsTypeOK
    <3> DEFINE y == [[users[u] EXCEPT !.fails = n] EXCEPT !.locked = @ \/ b]
    <3>2. users' = [users EXCEPT ![u] = y]
      BY <1>2, <2>4, <3>1 DEF AccountsTypeOK, User
    <3>3. y.password = users[u].password
      BY <3>1 DEF User
    <3> HIDE DEF y
    <3> QED BY <1>2, <3>2, <3>3, RememberedUser
  <2> QED BY <2>2, <2>3, <2>4
<1>4. Aging(tokens') /\ Age
  BY AgingTokens DEF FailLogin, Age
<1> QED BY <1>3, <1>4, RememberedKept, AgingMove

LEMMA LogInMove ==
  ASSUME Typed, Typed', Roots, NEW q \in Requests, LogIn(q)
  PROVE  TokensMove
<1> USE DEF Typed, TypedState
<1>1. PICK u : u = req[q].user
  OBVIOUS
<1>2. u \in Users
  BY <1>1, AccountParts DEF LogIn, At, TypedRequests
<1>3. CASE UNCHANGED <<users, tokens>>
  BY <1>3, StillMove
<1>4. CASE ~UNCHANGED <<users, tokens>>
  <2>1. PICK n : n = Written(users[u].fails, req[q].seen.fails, 0)
    OBVIOUS
  <2>2. /\ users[u] # None /\ Fresh # {} /\ users' = [users EXCEPT ![u].fails = n]
        /\ tokens' = Issue(tokens, "refresh_token", u)
    BY <1>1, <1>4, <2>1 DEF LogIn
  <2>3. users[u] \in User
    BY <1>2, <2>2 DEF AccountsTypeOK
  <2>4. Remembered
    <3> DEFINE y == [users[u] EXCEPT !.fails = n]
    <3>1. users' = [users EXCEPT ![u] = y] /\ y.password = users[u].password
      BY <1>2, <2>2, <2>3 DEF AccountsTypeOK, User
    <3> HIDE DEF y
    <3> QED BY <1>2, <3>1, RememberedUser
  <2> QED BY <1>2, <2>2, <2>4, AgingTokens, IssueMove DEF TokenType
<1> QED BY <1>3, <1>4

(* The user of a token a request holds.                                    *)
LEMMA HeldUser ==
  ASSUME Typed, NEW q \in Requests, req[q].op \in Holding, tokens[req[q].token] # None
  PROVE  /\ req[q].user \in Users /\ req[q].token \in Tokens
         /\ tokens[req[q].token] \in Token /\ tokens[req[q].token].user = req[q].user
         /\ users[req[q].user] \in User
<1> USE DEF Typed, TypedState
<1>1. req[q].token \in Tokens /\ tokens[req[q].token].user = req[q].user
  BY DEF TokensHeld
<1>2. req[q].user \in Users
  BY AccountParts DEF Holding, TypedRequests
<1> QED BY <1>1, <1>2 DEF TokensOwned, AccountsTypeOK

LEMMA VerifyMove ==
  ASSUME Typed, Typed', Roots, NEW q \in Requests, VerifyEmail(q)
  PROVE  TokensMove
<1> USE DEF Typed, TypedState
<1>1. PICK u, t : u = req[q].user /\ t = req[q].token
  OBVIOUS
<1>2. CASE UNCHANGED <<users, tokens>>
  BY <1>2, StillMove
<1>3. CASE ~UNCHANGED <<users, tokens>>
  <2>1. PICK v, a : /\ v = Written(users[u].verified, req[q].seen.verified, TRUE)
                    /\ a = Written(users[u].active, req[q].seen.active, TRUE)
    OBVIOUS
  <2>2. /\ tokens[t] # None /\ Fresh # {}
        /\ users' = [users EXCEPT ![u].verified = v, ![u].active = a]
        /\ tokens' = Issue(Use(tokens, t), "refresh_token", u)
    BY <1>1, <1>3, <2>1 DEF VerifyEmail
  <2>3. u \in Users /\ t \in Tokens /\ users[u] \in User
    BY <1>1, <2>2, HeldUser DEF VerifyEmail, At, Holding
  <2>4. Remembered
    <3> DEFINE y == [[users[u] EXCEPT !.verified = v] EXCEPT !.active = a]
    <3>1. users' = [users EXCEPT ![u] = y]
      BY <2>2, <2>3 DEF AccountsTypeOK, User
    <3>2. y.password = users[u].password
      BY <2>3 DEF User
    <3> HIDE DEF y
    <3> QED BY <2>3, <3>1, <3>2, RememberedUser
  <2>5. Aging(Use(tokens, t))
    BY <2>2, <2>3, AgingTokens DEF Use
  <2> QED BY <2>2, <2>3, <2>4, <2>5, IssueMove DEF TokenType
<1> QED BY <1>2, <1>3

LEMMA LinkMove ==
  ASSUME Typed, Typed', Roots, NEW q \in Requests, ResendVerification(q) \/ ForgotPassword(q)
  PROVE  TokensMove
<1> USE DEF Typed, TypedState
<1>1. PICK u : u = req[q].user
  OBVIOUS
<1>2. PICK type \in {"email_verification", "password_reset"} :
        \E op \in {"resend", "forgot"} : NewLink(q, op, type)
  BY DEF ResendVerification, ForgotPassword
<1>3. u \in Users /\ users' = users
  BY <1>1, <1>2, AccountParts DEF NewLink, At, TypedRequests
<1>4. CASE UNCHANGED tokens
  BY <1>3, <1>4, StillMove
<1>5. CASE ~UNCHANGED tokens
  <2>1. Fresh # {} /\ tokens' = Issue(Invalidate(u, type), type, u)
    BY <1>1, <1>2, <1>5 DEF NewLink
  <2>2. ASSUME NEW t \in Tokens, Invalidate(u, type)[t] # None,
               Invalidate(u, type)[t].user = u, Invalidate(u, type)[t].type = type
        PROVE  Invalidate(u, type)[t].state # "unused"
    <3>1. tokens[t] # None /\ tokens[t].user = u /\ tokens[t].type = type
      BY <2>2, AgingTokens DEF Aging
    <3>2. tokens[t] \in Token
      BY <3>1 DEF AccountsTypeOK
    <3>3. CASE Usable(t)
      <4>1. Invalidate(u, type)[t] = [tokens[t] EXCEPT !.state = "used"]
        BY <3>1, <3>3 DEF Invalidate
      <4>2. [tokens[t] EXCEPT !.state = "used"].state = "used"
        BY <3>2, TokenFields DEF TokenState
      <4> QED BY <4>1, <4>2
    <3>4. CASE ~Usable(t)
      BY <3>1, <3>4 DEF Invalidate, Usable
    <3> QED BY <3>3, <3>4
  <2>3. Remembered
    BY <1>3 DEF Remembered
  <2>4. Aging(Invalidate(u, type))
    BY AgingTokens
  <2> QED BY <1>3, <2>1, <2>2, <2>3, <2>4, IssueMove DEF TokenType
<1> QED BY <1>4, <1>5

LEMMA RefreshMove ==
  ASSUME Typed, Typed', Roots, Exchanged, NEW q \in Requests, Refresh(q)
  PROVE  TokensMove
<1> USE DEF Typed, TypedState
<1>1. PICK u, t, n : u = req[q].user /\ t = req[q].token /\ n = NewToken
  OBVIOUS
<1>2. users' = users
  BY DEF Refresh
<1>3. CASE UNCHANGED tokens
  BY <1>2, <1>3, StillMove
<1>4. CASE ~UNCHANGED tokens
  <2> DEFINE rest == Use(tokens, t)
             new == [[tokens[t] EXCEPT !.state = "unused"] EXCEPT !.given = users[u].password]
  <2>1. /\ tokens[t] # None /\ Fresh # {} /\ tokens' = [rest EXCEPT ![n] = new]
    BY <1>1, <1>4 DEF Refresh, Rotate
  <2>2. u \in Users /\ t \in Tokens /\ tokens[t] \in Token /\ tokens[t].user = u
    BY <1>1, <2>1, HeldUser DEF Refresh, At, Holding
  <2>3. n \in Tokens /\ tokens[n] = None
    BY <1>1, <2>1, FreshToken
  <2>4. tokens[t].type = "refresh_token" /\ Sole(t)
    BY <1>1, <2>1 DEF Exchanged, Refresh, At
  <2>5. /\ new.user = u /\ new.type = "refresh_token" /\ new.root = tokens[t].root
        /\ new.given = users[u].password
    BY <2>2, <2>4 DEF Token
  <2>6. Aging(rest) /\ rest[t].state = "used"
    <3>1. Aging(rest)
      BY <2>1, <2>2, AgingTokens DEF Use
    <3>2. [tokens[t] EXCEPT !.state = "used"].state = "used"
      BY <2>2, TokenFields DEF TokenState
    <3> QED BY <2>2, <3>1, <3>2 DEF Use, AccountsTypeOK
  <2> HIDE DEF rest, new
  <2>7. tokens'[n] = new /\ \A s \in Tokens \ {n} : tokens'[s] = rest[s]
    BY <2>1, <2>3, <2>6 DEF Aging
  <2>8. Age /\ GoWithUser
    BY <2>3, <2>6, <2>7 DEF Aging, Age, GoWithUser
  <2>9. ASSUME NEW s \in Tokens, Usable(s)', Alike(s, n)' PROVE s = n
    <3> SUFFICES ASSUME s # n PROVE FALSE
      OBVIOUS
    <3>1. /\ rest[s] # None /\ rest[s].state = "unused" /\ rest[s].user = u
          /\ rest[s].type = "refresh_token" /\ rest[s].root = tokens[t].root
      BY <2>5, <2>7, <2>9 DEF Usable, Alike
    <3>2. Usable(s) /\ Alike(s, t) /\ s # t
      BY <2>2, <2>4, <2>6, <3>1 DEF Aging, Usable, Alike
    <3> QED BY <2>4, <3>2 DEF Sole
  <2>10. Issued(n)
    <3>1. /\ tokens[t].root \in Tokens /\ tokens[tokens[t].root] # None
          /\ tokens[tokens[t].root].user = u
      BY <2>1, <2>2, <2>4 DEF Roots
    <3> QED BY <1>2, <2>5, <2>7, <2>9, <3>1 DEF Issued, Sole
  <2>11. PasswordsKept
    BY <1>2 DEF PasswordsKept
  <2> QED BY <2>3, <2>6, <2>7, <2>8, <2>10, <2>11 DEF TokensMove, Aging
<1> QED BY <1>3, <1>4

LEMMA ResetMove ==
  ASSUME Typed, Typed', NEW q \in Requests, ResetPassword(q)
  PROVE  TokensMove
<1> USE DEF Typed, TypedState
<1>1. PICK u, t : u = req[q].user /\ t = req[q].token
  OBVIOUS
<1>2. CASE UNCHANGED <<users, tokens>>
  BY <1>2, StillMove
<1>3. CASE ~UNCHANGED <<users, tokens>>
  <2> DEFINE rest == Invalidate(u, "refresh_token")
  <2>1. tokens[t] # None /\ tokens' = Use(rest, t)
    BY <1>1, <1>3 DEF ResetPassword
  <2>2. u \in Users /\ t \in Tokens
    BY <1>1, <2>1, HeldUser DEF ResetPassword, At, Holding
  <2>3. \A v \in Users \ {u} : users'[v] = users[v]
    BY <1>1, <1>3, <2>2 DEF ResetPassword, AccountsTypeOK
  <2>4. Aging(rest) /\ Aging(tokens')
    BY <2>1, <2>2, AgingTokens DEF Use
  <2>5. ASSUME NEW s \in Tokens, tokens[s] # None, tokens'[s].state = "unused",
               tokens'[s].type = "refresh_token"
        PROVE  tokens'[s].user # u
    <3> SUFFICES ASSUME tokens'[s].user = u PROVE FALSE
      OBVIOUS
    <3>1. Usable(s) /\ tokens[s].user = u /\ tokens[s].type = "refresh_token"
      BY <2>4, <2>5 DEF Aging, Usable
    <3>2. tokens[s] \in Token
      BY <2>5 DEF AccountsTypeOK
    <3>3. rest[s] = [tokens[s] EXCEPT !.state = "used"]
      BY <3>1 DEF Invalidate
    <3> HIDE DEF rest
    <3>4. rest[s] \in Token /\ rest[s].state = "used"
      <4>1. "used" \in TokenState
        BY DEF TokenState
      <4> QED BY <3>2, <3>3, <4>1, TokenFields
    <3>5. [rest[s] EXCEPT !.state = "used"].state = "used"
      BY <3>4, TokenFields DEF TokenState
    <3>6. tokens'[s] = IF s = t THEN [rest[s] EXCEPT !.state = "used"] ELSE rest[s]
      BY <2>1, <2>4 DEF Use, Aging
    <3> QED BY <2>5, <3>4, <3>5, <3>6
  <2>6. PasswordsKept
    <3>1. \A s \in Tokens : tokens[s] # None => tokens'[s].user \in Users
      BY <2>4, TokenUpdates DEF Aging, AccountsTypeOK
    <3> QED BY <2>3, <2>5, <3>1 DEF PasswordsKept
  <2> QED BY <2>4, <2>6, AgingMove
<1> QED BY <1>2, <1>3

LEMMA TimeMove ==
  ASSUME Typed, Typed', TimePasses
  PROVE  TokensMove
<1> USE DEF Typed, TypedState
<1>1. ASSUME NEW u \in Users, users[u] # None, users' = [users EXCEPT ![u].locked = FALSE],
             UNCHANGED tokens
      PROVE  TokensMove
  <2> DEFINE y == [users[u] EXCEPT !.locked = FALSE]
  <2>1. users' = [users EXCEPT ![u] = y] /\ y.password = users[u].password
    BY <1>1 DEF AccountsTypeOK, User
  <2> HIDE DEF y
  <2>2. Remembered
    BY <2>1, RememberedUser
  <2>3. Aging(tokens') /\ Age
    BY <1>1, AgingTokens DEF Age
  <2> QED BY <2>2, <2>3, RememberedKept, AgingMove
<1>2. ASSUME NEW t \in Tokens, Usable(t), tokens' = [tokens EXCEPT ![t].state = "expired"],
             UNCHANGED users
      PROVE  TokensMove
  <2>1. Aging(tokens')
    BY <1>2, AgingTokens DEF Usable
  <2>2. PasswordsKept
    BY <1>2 DEF PasswordsKept
  <2> QED BY <2>1, <2>2, AgingMove
<1> QED BY <1>1, <1>2 DEF TimePasses

-----------------------------------------------------------------------------
(* One request at a time: the others hold no token.                        *)
LEMMA ExchangeServed ==
  ASSUME Typed, Typed', OneLinkEach, Exchanged, Age, NEW q \in Requests,
         \A p \in Requests \ {q} : req'[p].op = "idle",
         \/ req'[q].op # "refresh"
         \/ req'[q] = req[q] /\ UNCHANGED tokens
         \/ ReadRefresh(q)
  PROVE  Exchanged'
<1> SUFFICES ASSUME req'[q].op = "refresh", tokens'[req'[q].token] # None
             PROVE  tokens'[req'[q].token].type = "refresh_token" /\ Sole(req[q].token)'
  BY DEF Exchanged
<1>1. CASE req'[q] = req[q] /\ UNCHANGED tokens
  <2>1. req[q].token \in Tokens
    BY <1>1 DEF Typed, TokensHeld, Holding
  <2> QED BY <1>1, <2>1, ExchangeKept
<1>2. CASE ReadRefresh(q)
  <2>1. PICK t \in Tokens :
          /\ Usable(t) /\ tokens[t].type = "refresh_token"
          /\ Become(q, [op |-> "refresh", user |-> tokens[t].user, token |-> t])
    BY <1>2 DEF ReadRefresh
  <2>2. tokens' = tokens
    BY <1>2 DEF ReadRefresh
  <2>3. req'[q].token = t
    BY <2>1 DEF Become, Typed, TypedRequests
  <2>4. Sole(t)'
    BY <2>1, <2>2 DEF Sole, Usable, Alike, OneLinkEach
  <2> QED BY <2>1, <2>2, <2>3, <2>4 DEF Sole, Usable, Alike
<1> QED BY <1>1, <1>2

LEMMA ExchangeElsewhere ==
  ASSUME Typed, Exchanged, Age, Keeps({"refresh"}),
         \A t \in Tokens : tokens'[t] # None => tokens[t] # None
  PROVE  Exchanged'
<1> SUFFICES ASSUME NEW q \in Requests, req'[q].op = "refresh", tokens'[req'[q].token] # None
             PROVE  tokens'[req'[q].token].type = "refresh_token" /\ Sole(req[q].token)'
  BY DEF Exchanged, Keeps
<1>1. req'[q] = req[q]
  BY DEF Keeps
<1>2. req[q].token \in Tokens
  BY <1>1 DEF Typed, TokensHeld, Holding
<1> QED BY <1>1, <1>2, ExchangeKept

LEMMA AccountsMove ==
  ASSUME Sound, Sound', Serial, Roots, OneLinkEach, Exchanged, NEW q \in Requests,
         AccountAsked(q) \/ AccountGoesOn(q),
         UNCHANGED <<conversationVars, libraryVars, campaignVars>>
  PROVE  TokensMove /\ Exchanged'
<1> USE DEF Sound
<1>1. \A p \in Requests \ {q} : req'[p].op = "idle"
  BY OthersIdle DEF Ask, Serve
<1>2. Idle.op = "idle"
  BY DEF Idle
<1>3. ASSUME TokensMove,
             \/ req'[q].op # "refresh"
             \/ req'[q] = req[q] /\ UNCHANGED tokens
             \/ ReadRefresh(q)
      PROVE  TokensMove /\ Exchanged'
  BY <1>1, <1>3, ExchangeServed DEF TokensMove
<1>4. ASSUME NEW d, d.op # "refresh", Become(q, d) PROVE req'[q].op # "refresh"
  BY <1>4 DEF Become, Typed, TypedRequests
<1>5. ASSUME Free(q), UNCHANGED req PROVE req'[q].op # "refresh"
  BY <1>5, FreeIsIdle
<1>6. CASE Signup(q)
  <2>1. req'[q].op # "refresh"
    BY <1>4, <1>6 DEF Signup
  <2> QED BY <1>3, <1>6, <2>1, SignupMove
<1>7. CASE Login(q)
  <2>1. req'[q].op # "refresh"
    BY <1>4, <1>7 DEF Login
  <2> QED BY <1>3, <1>7, <2>1, StillMove DEF Login
<1>8. CASE ReadRefresh(q)
  BY <1>3, <1>8, StillMove DEF ReadRefresh
<1>9. CASE ReadVerification(q) \/ ReadReset(q) \/ ReadResend(q) \/ ReadForgot(q)
  <2>1. req'[q].op # "refresh"
    BY <1>4, <1>9 DEF ReadVerification, ReadReset, ReadResend, ReadForgot, Follow
  <2> QED BY <1>3, <1>9, <2>1, StillMove DEF ReadVerification, ReadReset, ReadResend, ReadForgot
<1>10. CASE CreateUser(q) \/ UpdateUser(q) \/ DeleteUser(q)
  <2>1. req'[q].op # "refresh"
    BY <1>5, <1>10 DEF CreateUser, UpdateUser, DeleteUser
  <2> QED BY <1>3, <1>10, <2>1, CreateMove, UpdateMove, DeleteMove
<1>11. CASE SetCompanyStatus(q)
  <2>1. req'[q].op # "refresh"
    BY <1>5, <1>11 DEF SetCompanyStatus
  <2> QED BY <1>3, <1>11, <2>1, StillMove DEF SetCompanyStatus
<1>12. CASE Mail(q)
  <2>1. req'[q].op # "refresh"
    BY <1>2, <1>4, <1>12 DEF Mail
  <2> QED BY <1>3, <1>12, <2>1, StillMove DEF Mail, accountVars
<1>13. CASE FailLogin(q) \/ LogIn(q) \/ Refresh(q) \/ VerifyEmail(q) \/ ResetPassword(q)
  <2>1. req'[q].op # "refresh"
    BY <1>2, <1>4, <1>13 DEF FailLogin, LogIn, Refresh, VerifyEmail, ResetPassword
  <2> QED BY <1>3, <1>13, <2>1, FailMove, LogInMove, RefreshMove, VerifyMove, ResetMove
<1>14. CASE ResendVerification(q) \/ ForgotPassword(q)
  <2>1. req'[q].op # "refresh"
    BY <1>2, <1>4, <1>14 DEF ResendVerification, ForgotPassword, NewLink
  <2> QED BY <1>3, <1>14, <2>1, LinkMove
<1> QED
  BY <1>6, <1>7, <1>8, <1>9, <1>10, <1>11, <1>12, <1>13, <1>14 DEF AccountAsked, AccountGoesOn

(* What other steps leave to tokens: they stay, or go with the company.    *)
LEMMA ElsewhereMoves ==
  ASSUME Sound, Sound', [Next]_backOfficeVars,
         \A q \in Requests :
           ~(/\ AccountAsked(q) \/ AccountGoesOn(q)
             /\ UNCHANGED <<conversationVars, libraryVars, campaignVars>>)
  PROVE  /\ TokensMove /\ env' = env /\ Keeps({"refresh"})
         /\ \A t \in Tokens : tokens'[t] # None => tokens[t] # None
<1> USE DEF Sound
<1>1. /\ {"refresh"} \intersect (ConversationOps \union {"idle"}) = {}
      /\ {"refresh"} \intersect (CampaignOps \union {"idle"}) = {}
      /\ {"refresh"} \intersect (LibraryOps \union {"idle"}) = {}
      /\ {"refresh"} \intersect (DeletionOps \union {"idle"}) = {}
      /\ "idle" \notin {"refresh"}
  BY DEF CampaignOps, ConversationOps, LibraryOps, OnDocument, DeletionOps
<1>2. CASE UNCHANGED <<users, tokens>> /\ Keeps({"refresh"}) /\ env' = env
  BY <1>2, StillMove
<1>3. ASSUME NEW q \in Requests, Ask(q) \/ Serve(q)
      PROVE  /\ TokensMove /\ env' = env /\ Keeps({"refresh"})
             /\ \A t \in Tokens : tokens'[t] # None => tokens[t] # None
  <2>1. CASE /\ ConversationAsked(q) \/ ConversationGoesOn(q)
             /\ UNCHANGED <<libraryVars, accountVars, campaignVars>>
    BY <1>1, <1>2, <2>1, ConversationKeeps DEF accountVars
  <2>2. CASE /\ LibraryAsked(q) \/ LibraryGoesOn(q)
             /\ UNCHANGED <<conversationVars, accountVars, campaignVars>>
    BY <1>1, <1>2, <2>2, LibraryKeeps DEF accountVars
  <2>3. CASE /\ CampaignAsked(q) \/ CampaignGoesOn(q)
             /\ UNCHANGED <<conversationVars, libraryVars, accountVars>>
    BY <1>1, <1>2, <2>3, CampaignKeeps DEF accountVars
  <2>4. CASE ShowCompany(q) \/ DeleteRows(q) \/ DeleteFiles(q)
    <3>1. Keeps({"refresh"}) /\ env' = env
      BY <1>1, <2>4, DeletionKeeps
    <3>2. CASE UNCHANGED <<users, tokens>>
      BY <1>2, <3>1, <3>2
    <3>3. CASE ~UNCHANGED <<users, tokens>>
      <4>1. \A t \in Tokens : tokens'[t] = None
        BY <2>4, <3>3 DEF ShowCompany, DeleteRows, DeleteFiles, accountVars
      <4> QED BY <3>1, <4>1 DEF TokensMove, Age, GoWithUser, PasswordsKept
    <3> QED BY <3>2, <3>3
  <2> QED BY <1>3, <2>1, <2>2, <2>3, <2>4 DEF Ask, Serve
<1>4. CASE Elsewhere \/ Dies \/ UNCHANGED backOfficeVars \/ \E w \in Workers : Work(w)
  <2>1. Keeps({"refresh"}) /\ env' = env
    BY <1>1, <1>4, OthersKeep
  <2>2. UNCHANGED <<users, tokens>> \/ TimePasses
    BY <1>4 DEF Elsewhere, Dies, backOfficeVars, Work, AccountTask, SendEmail, accountVars
  <2>3. CASE TimePasses
    <3>1. TokensMove
      BY <2>3, TimeMove
    <3>2. \A t \in Tokens : tokens'[t] # None => tokens[t] # None
      BY <2>3 DEF TimePasses, Usable, Typed, TypedState, AccountsTypeOK
    <3> QED BY <2>1, <3>1, <3>2
  <2> QED BY <1>2, <2>1, <2>2, <2>3
<1> QED BY <1>3, <1>4 DEF Next

-----------------------------------------------------------------------------
AccountsI == Sound /\ TokensI

LEMMA AccountsIInit == Init => AccountsI
<1> SUFFICES ASSUME Init PROVE AccountsI
  OBVIOUS
<1>1. /\ \A t \in Tokens : tokens[t] = None
      /\ \A q \in Requests : req[q].op = "idle"
  BY DEF Init, TasksInit, AccountsInit
<1>2. Roots /\ OneLinkEach /\ SessionsKnowPassword /\ Exchanged
  BY <1>1 DEF Roots, OneLinkEach, SessionsKnowPassword, Exchanged, Usable
<1> QED BY <1>2, SoundInit DEF AccountsI, TokensI

LEMMA AccountsINext == AccountsI /\ [Next]_backOfficeVars => AccountsI'
<1> SUFFICES ASSUME AccountsI, [Next]_backOfficeVars PROVE AccountsI'
  OBVIOUS
<1> USE DEF AccountsI
<1>1. Sound'
  BY SoundNext
<1>2. ASSUME TokensMove, Exchanged', env' = env, Serial PROVE TokensI'
  BY <1>2, RootsMove, LinksMove, SessionsMove DEF TokensI
<1>3. ASSUME NEW q \in Requests, AccountAsked(q) \/ AccountGoesOn(q),
             UNCHANGED <<conversationVars, libraryVars, campaignVars>>
      PROVE  TokensI'
  <2>1. env' = env
    BY <1>3, RequestMoves DEF Ask, Serve, Sound
  <2>2. CASE Serial
    BY <1>1, <1>2, <1>3, <2>1, <2>2, AccountsMove DEF TokensI
  <2>3. CASE ~Serial
    BY <2>1, <2>3 DEF TokensI, Serial, Fault
  <2> QED BY <2>2, <2>3
<1>4. CASE \A q \in Requests :
             ~(/\ AccountAsked(q) \/ AccountGoesOn(q)
               /\ UNCHANGED <<conversationVars, libraryVars, campaignVars>>)
  <2>1. /\ TokensMove /\ env' = env /\ Keeps({"refresh"})
        /\ \A t \in Tokens : tokens'[t] # None => tokens[t] # None
    BY <1>1, <1>4, ElsewhereMoves
  <2>2. CASE Serial
    <3>1. Exchanged'
      BY <2>1, <2>2, ExchangeElsewhere DEF TokensI, TokensMove, Sound
    <3> QED BY <1>1, <1>2, <2>1, <2>2, <3>1
  <2>3. CASE ~Serial
    BY <1>1, <2>1, <2>3 DEF TokensI, Serial, Fault
  <2> QED BY <2>2, <2>3
<1> QED BY <1>1, <1>3, <1>4

(* auth/service.py: as long as requests do not overlap, a user has one     *)
(* usable link of each kind and a login one usable refresh token at most,  *)
(* through any number of exchanges, and no session outlives a reset of the *)
(* password it began with.                                                 *)
THEOREM LinksAndSessionsSound == Spec => []TokensSound
<1>1. AccountsI => TokensSound
  BY DEF AccountsI, TokensI, TokensSound, Serial
<1> QED BY <1>1, AccountsIInit, AccountsINext, PTL DEF Spec
=============================================================================
