------------------------------ MODULE Accounts ------------------------------
(***************************************************************************)
(* Users, their password and Google identities, and their sessions: refresh *)
(* tokens that are exchanged, blocklisted and kept in browser cookies      *)
(* (api/v2/auth, api/v2/users, get_valid_refresh_payload in core/utils.py). *)
(*                                                                         *)
(* As in Tenancy a request advances one SELECT at a time, its writes up to *)
(* the COMMIT are one step, and hashing or verifying a password in the     *)
(* thread pool leaves room for other requests.  The response is delivered  *)
(* in a step of its own, or lost.  Access tokens are not modelled: they    *)
(* carry their claims and nothing is stored of them.  Tokens do not expire *)
(* here: a browser that stops using one is a behaviour already.            *)
(***************************************************************************)
EXTENDS Naturals, FiniteSets

CONSTANTS
  Emails,            \* users.email, and the Google account of that address
  Passwords,         \* passwords, and their hashes
  Browsers,          \* cookie jars
  Tokens,            \* jti of refresh tokens: bounds the tokens ever issued
  Identities,        \* ids of password identities: bounds those created
  Requests,          \* handler coroutines: bounds the requests in flight
  Ops,               \* the handlers that clients of this instance call
  Nil

AllOps == {"register_user", "auth_google", "login", "refresh_token", "logout",
           "update_password"}

ASSUME OpsAssumption == Ops \subseteq AllOps

RegisterCalls == [op : {"register_user"}, email : Emails, password : Passwords]
GoogleCalls   == [op : {"auth_google"}, email : Emails, browser : Browsers]
LoginCalls    == [op : {"login"}, email : Emails, password : Passwords,
                  browser : Browsers]
CookieCalls   == [op : {"refresh_token", "logout"}, browser : Browsers,
                  token : Tokens]
UpdateCalls   == [op : {"update_password"}, email : Emails,
                  current : Passwords, new : Passwords, browser : Browsers,
                  token : Tokens]
Calls == UNION {RegisterCalls, GoogleCalls, LoginCalls, CookieCalls,
                UpdateCalls}

\* A password identity, what a request has read of one, and a refresh token:
\* its user, the first token of its session, and the token it was exchanged for.
IdentityRows == [email : Emails, hash : Passwords]
ReadRows     == [id : Identities, hash : Passwords]
TokenRows    == [owner : Emails, session : Tokens, from : Tokens \cup {Nil}]

ASSUME NilAssumption ==
  Nil \notin UNION {Emails, Passwords, Tokens, Identities, Calls,
                    IdentityRows, ReadRows, TokenRows}
ASSUME RequestsAssumption == IsFiniteSet(Requests)

Labels == {"idle", "lookup", "identity", "create", "attach", "verify", "check",
           "write", "reply"}

VARIABLES
  user,      \* users: the emails registered
  identity,  \* auth_identities: the password identities
  google,    \* auth_identities: the Google identities, by email
  latest,    \* history: the password each user set last
  token,     \* history: the refresh tokens issued
  blocked,   \* jti_blocklist
  ended,     \* history: the sessions logged out
  cookie,    \* the refresh_token cookie of each browser
  missed,    \* history: the browsers a response has failed to reach
  raced,     \* history: sessions and users that two requests were about at once
  pc,        \* where the coroutine of a request stands
  call,      \* what the request asks for
  row,       \* the password identity the request has read: id and hash
  minted     \* the refresh token its response carries

people   == <<user, identity, google, latest>>
sessions == <<token, blocked, ended>>
locals   == <<pc, call, row, minted>>
jars     == <<cookie, missed, raced>>
vars     == <<people, sessions, jars, locals>>

Init ==
  /\ user = {}
  /\ identity = [i \in Identities |-> Nil]
  /\ google = {}
  /\ latest = [e \in Emails |-> Nil]
  /\ token = [t \in Tokens |-> Nil]
  /\ blocked = {}
  /\ ended = {}
  /\ cookie = [b \in Browsers |-> Nil]
  /\ missed = {}
  /\ raced = {}
  /\ pc = [r \in Requests |-> "idle"]
  /\ call = [r \in Requests |-> Nil]
  /\ row = [r \in Requests |-> Nil]
  /\ minted = [r \in Requests |-> Nil]

IdentitiesOf(e) ==
  {i \in Identities : identity[i] # Nil /\ identity[i].email = e}

At(r, op, label) == pc[r] = label /\ call[r].op = op

Goto(r, label) ==
  /\ pc' = [pc EXCEPT ![r] = label]
  /\ UNCHANGED <<call, row, minted>>

\* Mutant: a handler that returns and leaves its call behind.
FinishKeepingCall(r) ==
  /\ pc' = [pc EXCEPT ![r] = "idle"]
  /\ row' = [row EXCEPT ![r] = Nil]
  /\ minted' = [minted EXCEPT ![r] = Nil]
  /\ UNCHANGED call

\* The coroutine is gone.
Finish(r) ==
  /\ pc' = [pc EXCEPT ![r] = "idle"]
  /\ call' = [call EXCEPT ![r] = Nil]
  /\ row' = [row EXCEPT ![r] = Nil]
  /\ minted' = [minted EXCEPT ![r] = Nil]

\* create_refresh_token with a fresh jti, for the response: the first of a
\* session, or the successor of the token "from".
Mint(r, e, from) ==
  \E t \in Tokens :
    /\ token[t] = Nil
    /\ token' = [token EXCEPT ![t] =
         [owner   |-> e,
          session |-> IF from = Nil THEN t ELSE token[from].session,
          from    |-> from]]
    /\ pc' = [pc EXCEPT ![r] = "reply"]
    /\ minted' = [minted EXCEPT ![r] = t]
    /\ UNCHANGED <<call, row>>

\* The session whose token a request spends, the user whose password it sets.
About(c) ==
  {token[t].session : t \in {t \in Tokens : c \in CookieCalls \cup UpdateCalls
                                            /\ c.token = t}}
    \cup {e \in Emails : c \in RegisterCalls \cup UpdateCalls /\ c.email = e}

\* A request comes in.  The token of a request is its browser's cookie; the
\* caller of update_password holds an access token, so a refresh token was
\* issued to it once.
Begin(r, c) ==
  /\ pc[r] = "idle"
  /\ c.op \in Ops
  /\ c.op \in {"refresh_token", "logout", "update_password"} =>
       c.token = cookie[c.browser]
  /\ c.op = "update_password" =>
       \E t \in Tokens : token[t] # Nil /\ token[t].owner = c.email
  /\ pc' = [pc EXCEPT ![r] = "lookup"]
  /\ call' = [call EXCEPT ![r] = c]
  /\ raced' = raced \cup
       UNION {About(c) \cap About(call[s]) : s \in {s \in Requests : pc[s] # "idle"}}
  /\ UNCHANGED <<people, sessions, cookie, missed, row, minted>>

\* An exception before the commit, or the worker killed.
RequestFails(r) ==
  /\ pc[r] \notin {"idle", "reply"}
  /\ Finish(r)
  /\ UNCHANGED <<people, sessions, jars>>

\* Mutant: refresh_token and logout leave the cookie as it is.
DeliverWithoutCookie(r) ==
  /\ pc[r] = "reply"
  /\ cookie' = IF call[r].op \in {"auth_google", "login"}
                 THEN [cookie EXCEPT ![call[r].browser] = minted[r]]
                 ELSE cookie
  /\ Finish(r)
  /\ UNCHANGED <<people, sessions, missed, raced>>

\* The response reaches the browser: set_cookie, or delete_cookie.
Deliver(r) ==
  /\ pc[r] = "reply"
  /\ cookie' = [cookie EXCEPT ![call[r].browser] = minted[r]]
  /\ Finish(r)
  /\ UNCHANGED <<people, sessions, missed, raced>>

\* The connection breaks or the worker dies after the commit.
LoseReply(r) ==
  /\ pc[r] = "reply"
  /\ missed' = missed \cup {call[r].browser}
  /\ Finish(r)
  /\ UNCHANGED <<people, sessions, cookie, raced>>

-----------------------------------------------------------------------------
(* register_user                                                           *)

RegisterLookup(r) ==
  /\ At(r, "register_user", "lookup")
  /\ Goto(r, IF call[r].email \in user THEN "identity" ELSE "create")
  /\ UNCHANGED <<people, sessions, jars>>

\* Mutant: the 400 for an existing password identity is left out.
RegisterIdentityUnchecked(r) ==
  /\ At(r, "register_user", "identity")
  /\ Goto(r, "attach")
  /\ UNCHANGED <<people, sessions, jars>>

RegisterIdentity(r) ==
  /\ At(r, "register_user", "identity")
  /\ IF IdentitiesOf(call[r].email) = {} THEN Goto(r, "attach") ELSE Finish(r)
  /\ UNCHANGED <<people, sessions, jars>>

\* A row with provider "password": its provider_user_id is NULL, so that
\* uq_provider_providerid never refuses it.
AddPassword(e, p) ==
  /\ \E i \in Identities :
       /\ identity[i] = Nil
       /\ identity' = [identity EXCEPT ![i] = [email |-> e, hash |-> p]]
  /\ latest' = [latest EXCEPT ![e] = p]

\* After hashing in the thread pool.
RegisterAttach(r) ==
  /\ At(r, "register_user", "attach")
  /\ AddPassword(call[r].email, call[r].password)
  /\ Finish(r)
  /\ UNCHANGED <<user, google, sessions, jars>>

\* Mutant: the user is committed without an identity.
RegisterCreateUserOnly(r) ==
  /\ At(r, "register_user", "create")
  /\ call[r].email \notin user
  /\ user' = user \cup {call[r].email}
  /\ Finish(r)
  /\ UNCHANGED <<identity, google, latest, sessions, jars>>

\* After hashing: users.email is unique, so the flush fails (RequestFails) if
\* the user exists by now; the identity is added in the same transaction.
RegisterCreate(r) ==
  /\ At(r, "register_user", "create")
  /\ call[r].email \notin user
  /\ user' = user \cup {call[r].email}
  /\ AddPassword(call[r].email, call[r].password)
  /\ Finish(r)
  /\ UNCHANGED <<google, sessions, jars>>

-----------------------------------------------------------------------------
(* auth_google, after Google has vouched for the address                   *)

GoogleLookup(r) ==
  /\ At(r, "auth_google", "lookup")
  /\ Goto(r, IF call[r].email \in user THEN "identity" ELSE "create")
  /\ UNCHANGED <<people, sessions, jars>>

\* The handler goes on to look for the identity it has just committed.
GoogleCreate(r) ==
  LET e == call[r].email IN
  /\ At(r, "auth_google", "create")
  /\ e \notin user \cup google
  /\ user' = user \cup {e}
  /\ google' = google \cup {e}
  /\ Goto(r, "identity")
  /\ UNCHANGED <<identity, latest, sessions, jars>>

GoogleIdentity(r) ==
  /\ At(r, "auth_google", "identity")
  /\ IF call[r].email \in google
       THEN Mint(r, call[r].email, Nil)
       ELSE Goto(r, "attach") /\ UNCHANGED token
  /\ UNCHANGED <<people, blocked, ended, jars>>

\* uq_provider_providerid refuses a second row.
GoogleAttach(r) ==
  /\ At(r, "auth_google", "attach")
  /\ call[r].email \notin google
  /\ google' = google \cup {call[r].email}
  /\ Mint(r, call[r].email, Nil)
  /\ UNCHANGED <<user, identity, latest, blocked, ended, jars>>

-----------------------------------------------------------------------------
(* login                                                                   *)

\* .first() of the user's password identities, in no particular order.
ReadIdentity(r) ==
  \E i \in IdentitiesOf(call[r].email) :
    /\ row' = [row EXCEPT ![r] = [id |-> i, hash |-> identity[i].hash]]
    /\ pc' = [pc EXCEPT ![r] = "verify"]
    /\ UNCHANGED <<call, minted>>

\* No row: 401 in login.  update_password fails on the missing identity.
IdentityLookup(r) ==
  /\ At(r, "login", "lookup") \/ At(r, "update_password", "lookup")
  /\ IF IdentitiesOf(call[r].email) = {} THEN Finish(r) ELSE ReadIdentity(r)
  /\ UNCHANGED <<people, sessions, jars>>

\* After verifying in the thread pool against the hash that was read.
LoginVerify(r) ==
  /\ At(r, "login", "verify")
  /\ IF call[r].password = row[r].hash
       THEN Mint(r, call[r].email, Nil)
       ELSE Finish(r) /\ UNCHANGED token
  /\ UNCHANGED <<people, blocked, ended, jars>>

-----------------------------------------------------------------------------
(* refresh_token, logout, update_password                                  *)

UpdateVerify(r) ==
  /\ At(r, "update_password", "verify")
  /\ IF call[r].current = row[r].hash /\ call[r].new # call[r].current
       THEN Goto(r, "check") ELSE Finish(r)
  /\ UNCHANGED <<people, sessions, jars>>

\* Mutant: the blocklist is not looked at.
SignatureIsEnough(t) == t \in Tokens

\* get_valid_refresh_payload: the SELECT on jti_blocklist.
NotBlocked(t) == t \notin blocked

TokenCheck(r) ==
  /\ \/ At(r, "refresh_token", "lookup")
     \/ At(r, "logout", "lookup")
     \/ At(r, "update_password", "check")
  /\ IF NotBlocked(call[r].token) THEN Goto(r, "write") ELSE Finish(r)
  /\ UNCHANGED <<people, sessions, jars>>

\* Mutant: the token that was exchanged is not blocklisted.
RefreshKeepingOld(r) ==
  /\ At(r, "refresh_token", "write")
  /\ Mint(r, token[call[r].token].owner, call[r].token)
  /\ UNCHANGED <<people, blocked, ended, jars>>

\* jti is not unique in jti_blocklist: a second INSERT succeeds.
RefreshWrite(r) ==
  /\ At(r, "refresh_token", "write")
  /\ blocked' = blocked \cup {call[r].token}
  /\ Mint(r, token[call[r].token].owner, call[r].token)
  /\ UNCHANGED <<people, ended, jars>>

\* Mutant: logout only deletes the cookie.
LogoutCookieOnly(r) ==
  /\ At(r, "logout", "write")
  /\ ended' = ended \cup {token[call[r].token].session}
  /\ Goto(r, "reply")
  /\ UNCHANGED <<people, token, blocked, jars>>

LogoutWrite(r) ==
  /\ At(r, "logout", "write")
  /\ blocked' = blocked \cup {call[r].token}
  /\ ended' = ended \cup {token[call[r].token].session}
  /\ Goto(r, "reply")
  /\ UNCHANGED <<people, token, jars>>

\* After hashing: the row that was read gets the new hash, and the token is
\* blocklisted in the same transaction.  The user of the token is not
\* compared with the caller.
UpdateWrite(r) ==
  LET c == call[r] IN
  /\ At(r, "update_password", "write")
  /\ identity' = [identity EXCEPT ![row[r].id].hash = c.new]
  /\ latest' = [latest EXCEPT ![c.email] = c.new]
  /\ blocked' = blocked \cup {c.token}
  /\ ended' = ended \cup {token[c.token].session}
  /\ Goto(r, "reply")
  /\ UNCHANGED <<user, google, token, jars>>

-----------------------------------------------------------------------------
Handler(r) ==
  \/ RegisterLookup(r) \/ RegisterIdentity(r) \/ RegisterAttach(r)
  \/ RegisterCreate(r)
  \/ GoogleLookup(r) \/ GoogleCreate(r) \/ GoogleIdentity(r) \/ GoogleAttach(r)
  \/ IdentityLookup(r) \/ LoginVerify(r) \/ UpdateVerify(r) \/ TokenCheck(r)
  \/ RefreshWrite(r) \/ LogoutWrite(r) \/ UpdateWrite(r)
  \/ RequestFails(r) \/ Deliver(r) \/ LoseReply(r)

Next ==
  \/ \E r \in Requests, c \in Calls : Begin(r, c)
  \/ \E r \in Requests : Handler(r)

Spec == Init /\ [][Next]_vars
-----------------------------------------------------------------------------
(* Properties.                                                             *)

Issued == {t \in Tokens : token[t] # Nil}

\* Tables, cookies and the requests in flight hold values of their columns,
\* cookies and blocklist name tokens that were issued, and a coroutine has a
\* call exactly while it runs.
TypeOK ==
  /\ user \subseteq Emails
  /\ identity \in [Identities -> IdentityRows \cup {Nil}]
  /\ google \subseteq Emails
  /\ latest \in [Emails -> Passwords \cup {Nil}]
  /\ token \in [Tokens -> TokenRows \cup {Nil}]
  /\ blocked \subseteq Issued
  /\ ended \subseteq Tokens
  /\ cookie \in [Browsers -> Issued \cup {Nil}]
  /\ missed \subseteq Browsers
  /\ raced \subseteq Tokens \cup Emails
  /\ pc \in [Requests -> Labels]
  /\ call \in [Requests -> Calls \cup {Nil}]
  /\ row \in [Requests -> ReadRows \cup {Nil}]
  /\ minted \in [Requests -> Issued \cup {Nil}]
  /\ \A r \in Requests : pc[r] = "idle" <=> call[r] = Nil

OneLive(t1, t2) == token[t1].session = token[t2].session => t1 = t2

\* "Exchange refresh token for a new pair" (README): a session has one
\* refresh token that still works, however often it was exchanged.  Two
\* exchanges of one token at once leave two.
OneLiveToken == \A t1, t2 \in Issued \ blocked : OneLive(t1, t2)

\* A session that no two requests were about at once has one live refresh
\* token, whatever becomes of the other sessions of the user and the browser,
\* and whichever exchanges failed or went unanswered.
OneLiveTokenUnlessRaced ==
  \A t1, t2 \in Issued \ blocked :
    token[t1].session \notin raced => OneLive(t1, t2)

\* "Revoke tokens & end session" (README on logout): once a logout or a
\* password change has committed, no token of that session works.
LogoutEndsSession ==
  \A t \in Issued : token[t].session \in ended => t \in blocked

\* ... and so it is, unless another request spent a token of the session
\* while the logout ran.
LogoutIsFinalUnlessRaced ==
  \A t \in Issued : token[t].session \in ended \ raced => t \in blocked

\* A token is exchanged once, also if its exchange was not answered.  Only
\* requests that checked it at the same time may each exchange it, and no
\* request that comes later: there are no more successors than there were
\* requests in flight at once.
ExchangesBounded ==
  \A t \in Issued :
    Cardinality({s \in Issued : token[s].from = t})
      <= IF token[t].session \in raced THEN Cardinality(Requests) ELSE 1

\* A browser that every response has reached never sits on a blocklisted
\* token, except while the response that replaces it is under way: whatever
\* tabs of one browser refresh and log out at once, and in whatever order
\* their responses arrive, the next refresh of the browser will be accepted.
CookieIsLive ==
  \A b \in Browsers \ missed :
    cookie[b] \in blocked =>
      \E r \in Requests : /\ pc[r] = "reply"
                          /\ call[r].op \notin {"auth_google", "login"}
                          /\ call[r].browser = b
                          /\ call[r].token = cookie[b]

\* A user row is never there without a way to sign in, whichever of
\* register_user and auth_google created it and wherever the other failed.
EveryUserCanSignIn == \A e \in user : e \in google \/ IdentitiesOf(e) # {}

\* "Email already registered" (register_user): a user has one password.
OnePasswordIdentity == \A e \in Emails : Cardinality(IdentitiesOf(e)) <= 1

\* "Password updated. Please log in again" (update_password): the password a
\* user set last, and no earlier one, is what a login compares with, unless
\* two requests set it at once.
LatestPasswordCounts ==
  \A e \in Emails \ raced : \A i \in IdentitiesOf(e) : identity[i].hash = latest[e]
=============================================================================
