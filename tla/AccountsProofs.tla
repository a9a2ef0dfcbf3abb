--------------------------- MODULE AccountsProofs ---------------------------
(***************************************************************************)
(* Accounts for any number of users, browsers, tokens and requests.        *)
(***************************************************************************)
EXTENDS Accounts, FiniteSetTheorems, TLAPS

Credentials == {"refresh_token", "logout", "update_password"}
SignIns     == {"login", "auth_google"}
PasswordOps == {"register_user", "update_password"}

\* What the calls of each handler carry.
LEMMA CallFacts ==
  ASSUME NEW c \in Calls
  PROVE  /\ c # Nil
         /\ c.op \in AllOps
         /\ c.op \in SignIns \cup PasswordOps => c.email \in Emails
         /\ c.op \in {"register_user", "login"} => c.password \in Passwords
         /\ c.op # "register_user" => c.browser \in Browsers
         /\ c.op \in Credentials => c.token \in Tokens
         /\ c.op = "update_password" => c.new \in Passwords /\ c.current \in Passwords
         /\ c.op \in Credentials <=> c \in CookieCalls \cup UpdateCalls
         /\ c.op \in PasswordOps <=> c \in RegisterCalls \cup UpdateCalls
<1>1. c # Nil
  BY NilAssumption
<1>2. CASE c \in RegisterCalls
  BY <1>1, <1>2 DEF RegisterCalls, CookieCalls, UpdateCalls, AllOps, SignIns, PasswordOps, Credentials
<1>3. CASE c \in GoogleCalls
  BY <1>1, <1>3 DEF GoogleCalls, RegisterCalls, CookieCalls, UpdateCalls, AllOps, SignIns, PasswordOps, Credentials
<1>4. CASE c \in LoginCalls
  BY <1>1, <1>4 DEF LoginCalls, RegisterCalls, CookieCalls, UpdateCalls, AllOps, SignIns, PasswordOps, Credentials
<1>5. CASE c \in CookieCalls
  BY <1>1, <1>5 DEF CookieCalls, RegisterCalls, UpdateCalls, AllOps, SignIns, PasswordOps, Credentials
<1>6. CASE c \in UpdateCalls
  BY <1>1, <1>6 DEF UpdateCalls, RegisterCalls, CookieCalls, AllOps, SignIns, PasswordOps, Credentials
<1> QED
  BY <1>2, <1>3, <1>4, <1>5, <1>6 DEF Calls

\* What two requests have to be about at once for About to tell.
LEMMA AboutFacts ==
  ASSUME NEW c \in Calls
  PROVE  /\ c.op \in Credentials => token[c.token].session \in About(c)
         /\ c.op \in PasswordOps => c.email \in About(c)
BY CallFacts DEF About, SignIns, PasswordOps, Credentials

-----------------------------------------------------------------------------
(* Types, and what a request knows in each phase.                          *)

Tables ==
  /\ user \in SUBSET Emails
  /\ identity \in [Identities -> IdentityRows \cup {Nil}]
  /\ google \in SUBSET Emails
  /\ latest \in [Emails -> Passwords \cup {Nil}]
  /\ token \in [Tokens -> TokenRows \cup {Nil}]
  /\ blocked \in SUBSET Issued
  /\ ended \in SUBSET Issued
  /\ cookie \in [Browsers -> Issued \cup {Nil}]
  /\ missed \in SUBSET Browsers
  /\ raced \in SUBSET (Tokens \cup Emails)
  /\ \A t \in Issued : token[t].session \in Issued

Coroutines ==
  /\ pc \in [Requests -> Labels]
  /\ call \in [Requests -> Calls \cup {Nil}]
  /\ row \in [Requests -> ReadRows \cup {Nil}]
  /\ minted \in [Requests -> Issued \cup {Nil}]

Phase(r) ==
  /\ pc[r] = "idle" <=> call[r] = Nil
  /\ minted[r] # Nil => pc[r] = "reply"
  /\ row[r] # Nil =>
       /\ pc[r] # "idle"
       /\ identity[row[r].id] # Nil
       /\ identity[row[r].id].email = call[r].email
  /\ pc[r] # "idle" =>
       /\ call[r].op \in Credentials => call[r].token \in Issued
       /\ pc[r] = "verify" => call[r].op \in {"login", "update_password"}
       /\ pc[r] = "verify" \/ (pc[r] \in {"check", "write"} /\ call[r].op = "update_password")
            => row[r] # Nil
       /\ pc[r] = "write" => call[r].op \in Credentials
       /\ pc[r] = "reply" => call[r].op # "register_user"

Types == Tables /\ Coroutines /\ \A r \in Requests : Phase(r)

LEMMA TypesInit == Init => Types
BY DEF Init, Types, Tables, Coroutines, Phase, Issued, Labels

\* A step of another request: it issues tokens and changes passwords, but takes
\* no token and no identity away.
Apart(r) ==
  /\ pc'[r] = pc[r] /\ call'[r] = call[r] /\ row'[r] = row[r] /\ minted'[r] = minted[r]
  /\ Issued \subseteq Issued'
  /\ \A i \in Identities :
       identity[i] # Nil => identity'[i] # Nil /\ identity'[i].email = identity[i].email

LEMMA ApartKeepsPhase ==
  ASSUME Types, NEW r \in Requests, Apart(r)
  PROVE  Phase(r)'
<1>1. row[r] # Nil => row[r].id \in Identities
  BY DEF Types, Coroutines, ReadRows
<1> QED
  BY <1>1 DEF Types, Phase, Apart

\* A step with no new rows, tokens or cookies.
LEMMA LocalStep ==
  ASSUME Types, NEW r \in Requests, Phase(r)', UNCHANGED <<people, sessions, jars>>,
         NEW label \in Labels, pc' = [pc EXCEPT ![r] = label],
         NEW c \in Calls \cup {Nil}, call' = [call EXCEPT ![r] = c],
         NEW x \in ReadRows \cup {Nil}, row' = [row EXCEPT ![r] = x],
         NEW m \in Issued \cup {Nil}, minted' = [minted EXCEPT ![r] = m]
  PROVE  Types'
<1>1. Issued' = Issued
  BY DEF Issued, sessions
<1>2. Tables' /\ Coroutines'
  BY <1>1 DEF Types, Tables, Coroutines, people, sessions, jars
<1>3. ASSUME NEW q \in Requests, q # r PROVE Phase(q)'
  <2>1. Apart(q)
    BY <1>1, <1>3 DEF Types, Coroutines, Apart, people
  <2> QED
    BY <2>1, ApartKeepsPhase
<1> QED
  BY <1>2, <1>3 DEF Types

LEMMA FinishStep ==
  ASSUME Types, NEW r \in Requests, Finish(r), UNCHANGED <<people, sessions, jars>>
  PROVE  Types'
<1>1. Phase(r)'
  BY DEF Types, Coroutines, Phase, Finish
<1>2. "idle" \in Labels /\ Types
  BY DEF Labels
<1> QED
  BY <1>1, <1>2, LocalStep DEF Finish

LEMMA GotoStep ==
  ASSUME Types, NEW r \in Requests, NEW label \in Labels, Goto(r, label), Phase(r)',
         UNCHANGED <<people, sessions, jars>>
  PROVE  Types'
<1>1. call[r] \in Calls \cup {Nil} /\ row[r] \in ReadRows \cup {Nil} /\ minted[r] \in Issued \cup {Nil}
  BY DEF Types, Coroutines
<1>2. /\ call' = [call EXCEPT ![r] = call[r]]
      /\ row' = [row EXCEPT ![r] = row[r]]
      /\ minted' = [minted EXCEPT ![r] = minted[r]]
  BY DEF Types, Coroutines, Goto
<1> QED
  BY <1>1, <1>2, LocalStep DEF Goto

\* A token more: issued, and on its way to the browser.
LEMMA MintIssues ==
  ASSUME Types, NEW r \in Requests, NEW e \in Emails, NEW from \in Issued \cup {Nil},
         Mint(r, e, from)
  PROVE  \E t \in Tokens :
           /\ t \notin Issued /\ Issued' = Issued \cup {t}
           /\ token' \in [Tokens -> TokenRows \cup {Nil}]
           /\ \A s \in Issued : token'[s] = token[s]
           /\ token'[t].session = IF from = Nil THEN t ELSE token[from].session
           /\ token'[t].from = from
           /\ pc' = [pc EXCEPT ![r] = "reply"] /\ minted' = [minted EXCEPT ![r] = t]
           /\ UNCHANGED <<call, row>>
<1> DEFINE fresh(t) == [owner   |-> e,
                        session |-> IF from = Nil THEN t ELSE token[from].session,
                        from    |-> from]
<1>1. PICK t \in Tokens :
        /\ token[t] = Nil
        /\ token' = [token EXCEPT ![t] = fresh(t)]
        /\ pc' = [pc EXCEPT ![r] = "reply"] /\ minted' = [minted EXCEPT ![r] = t]
        /\ UNCHANGED <<call, row>>
  BY DEF Mint
<1>2. token \in [Tokens -> TokenRows \cup {Nil}] /\ \A s \in Issued : token[s].session \in Issued
  BY DEF Types, Tables
<1>3. fresh(t) \in TokenRows
  BY <1>2 DEF TokenRows, Issued
<1>4. fresh(t) # Nil
  BY <1>3, NilAssumption
<1> HIDE DEF fresh
<1>5. token' \in [Tokens -> TokenRows \cup {Nil}] /\ token'[t] = fresh(t)
  BY <1>1, <1>2, <1>3
<1>6. Issued' = Issued \cup {t} /\ t \notin Issued
  BY <1>1, <1>2, <1>4 DEF Issued
<1>7. \A s \in Issued : token'[s] = token[s]
  BY <1>1, <1>2, <1>6
<1>8. fresh(t).session = (IF from = Nil THEN t ELSE token[from].session) /\ fresh(t).from = from
  BY DEF fresh
<1> QED
  BY <1>1, <1>5, <1>6, <1>7, <1>8

LEMMA MintStep ==
  ASSUME Types, NEW r \in Requests, NEW e \in Emails, NEW from \in Issued \cup {Nil},
         Mint(r, e, from), pc[r] # "idle", call[r].op # "register_user", UNCHANGED identity
  PROVE  /\ token' \in [Tokens -> TokenRows \cup {Nil}]
         /\ Issued \subseteq Issued'
         /\ \A t \in Issued' : token'[t].session \in Issued'
         /\ Coroutines'
         /\ \A q \in Requests : Phase(q)'
<1>1. PICK t \in Tokens :
           /\ t \notin Issued /\ Issued' = Issued \cup {t}
           /\ token' \in [Tokens -> TokenRows \cup {Nil}]
           /\ \A s \in Issued : token'[s] = token[s]
           /\ token'[t].session = IF from = Nil THEN t ELSE token[from].session
           /\ pc' = [pc EXCEPT ![r] = "reply"] /\ minted' = [minted EXCEPT ![r] = t]
           /\ UNCHANGED <<call, row>>
  BY MintIssues
<1>2. \A s \in Issued' : token'[s].session \in Issued'
  BY <1>1 DEF Types, Tables
<1>3. Coroutines'
  BY <1>1 DEF Types, Coroutines, Labels
<1>4. Phase(r)'
  BY <1>1 DEF Types, Coroutines, Phase
<1>5. ASSUME NEW q \in Requests, q # r PROVE Phase(q)'
  <2>1. Apart(q)
    BY <1>1, <1>5 DEF Types, Coroutines, Apart
  <2> QED
    BY <2>1, ApartKeepsPhase
<1> QED
  BY <1>1, <1>2, <1>3, <1>4, <1>5

\* A password identity more.
LEMMA AddPasswordStep ==
  ASSUME Types, NEW e \in Emails, NEW p \in Passwords, AddPassword(e, p)
  PROVE  \E i \in Identities :
           /\ identity[i] = Nil
           /\ identity' \in [Identities -> IdentityRows \cup {Nil}]
           /\ identity'[i] # Nil /\ identity'[i].email = e /\ identity'[i].hash = p
           /\ \A j \in Identities \ {i} : identity'[j] = identity[j]
           /\ latest' = [latest EXCEPT ![e] = p]
           /\ latest' \in [Emails -> Passwords \cup {Nil}]
<1>1. PICK i \in Identities :
        identity[i] = Nil /\ identity' = [identity EXCEPT ![i] = [email |-> e, hash |-> p]]
  BY DEF AddPassword
<1>2. [email |-> e, hash |-> p] \in IdentityRows
  BY DEF IdentityRows
<1>3. [email |-> e, hash |-> p] # Nil
  BY <1>2, NilAssumption
<1> QED
  BY <1>1, <1>2, <1>3 DEF Types, Tables, AddPassword

LEMMA TypesStep == Types /\ [Next]_vars => Types'
<1> SUFFICES ASSUME Types, [Next]_vars PROVE Types'
  OBVIOUS
<1>t. Tables /\ Coroutines /\ \A r \in Requests : Phase(r)
  BY DEF Types
<1>0. ASSUME UNCHANGED vars PROVE Types'
  <2>1. Issued' = Issued
    BY <1>0 DEF vars, sessions, Issued
  <2> QED
    BY <1>0, <1>t, <2>1
    DEF vars, people, sessions, locals, jars, Types, Tables, Coroutines, Phase
<1>1. ASSUME NEW r \in Requests, NEW c \in Calls, Begin(r, c) PROVE Types'
  <2>1. Issued' = Issued
    BY <1>1 DEF Begin, sessions, Issued
  <2>2. c.op \in Credentials => c.token \in Issued
    <3>1. ASSUME c.op \in Credentials PROVE c.token \in Issued
      <4>1. c.token = cookie[c.browser] /\ c.token \in Tokens /\ c.browser \in Browsers
        BY <1>1, <3>1, CallFacts DEF Begin, Credentials
      <4> QED
        BY <4>1, <1>t, NilAssumption DEF Tables
    <3> QED
      BY <3>1
  <2>3. raced' \in SUBSET (Tokens \cup Emails)
    <3>1. About(c) \subseteq Tokens \cup Emails
      BY <1>t, <2>2, CallFacts DEF About, Tables, Issued
    <3> QED
      BY <1>1, <1>t, <3>1 DEF Begin, Tables
  <2>4. Tables' /\ Coroutines'
    BY <1>1, <1>t, <2>1, <2>3 DEF Begin, Tables, Coroutines, Labels, people, sessions
  <2>5. Phase(r)'
    BY <1>1, <1>t, <2>1, <2>2, CallFacts DEF Begin, Coroutines, Phase
  <2>6. ASSUME NEW q \in Requests, q # r PROVE Phase(q)'
    <3>1. Apart(q)
      BY <1>1, <1>t, <2>1, <2>6 DEF Begin, Coroutines, Apart, people
    <3> QED
      BY <3>1, ApartKeepsPhase
  <2> QED
    BY <2>4, <2>5, <2>6 DEF Types
<1>2. ASSUME NEW r \in Requests, RequestFails(r) PROVE Types'
  BY <1>2, FinishStep DEF RequestFails
<1>3. ASSUME NEW r \in Requests, Deliver(r) \/ LoseReply(r) PROVE Types'
  <2>1. Issued' = Issued /\ call[r] \in Calls /\ call[r].op # "register_user"
    BY <1>3, <1>t DEF Deliver, LoseReply, sessions, Issued, Coroutines, Phase
  <2>2. call[r].browser \in Browsers
    BY <2>1, CallFacts
  <2>3. Tables' /\ Coroutines'
    BY <1>3, <1>t, <2>1, <2>2
    DEF Deliver, LoseReply, Finish, Tables, Coroutines, Labels, people, sessions
  <2>4. Phase(r)'
    BY <1>3, <1>t DEF Deliver, LoseReply, Finish, Coroutines, Phase
  <2>5. ASSUME NEW q \in Requests, q # r PROVE Phase(q)'
    <3>1. Apart(q)
      BY <1>3, <1>t, <2>1, <2>5 DEF Deliver, LoseReply, Finish, Coroutines, Apart, people
    <3> QED
      BY <3>1, ApartKeepsPhase
  <2> QED
    BY <2>3, <2>4, <2>5 DEF Types
<1>4. ASSUME NEW r \in Requests, NEW label \in {"identity", "create", "attach"},
             Goto(r, label), UNCHANGED <<people, sessions, jars>>,
             pc[r] \in {"lookup", "identity"}
      PROVE  Types'
  <2>1. Phase(r)'
    BY <1>4, <1>t DEF Goto, Coroutines, Phase, Issued, people, sessions
  <2> QED
    BY <1>4, <2>1, GotoStep DEF Labels
<1>5. ASSUME NEW r \in Requests, RegisterLookup(r) \/ GoogleLookup(r) PROVE Types'
  BY <1>5, <1>4 DEF RegisterLookup, GoogleLookup, At
<1>6. ASSUME NEW r \in Requests, RegisterIdentity(r) PROVE Types'
  BY <1>6, <1>4, FinishStep DEF RegisterIdentity, At
<1>7. ASSUME NEW r \in Requests, RegisterAttach(r) \/ RegisterCreate(r) PROVE Types'
  <2>1. /\ pc[r] # "idle" /\ Finish(r) /\ UNCHANGED <<google, sessions, jars>>
        /\ user' \in {user, user \cup {call[r].email}}
        /\ AddPassword(call[r].email, call[r].password)
        /\ call[r].op = "register_user"
    BY <1>7 DEF RegisterAttach, RegisterCreate, At
  <2>2. call[r] \in Calls
    BY <2>1, <1>t DEF Coroutines, Phase
  <2>3. call[r].email \in Emails /\ call[r].password \in Passwords
    BY <2>1, <2>2, CallFacts DEF PasswordOps
  <2>4. PICK i \in Identities :
           /\ identity[i] = Nil
           /\ identity' \in [Identities -> IdentityRows \cup {Nil}]
           /\ \A j \in Identities \ {i} : identity'[j] = identity[j]
           /\ latest' \in [Emails -> Passwords \cup {Nil}]
    BY <2>1, <2>3, AddPasswordStep
  <2>5. Issued' = Issued
    BY <2>1 DEF sessions, Issued
  <2>6. Tables' /\ Coroutines'
    BY <1>t, <2>1, <2>3, <2>4, <2>5 DEF Tables, Coroutines, Finish, sessions, jars, Labels
  <2>7. Phase(r)'
    BY <1>t, <2>1 DEF Coroutines, Finish, Phase
  <2>8. ASSUME NEW q \in Requests, q # r PROVE Phase(q)'
    <3>1. Apart(q)
      BY <1>t, <2>1, <2>4, <2>5, <2>8 DEF Coroutines, Finish, Apart
    <3> QED
      BY <3>1, ApartKeepsPhase
  <2> QED
    BY <2>6, <2>7, <2>8 DEF Types
<1>8. ASSUME NEW r \in Requests, GoogleCreate(r) PROVE Types'
  <2>1. Issued' = Issued /\ call[r] \in Calls /\ call[r].op = "auth_google"
    BY <1>8, <1>t DEF GoogleCreate, At, sessions, Issued, Coroutines, Phase
  <2>2. call[r].email \in Emails
    BY <2>1, CallFacts DEF SignIns
  <2>3. Tables' /\ Coroutines'
    BY <1>8, <1>t, <2>1, <2>2 DEF GoogleCreate, Goto, Tables, Coroutines, Labels, sessions, jars
  <2>4. Phase(r)'
    BY <1>8, <1>t, <2>1 DEF GoogleCreate, At, Goto, Coroutines, Phase
  <2>5. ASSUME NEW q \in Requests, q # r PROVE Phase(q)'
    <3>1. Apart(q)
      BY <1>8, <1>t, <2>1, <2>5 DEF GoogleCreate, Goto, Coroutines, Apart
    <3> QED
      BY <3>1, ApartKeepsPhase
  <2> QED
    BY <2>3, <2>4, <2>5 DEF Types
\* The sign-ins that succeed.
<1>9. ASSUME NEW r \in Requests, Mint(r, call[r].email, Nil), pc[r] # "idle",
             call[r].op \in SignIns, google' \in SUBSET Emails,
             UNCHANGED <<user, identity, latest, blocked, ended, jars>>
      PROVE  Types'
  <2>1. call[r] \in Calls /\ call[r].op # "register_user"
    BY <1>9, <1>t DEF SignIns, Coroutines, Phase
  <2>2. call[r].email \in Emails
    BY <1>9, <2>1, CallFacts
  <2>3. /\ token' \in [Tokens -> TokenRows \cup {Nil}]
        /\ Issued \subseteq Issued'
        /\ \A t \in Issued' : token'[t].session \in Issued'
        /\ Coroutines'
        /\ \A q \in Requests : Phase(q)'
    BY <1>9, <2>1, <2>2, MintStep
  <2>4. Tables'
    BY <1>9, <1>t, <2>3 DEF Tables, jars
  <2> QED
    BY <2>3, <2>4 DEF Types
<1>10. ASSUME NEW r \in Requests, GoogleIdentity(r) PROVE Types'
  <2>1. CASE call[r].email \in google
    BY <1>10, <1>9, <1>t, <2>1 DEF GoogleIdentity, At, SignIns, people, Tables
  <2>2. CASE call[r].email \notin google
    BY <1>10, <1>4, <2>2 DEF GoogleIdentity, At, people, sessions
  <2> QED
    BY <2>1, <2>2
<1>11. ASSUME NEW r \in Requests, GoogleAttach(r) PROVE Types'
  <2>1. call[r] \in Calls /\ call[r].op = "auth_google"
    BY <1>11, <1>t DEF GoogleAttach, At, Coroutines, Phase
  <2>2. call[r].email \in Emails
    BY <2>1, CallFacts DEF SignIns
  <2> QED
    BY <1>11, <1>9, <1>t, <2>2 DEF GoogleAttach, At, SignIns, Tables
<1>12. ASSUME NEW r \in Requests, IdentityLookup(r) PROVE Types'
  <2>1. CASE Finish(r)
    BY <1>12, <2>1, FinishStep DEF IdentityLookup
  <2>2. CASE ReadIdentity(r)
    <3>1. PICK i \in IdentitiesOf(call[r].email) :
            row' = [row EXCEPT ![r] = [id |-> i, hash |-> identity[i].hash]]
      BY <2>2 DEF ReadIdentity
    <3> DEFINE read == [id |-> i, hash |-> identity[i].hash]
    <3>2. i \in Identities /\ identity[i] \in IdentityRows /\ identity[i].email = call[r].email
      BY <1>t, <3>1 DEF IdentitiesOf, Tables
    <3>3. read \in ReadRows
      BY <3>2 DEF IdentityRows, ReadRows
    <3>4. read # Nil /\ identity[i] # Nil
      BY <3>2, <3>3, NilAssumption
    <3>5. /\ pc[r] = "lookup" /\ call[r].op \in {"login", "update_password"}
          /\ pc' = [pc EXCEPT ![r] = "verify"] /\ UNCHANGED <<call, minted>>
          /\ UNCHANGED <<people, sessions, jars>>
      BY <1>12, <2>2 DEF IdentityLookup, ReadIdentity, At
    <3>6. read.id = i
      OBVIOUS
    <3> HIDE DEF read
    <3>7. /\ pc'[r] = "verify" /\ call'[r] = call[r] /\ row'[r] = read /\ minted'[r] = minted[r]
          /\ Issued' = Issued /\ identity' = identity
      BY <1>t, <3>1, <3>5 DEF Coroutines, Issued, people, sessions, read
    <3>8. Phase(r)'
      BY <1>t, <3>2, <3>4, <3>5, <3>6, <3>7 DEF Coroutines, Phase
    <3>9. call[r] \in Calls \cup {Nil} /\ minted[r] \in Issued \cup {Nil} /\ "verify" \in Labels
      BY <1>t DEF Coroutines, Labels
    <3>10. call' = [call EXCEPT ![r] = call[r]] /\ minted' = [minted EXCEPT ![r] = minted[r]]
      BY <1>t, <3>5 DEF Coroutines
    <3>11. row' = [row EXCEPT ![r] = read]
      BY <3>1 DEF read
    <3> QED
      BY <3>3, <3>5, <3>8, <3>9, <3>10, <3>11, LocalStep
  <2> QED
    BY <1>12, <2>1, <2>2 DEF IdentityLookup
<1>13. ASSUME NEW r \in Requests, LoginVerify(r) PROVE Types'
  <2>1. CASE call[r].password # row[r].hash
    BY <1>13, <2>1, FinishStep DEF LoginVerify, people, sessions
  <2>2. CASE call[r].password = row[r].hash
    BY <1>13, <1>9, <1>t, <2>2 DEF LoginVerify, At, SignIns, people, Tables
  <2> QED
    BY <2>1, <2>2
<1>14. ASSUME NEW r \in Requests, UpdateVerify(r) \/ TokenCheck(r) PROVE Types'
  <2>1. CASE Finish(r)
    BY <1>14, <2>1, FinishStep DEF UpdateVerify, TokenCheck
  <2>2. CASE UpdateVerify(r) /\ Goto(r, "check")
    <3>1. Phase(r)'
      BY <2>2, <1>t
      DEF UpdateVerify, At, Goto, Coroutines, Phase, Issued, people, sessions, Credentials
    <3> QED
      BY <2>2, <3>1, GotoStep DEF UpdateVerify, Labels
  <2>3. CASE TokenCheck(r) /\ Goto(r, "write")
    <3>1. Phase(r)'
      BY <2>3, <1>t
      DEF TokenCheck, At, Goto, Coroutines, Phase, Issued, people, sessions, Credentials
    <3> QED
      BY <2>3, <3>1, GotoStep DEF TokenCheck, Labels
  <2> QED
    BY <1>14, <2>1, <2>2, <2>3 DEF UpdateVerify, TokenCheck
<1>15. ASSUME NEW r \in Requests, RefreshWrite(r) PROVE Types'
  <2>1. pc[r] # "idle" /\ call[r].token \in Issued /\ call[r].op = "refresh_token"
    BY <1>15, <1>t DEF RefreshWrite, At, Phase, Credentials
  <2>2. token[call[r].token].owner \in Emails
    BY <1>t, <2>1 DEF Tables, Issued, TokenRows
  <2>3. /\ token' \in [Tokens -> TokenRows \cup {Nil}]
        /\ Issued \subseteq Issued'
        /\ \A t \in Issued' : token'[t].session \in Issued'
        /\ Coroutines'
        /\ \A q \in Requests : Phase(q)'
    BY <1>15, <2>1, <2>2, MintStep DEF RefreshWrite, people
  <2>4. Tables'
    BY <1>15, <1>t, <2>1, <2>3 DEF RefreshWrite, Tables, people, jars
  <2> QED
    BY <2>3, <2>4 DEF Types
<1>16. ASSUME NEW r \in Requests, LogoutWrite(r) PROVE Types'
  <2>1. call[r].token \in Issued
    BY <1>16, <1>t DEF LogoutWrite, At, Phase, Credentials
  <2>2. Issued' = Issued
    BY <1>16 DEF LogoutWrite, Issued
  <2>3. Tables' /\ Coroutines'
    BY <1>16, <1>t, <2>1, <2>2 DEF LogoutWrite, Goto, Tables, Coroutines, Labels, people, jars
  <2>4. Phase(r)'
    BY <1>16, <1>t, <2>2 DEF LogoutWrite, At, Goto, Coroutines, Phase, people
  <2>5. ASSUME NEW q \in Requests, q # r PROVE Phase(q)'
    <3>1. Apart(q)
      BY <1>16, <1>t, <2>2, <2>5 DEF LogoutWrite, Goto, Coroutines, Apart, people
    <3> QED
      BY <3>1, ApartKeepsPhase
  <2> QED
    BY <2>3, <2>4, <2>5 DEF Types
<1>17. ASSUME NEW r \in Requests, UpdateWrite(r) PROVE Types'
  <2>1. /\ call[r] \in Calls /\ call[r].token \in Issued /\ row[r] # Nil
        /\ call[r].op = "update_password"
    BY <1>17, <1>t DEF UpdateWrite, At, Coroutines, Phase, Credentials
  <2>2. call[r].email \in Emails /\ call[r].new \in Passwords
    BY <2>1, CallFacts DEF PasswordOps
  <2>3. Issued' = Issued
    BY <1>17 DEF UpdateWrite, Issued
  <2>4. row[r].id \in Identities /\ identity[row[r].id] \in IdentityRows
    BY <1>t, <2>1 DEF Tables, Coroutines, Phase, ReadRows
  <2> DEFINE i == row[r].id
             new == [identity[i] EXCEPT !.hash = call[r].new]
  <2>5. identity' = [identity EXCEPT ![i] = new]
    BY <1>17 DEF UpdateWrite
  <2>6. new \in IdentityRows /\ new.email = identity[i].email
    BY <2>2, <2>4 DEF IdentityRows
  <2>7. new # Nil
    BY <2>6, NilAssumption
  <2>8. identity' \in [Identities -> IdentityRows \cup {Nil}] /\ identity'[i] = new
        /\ \A j \in Identities \ {i} : identity'[j] = identity[j]
    <3> HIDE DEF new
    <3> QED
      BY <1>t, <2>4, <2>5, <2>6 DEF Tables
  <2>9. \A j \in Identities :
          identity[j] # Nil => identity'[j] # Nil /\ identity'[j].email = identity[j].email
    <3> HIDE DEF new, i
    <3> QED
      BY <2>6, <2>7, <2>8
  <2>10. Tables' /\ Coroutines'
    <3> HIDE DEF new, i
    <3> QED
      BY <1>17, <1>t, <2>1, <2>2, <2>3, <2>8
      DEF UpdateWrite, Goto, Tables, Coroutines, Labels, jars
  <2>11. Phase(r)'
    <3> HIDE DEF new, i
    <3> QED
      BY <1>17, <1>t, <2>1, <2>3, <2>4, <2>9 DEF UpdateWrite, At, Goto, Coroutines, Phase
  <2>12. ASSUME NEW q \in Requests, q # r PROVE Phase(q)'
    <3>1. Apart(q)
      BY <1>17, <1>t, <2>3, <2>9, <2>12 DEF UpdateWrite, Goto, Coroutines, Apart
    <3> QED
      BY <3>1, ApartKeepsPhase
  <2> QED
    BY <2>10, <2>11, <2>12 DEF Types
<1> QED
  BY <1>0, <1>1, <1>2, <1>3, <1>5, <1>6, <1>7, <1>8, <1>10, <1>11, <1>12, <1>13,
     <1>14, <1>15, <1>16, <1>17 DEF Next, Handler

-----------------------------------------------------------------------------
(* The steps of a handler by what they do to tokens and cookies.           *)

Running(r) == pc[r] \notin {"idle", "reply"}

Continues(r) ==
  /\ Running(r)
  /\ \E label \in Labels \ {"idle", "reply"} :
       /\ pc' = [pc EXCEPT ![r] = label]
       /\ label = "write" => call[r].token \notin blocked
  /\ UNCHANGED <<call, minted, sessions, jars>>

Stops(r) == Running(r) /\ Finish(r) /\ UNCHANGED <<sessions, jars>>

SignsIn(r) ==
  /\ Running(r)
  /\ call[r].op \in SignIns
  /\ call[r].email \in Emails
  /\ Mint(r, call[r].email, Nil)
  /\ UNCHANGED <<blocked, ended, jars>>

Exchanges(r) ==
  /\ pc[r] = "write"
  /\ call[r].op = "refresh_token"
  /\ call[r].token \in Issued
  /\ token[call[r].token].owner \in Emails
  /\ Mint(r, token[call[r].token].owner, call[r].token)
  /\ blocked' = blocked \cup {call[r].token}
  /\ UNCHANGED <<ended, jars>>

Retires(r) ==
  /\ pc[r] = "write"
  /\ call[r].op \in {"logout", "update_password"}
  /\ call[r].token \in Issued
  /\ blocked' = blocked \cup {call[r].token}
  /\ ended' = ended \cup {token[call[r].token].session}
  /\ pc' = [pc EXCEPT ![r] = "reply"]
  /\ UNCHANGED <<call, minted, token, jars>>

LEMMA Kinds ==
  ASSUME Types, NEW r \in Requests, Handler(r)
  PROVE  \/ Continues(r) \/ Stops(r) \/ SignsIn(r) \/ Exchanges(r) \/ Retires(r)
         \/ Deliver(r) \/ LoseReply(r)
<1>t. /\ Tables /\ Phase(r)
      /\ pc[r] # "idle" => call[r] \in Calls
  BY DEF Types, Coroutines, Phase
<1>e. pc[r] # "idle" /\ call[r].op \in SignIns => call[r].email \in Emails
  BY <1>t, CallFacts
<1>1. CASE RequestFails(r)
  BY <1>1 DEF RequestFails, Stops, Running
<1>2. CASE RegisterLookup(r) \/ GoogleLookup(r)
  BY <1>2 DEF RegisterLookup, GoogleLookup, At, Goto, Continues, Running, Labels
<1>3. CASE RegisterIdentity(r)
  BY <1>3 DEF RegisterIdentity, At, Goto, Continues, Stops, Running, Labels
<1>4. CASE RegisterAttach(r) \/ RegisterCreate(r)
  BY <1>4 DEF RegisterAttach, RegisterCreate, At, Stops, Running
<1>5. CASE GoogleCreate(r)
  <2>1. /\ pc[r] = "create" /\ pc' = [pc EXCEPT ![r] = "identity"]
        /\ UNCHANGED <<call, minted, sessions, jars>>
    BY <1>5 DEF GoogleCreate, At, Goto
  <2>2. "identity" \in Labels \ {"idle", "reply"} /\ "identity" # "write"
    BY DEF Labels
  <2>3. Continues(r)
    BY <2>1, <2>2 DEF Continues, Running
  <2> QED
    BY <2>3
<1>6. CASE GoogleIdentity(r)
  <2>1. CASE call[r].email \in google
    BY <1>6, <1>e, <2>1 DEF GoogleIdentity, At, SignsIn, SignIns, Running
  <2>2. CASE call[r].email \notin google
    BY <1>6, <2>2 DEF GoogleIdentity, At, Goto, Continues, Running, Labels, sessions
  <2> QED
    BY <2>1, <2>2
<1>7. CASE GoogleAttach(r)
  BY <1>7, <1>e DEF GoogleAttach, At, SignsIn, SignIns, Running
<1>8. CASE IdentityLookup(r)
  BY <1>8 DEF IdentityLookup, ReadIdentity, At, Continues, Stops, Running, Labels
<1>9. CASE LoginVerify(r)
  BY <1>9, <1>e DEF LoginVerify, At, SignsIn, SignIns, Stops, Running, sessions
<1>10. CASE UpdateVerify(r) \/ TokenCheck(r)
  BY <1>10 DEF UpdateVerify, TokenCheck, NotBlocked, At, Goto, Continues, Stops, Running, Labels
<1>11. CASE RefreshWrite(r)
  BY <1>11, <1>t
  DEF RefreshWrite, At, Exchanges, Tables, TokenRows, Issued, Phase, Credentials
<1>12. CASE LogoutWrite(r) \/ UpdateWrite(r)
  BY <1>12, <1>t DEF LogoutWrite, UpdateWrite, At, Goto, Retires, Phase, Credentials
<1> QED
  BY <1>1, <1>2, <1>3, <1>4, <1>5, <1>6, <1>7, <1>8, <1>9, <1>10, <1>11, <1>12 DEF Handler

-----------------------------------------------------------------------------
(* Cookies: a token is in one browser, or on its way to one.               *)

Spends(r) == pc[r] # "idle" /\ call[r].op \in Credentials

\* A token that is on its way has not been anywhere, and so not been spent.
OnItsWay(r) ==
  minted[r] # Nil =>
    /\ minted[r] \notin blocked
    /\ \A b \in Browsers : cookie[b] # minted[r]
    /\ \A q \in Requests : Spends(q) => call[q].token # minted[r]
    /\ \A q \in Requests : minted[q] = minted[r] => q = r

InOneJar ==
  \A b1 \in Browsers :
    /\ \A b2 \in Browsers : cookie[b1] # Nil /\ cookie[b1] = cookie[b2] => b1 = b2
    /\ \A r \in Requests : Spends(r) /\ call[r].token = cookie[b1] => call[r].browser = b1

Jars == (\A r \in Requests : OnItsWay(r)) /\ InOneJar

Cookies == Jars /\ CookieIsLive

LEMMA CookiesInit == Init => Cookies
BY NilAssumption DEF Init, Cookies, Jars, OnItsWay, InOneJar, Spends, CookieIsLive

LEMMA CookiesStep == Types /\ Cookies /\ [Next]_vars => Cookies'
<1> SUFFICES ASSUME Types, Cookies, [Next]_vars PROVE Cookies'
  OBVIOUS
<1>t. /\ Coroutines /\ cookie \in [Browsers -> Issued \cup {Nil}]
      /\ blocked \subseteq Issued /\ Nil \notin Issued
      /\ \A r \in Requests : Phase(r)
      /\ Jars /\ CookieIsLive
  BY NilAssumption DEF Types, Tables, Cookies, Issued
<1>0. ASSUME UNCHANGED vars PROVE Cookies'
  BY <1>0 DEF vars, sessions, jars, locals, Cookies, Jars, OnItsWay, InOneJar, Spends, CookieIsLive
<1>1. ASSUME NEW r \in Requests, NEW c \in Calls, Begin(r, c) PROVE Cookies'
  <2>1. c.op \in Credentials => c.token = cookie[c.browser] /\ c.browser \in Browsers /\ c.token # Nil
    BY <1>1, CallFacts, NilAssumption DEF Begin, Credentials
  <2>2. Jars'
    <3>1. /\ pc' = [pc EXCEPT ![r] = "lookup"] /\ call' = [call EXCEPT ![r] = c]
          /\ UNCHANGED <<blocked, cookie, minted>>
      BY <1>1 DEF Begin, sessions
    <3>2. ASSUME NEW q \in Requests PROVE OnItsWay(q)'
      BY <1>t, <2>1, <3>1 DEF Coroutines, Jars, OnItsWay, Spends
    <3>3. InOneJar'
      BY <1>t, <2>1, <3>1 DEF Coroutines, Jars, InOneJar, Spends
    <3> QED
      BY <3>2, <3>3 DEF Jars
  <2>3. CookieIsLive'
    BY <1>1, <1>t DEF Begin, sessions, Coroutines, CookieIsLive
  <2> QED
    BY <2>2, <2>3 DEF Cookies
<1>2. ASSUME NEW r \in Requests, Continues(r) \/ Stops(r) PROVE Cookies'
  <2>1. Jars'
    BY <1>2, <1>t
    DEF Continues, Stops, Running, Finish, sessions, jars, Coroutines, Jars, OnItsWay, InOneJar, Spends
  <2>2. CookieIsLive'
    BY <1>2, <1>t DEF Continues, Stops, Running, Finish, sessions, jars, Coroutines, CookieIsLive
  <2> QED
    BY <2>1, <2>2 DEF Cookies
<1>3. ASSUME NEW r \in Requests, NEW e \in Emails, NEW from \in Issued \cup {Nil},
             Mint(r, e, from), Running(r), UNCHANGED jars,
             \/ UNCHANGED blocked
             \/ blocked' = blocked \cup {call[r].token} /\ call[r].token \in Issued
                /\ call[r].op = "refresh_token"
      PROVE  Cookies'
  <2>1. PICK t \in Tokens :
          /\ t \notin Issued
          /\ pc' = [pc EXCEPT ![r] = "reply"] /\ minted' = [minted EXCEPT ![r] = t]
          /\ UNCHANGED call
    BY <1>3, MintIssues
  <2>2. \A q \in Requests : Spends(q) => call[q].token \in Issued
    BY <1>t DEF Spends, Phase
  <2>3. minted[r] = Nil /\ Spends(r)' = Spends(r)
    BY <1>3, <1>t, <2>1 DEF Running, Phase, Spends, Coroutines
  <2>4. Jars'
    <3>1. ASSUME NEW q \in Requests PROVE OnItsWay(q)'
      <4>1. CASE q = r
        BY <1>3, <1>t, <2>1, <2>2, <4>1 DEF jars, Coroutines, Jars, OnItsWay, Spends, Running
      <4>2. CASE q # r
        BY <1>3, <1>t, <2>1, <2>2, <4>2
        DEF jars, Coroutines, Jars, OnItsWay, Spends, Running, Credentials
      <4> QED
        BY <4>1, <4>2
    <3>2. InOneJar'
      BY <1>3, <1>t, <2>1 DEF jars, Coroutines, Jars, InOneJar, Spends, Running
    <3> QED
      BY <3>1, <3>2 DEF Jars
  <2>5. CookieIsLive'
    BY <1>3, <1>t, <2>1
    DEF jars, Coroutines, Jars, InOneJar, Spends, Running, Credentials, CookieIsLive
  <2> QED
    BY <2>4, <2>5 DEF Cookies
<1>4. ASSUME NEW r \in Requests, SignsIn(r) PROVE Cookies'
  BY <1>4, <1>3 DEF SignsIn
<1>5. ASSUME NEW r \in Requests, Exchanges(r) PROVE Cookies'
  BY <1>5, <1>3 DEF Exchanges, Running
<1>6. ASSUME NEW r \in Requests, Retires(r) PROVE Cookies'
  <2>1. Jars'
    BY <1>6, <1>t
    DEF Retires, jars, Coroutines, Phase, Jars, OnItsWay, InOneJar, Spends, Credentials
  <2>2. CookieIsLive'
    BY <1>6, <1>t DEF Retires, jars, Coroutines, Jars, InOneJar, Spends, Credentials, CookieIsLive
  <2> QED
    BY <2>1, <2>2 DEF Cookies
<1>7. ASSUME NEW r \in Requests, Deliver(r) \/ LoseReply(r) PROVE Cookies'
  <2>1. /\ pc[r] = "reply" /\ Finish(r) /\ UNCHANGED sessions
        /\ \/ cookie' = [cookie EXCEPT ![call[r].browser] = minted[r]] /\ UNCHANGED missed
           \/ missed' = missed \cup {call[r].browser} /\ UNCHANGED cookie
    BY <1>7 DEF Deliver, LoseReply
  <2>2. Jars'
    <3>1. ASSUME NEW q \in Requests PROVE OnItsWay(q)'
      BY <1>t, <2>1 DEF Finish, sessions, Coroutines, Jars, OnItsWay, Spends
    <3>2. \A q \in Requests : Spends(q) => call[q].token # Nil
      BY <1>t DEF Spends, Phase
    <3>3. InOneJar'
      BY <1>t, <2>1, <3>2 DEF Finish, sessions, Coroutines, Jars, OnItsWay, InOneJar, Spends
    <3> QED
      BY <3>1, <3>3 DEF Jars
  <2>3. CookieIsLive'
    BY <1>t, <2>1 DEF Finish, sessions, Coroutines, Jars, OnItsWay, CookieIsLive
  <2> QED
    BY <2>2, <2>3 DEF Cookies
<1> QED
  BY <1>0, <1>1, <1>2, <1>4, <1>5, <1>6, <1>7, Kinds DEF Next

-----------------------------------------------------------------------------
(* Sessions: what no two requests are about at once.                       *)

SessionOf(r) == token[call[r].token].session

\* Requests about one session at once have raced.
Meetings ==
  \A r, q \in Requests :
    r # q /\ Spends(r) /\ Spends(q) /\ SessionOf(r) = SessionOf(q) => SessionOf(r) \in raced

\* Between the check of a token and its exchange only a race can block it.
Checked ==
  \A r \in Requests :
    Spends(r) /\ pc[r] = "write" /\ SessionOf(r) \notin raced => call[r].token \notin blocked

\* A token with a successor is blocked, and has one of them.
Successors ==
  \A s1 \in Issued : token[s1].from # Nil =>
    /\ token[s1].from \in blocked
    /\ \A s2 \in Issued :
         token[s2].from = token[s1].from /\ token[token[s1].from].session \notin raced => s1 = s2

Sessions ==
  Meetings /\ Checked /\ Successors /\ OneLiveTokenUnlessRaced /\ LogoutIsFinalUnlessRaced

LEMMA SessionsInit == Init => Sessions
BY NilAssumption
DEF Init, Sessions, Meetings, Checked, Successors, OneLiveTokenUnlessRaced,
    LogoutIsFinalUnlessRaced, Spends, Issued

LEMMA SessionsStep == Types /\ Sessions /\ [Next]_vars => Sessions'
<1> SUFFICES ASSUME Types, Sessions, [Next]_vars PROVE Sessions'
  OBVIOUS
<1>t. /\ Coroutines
      /\ blocked \subseteq Issued /\ ended \subseteq Issued /\ Issued \subseteq Tokens
      /\ \A t \in Issued : token[t].session \in Issued
      /\ \A r \in Requests : Spends(r) => call[r].token \in Issued
      /\ \A r \in Requests : pc[r] = "write" => Spends(r)
      /\ Nil \notin Issued
  BY NilAssumption DEF Types, Tables, Issued, Phase, Spends
<1>s. Meetings /\ Checked /\ Successors /\ OneLiveTokenUnlessRaced /\ LogoutIsFinalUnlessRaced
  BY DEF Sessions
\* Steps that leave tokens and blocklist alone.
<1>0. ASSUME UNCHANGED sessions, raced \subseteq raced', Meetings', Checked' PROVE Sessions'
  <2>1. Issued' = Issued
    BY <1>0 DEF sessions, Issued
  <2> QED
    BY <1>0, <1>s, <2>1
    DEF sessions, Sessions, Successors, OneLiveTokenUnlessRaced, LogoutIsFinalUnlessRaced, OneLive
<1>1. ASSUME UNCHANGED vars PROVE Sessions'
  BY <1>0, <1>1, <1>s DEF vars, sessions, jars, locals, Meetings, Checked, Spends, SessionOf
<1>2. ASSUME NEW r \in Requests, NEW c \in Calls, Begin(r, c) PROVE Sessions'
  <2>1. /\ pc[r] = "idle" /\ pc' = [pc EXCEPT ![r] = "lookup"] /\ call' = [call EXCEPT ![r] = c]
        /\ UNCHANGED sessions /\ raced \subseteq raced'
        /\ \A q \in Requests : pc[q] # "idle" => About(c) \cap About(call[q]) \subseteq raced'
    BY <1>2 DEF Begin
  <2>2. ASSUME NEW q \in Requests, Spends(q), c.op \in Credentials,
               SessionOf(q) = token[c.token].session
        PROVE  SessionOf(q) \in raced'
    <3>1. call[q] \in Calls /\ pc[q] # "idle"
      BY <1>t, <2>2 DEF Coroutines, Spends, Types, Phase
    <3>2. SessionOf(q) \in About(c) /\ SessionOf(q) \in About(call[q])
      BY <2>2, <3>1, AboutFacts DEF SessionOf, Spends
    <3> QED
      BY <2>1, <3>1, <3>2
  <2>3. Meetings'
    BY <1>t, <1>s, <2>1, <2>2 DEF sessions, Coroutines, Meetings, Spends, SessionOf
  <2>4. Checked'
    BY <1>t, <1>s, <2>1 DEF sessions, Coroutines, Checked, Spends, SessionOf
  <2> QED
    BY <1>0, <2>1, <2>3, <2>4
<1>3. ASSUME NEW r \in Requests, Continues(r) PROVE Sessions'
  <2>1. Meetings' /\ Checked'
    BY <1>3, <1>t, <1>s
    DEF Continues, Running, sessions, jars, Coroutines, Meetings, Checked, Spends, SessionOf
  <2> QED
    BY <1>0, <1>3, <2>1 DEF Continues, jars
<1>4. ASSUME NEW r \in Requests, Stops(r) \/ Deliver(r) \/ LoseReply(r) PROVE Sessions'
  <2>1. Finish(r) /\ UNCHANGED <<sessions, raced>>
    BY <1>4 DEF Stops, Deliver, LoseReply, jars
  <2>2. Meetings' /\ Checked'
    BY <1>t, <1>s, <2>1 DEF Finish, sessions, Coroutines, Meetings, Checked, Spends, SessionOf
  <2> QED
    BY <1>0, <2>1, <2>2
<1>5. ASSUME NEW r \in Requests, SignsIn(r) PROVE Sessions'
  <2>1. PICK t \in Tokens :
           /\ t \notin Issued /\ Issued' = Issued \cup {t}
           /\ \A s \in Issued : token'[s] = token[s]
           /\ token'[t].session = t /\ token'[t].from = Nil
           /\ pc' = [pc EXCEPT ![r] = "reply"] /\ UNCHANGED call
    BY <1>5, MintIssues DEF SignsIn
  <2>2. UNCHANGED <<blocked, ended, raced>> /\ ~Spends(r) /\ ~Spends(r)'
    BY <1>5, <1>t, <2>1 DEF SignsIn, SignIns, Credentials, Spends, Coroutines, jars
  <2>3. \A q \in Requests :
          /\ Spends(q)' => Spends(q) /\ pc'[q] = pc[q]
          /\ Spends(q) => SessionOf(q)' = SessionOf(q)
    BY <1>t, <2>1, <2>2 DEF Coroutines, Spends, SessionOf
  <2>4. Meetings' /\ Checked'
    BY <1>s, <2>1, <2>2, <2>3 DEF Meetings, Checked
  <2>5. Successors'
    BY <1>t, <1>s, <2>1, <2>2 DEF Successors
  <2>6. OneLiveTokenUnlessRaced' /\ LogoutIsFinalUnlessRaced'
    BY <1>t, <1>s, <2>1, <2>2 DEF OneLiveTokenUnlessRaced, LogoutIsFinalUnlessRaced, OneLive
  <2> QED
    BY <2>4, <2>5, <2>6 DEF Sessions
\* A request that blocks its token leaves those of requests it has not raced.
<1>6. ASSUME NEW r \in Requests, pc[r] = "write", pc' = [pc EXCEPT ![r] = "reply"],
             blocked' = blocked \cup {call[r].token}, UNCHANGED <<call, raced>>,
             \A t \in Issued : token'[t] = token[t]
      PROVE  Meetings' /\ Checked'
  <2>1. \A q \in Requests :
          /\ Spends(q)' <=> Spends(q)
          /\ Spends(q) => SessionOf(q)' = SessionOf(q)
    BY <1>6, <1>t DEF Coroutines, Spends, SessionOf
  <2>2. Meetings'
    BY <1>6, <1>s, <2>1 DEF Meetings
  <2>3. ASSUME NEW q \in Requests, Spends(q), pc'[q] = "write", SessionOf(q) \notin raced
        PROVE  call[q].token \notin blocked'
    <3>1. q # r /\ pc[q] = "write" /\ call[q].token \notin blocked
      BY <1>6, <1>t, <1>s, <2>3 DEF Coroutines, Checked
    <3>2. call[q].token # call[r].token
      BY <1>6, <1>t, <1>s, <2>3, <3>1 DEF Meetings, SessionOf
    <3> QED
      BY <1>6, <3>1, <3>2
  <2>4. Checked'
    BY <1>6, <2>1, <2>3 DEF Checked
  <2> QED
    BY <2>2, <2>4
<1>7. ASSUME NEW r \in Requests, Exchanges(r) PROVE Sessions'
  <2> DEFINE tok == call[r].token
  <2>0. Types /\ tok \in Issued /\ token[tok].owner \in Emails /\ Mint(r, token[tok].owner, tok)
    BY <1>7 DEF Exchanges
  <2>1. PICK t \in Tokens :
           /\ t \notin Issued /\ Issued' = Issued \cup {t}
           /\ \A s \in Issued : token'[s] = token[s]
           /\ token'[t].session = (IF tok = Nil THEN t ELSE token[tok].session)
           /\ token'[t].from = tok
           /\ pc' = [pc EXCEPT ![r] = "reply"] /\ UNCHANGED call
    BY <2>0, MintIssues
  <2>2. /\ pc[r] = "write" /\ Spends(r) /\ tok # Nil
        /\ blocked' = blocked \cup {tok} /\ UNCHANGED <<ended, raced>>
    BY <1>7, <1>t DEF Exchanges, jars
  <2>3. SessionOf(r) \notin raced => tok \notin blocked
    BY <1>s, <2>2 DEF Checked
  <2>4. token'[t].session = SessionOf(r) /\ token[tok].session = SessionOf(r)
    BY <2>1, <2>2 DEF SessionOf
  <2> HIDE DEF tok
  <2>5. Successors'
    BY <1>t, <1>s, <2>0, <2>1, <2>2, <2>3, <2>4 DEF Successors
  <2>6. OneLiveTokenUnlessRaced'
    BY <1>t, <1>s, <2>0, <2>1, <2>2, <2>3, <2>4 DEF OneLiveTokenUnlessRaced, OneLive
  <2>7. LogoutIsFinalUnlessRaced'
    BY <1>t, <1>s, <2>0, <2>1, <2>2, <2>3, <2>4 DEF LogoutIsFinalUnlessRaced
  <2>8. Meetings' /\ Checked'
    BY <1>6, <2>1, <2>2 DEF tok
  <2> QED
    BY <2>5, <2>6, <2>7, <2>8 DEF Sessions
<1>8. ASSUME NEW r \in Requests, Retires(r) PROVE Sessions'
  <2> DEFINE tok == call[r].token
  <2>1. /\ pc[r] = "write" /\ Spends(r) /\ tok \in Issued
        /\ blocked' = blocked \cup {tok} /\ ended' = ended \cup {SessionOf(r)}
        /\ pc' = [pc EXCEPT ![r] = "reply"]
        /\ UNCHANGED <<call, token, raced>>
    BY <1>8, <1>t DEF Retires, SessionOf, jars
  <2>2. SessionOf(r) \notin raced => tok \notin blocked
    BY <1>s, <2>1 DEF Checked
  <2>3. Issued' = Issued /\ token[tok].session = SessionOf(r)
    BY <2>1 DEF Issued, SessionOf
  <2>4. Meetings' /\ Checked'
    BY <1>6, <2>1
  <2> HIDE DEF tok
  <2>5. Successors' /\ OneLiveTokenUnlessRaced'
    BY <1>s, <2>1, <2>3 DEF Successors, OneLiveTokenUnlessRaced, OneLive
  <2>6. LogoutIsFinalUnlessRaced'
    BY <1>s, <2>1, <2>2, <2>3 DEF LogoutIsFinalUnlessRaced, OneLiveTokenUnlessRaced, OneLive
  <2> QED
    BY <2>4, <2>5, <2>6 DEF Sessions
<1> QED
  BY <1>1, <1>2, <1>3, <1>4, <1>5, <1>7, <1>8, Kinds DEF Next

-----------------------------------------------------------------------------
(* How often a token is exchanged: its successors, and the requests that   *)
(* have checked it, are never more than the requests there are.            *)

Exchanged(t) == {s \in Issued : token[s].from = t}

Pending(t) ==
  {r \in Requests : pc[r] = "write" /\ call[r].op = "refresh_token" /\ call[r].token = t}

Fit(S, P) == IsFiniteSet(S) /\ Cardinality(S) + Cardinality(P) <= Cardinality(Requests)

Counted(t) == Fit(Exchanged(t), Pending(t))

LEMMA NobodyFits ==
  ASSUME NEW P \in SUBSET Requests
  PROVE  Fit({}, P)
BY RequestsAssumption, FS_Subset, FS_CardinalityType, FS_EmptySet DEF Fit

LEMMA FewerFit ==
  ASSUME NEW S, NEW P \in SUBSET Requests, NEW Q \in SUBSET P, Fit(S, P)
  PROVE  Fit(S, Q)
<1>1. IsFiniteSet(Requests) /\ IsFiniteSet(P) /\ IsFiniteSet(Q) /\ IsFiniteSet(S)
  BY RequestsAssumption, FS_Subset DEF Fit
<1>2. Cardinality(Q) <= Cardinality(P)
  BY <1>1, FS_Subset
<1>3. /\ Cardinality(Q) \in Nat /\ Cardinality(P) \in Nat /\ Cardinality(S) \in Nat
      /\ Cardinality(Requests) \in Nat
  BY <1>1, FS_CardinalityType
<1> QED
  BY <1>1, <1>2, <1>3 DEF Fit

\* One that was about to has.
LEMMA OneMoreFits ==
  ASSUME NEW S, NEW s, NEW P \in SUBSET Requests, NEW r \in P, Fit(S, P)
  PROVE  Fit(S \cup {s}, P \ {r})
<1>1. IsFiniteSet(Requests) /\ IsFiniteSet(P) /\ IsFiniteSet(S)
  BY RequestsAssumption, FS_Subset DEF Fit
<1>2. /\ IsFiniteSet(S \cup {s})
      /\ Cardinality(S \cup {s}) = Cardinality(S) \/ Cardinality(S \cup {s}) = Cardinality(S) + 1
  BY <1>1, FS_AddElement
<1>3. Cardinality(P \ {r}) = Cardinality(P) - 1
  BY <1>1, FS_RemoveElement
<1>4. Cardinality(P) \in Nat /\ Cardinality(S) \in Nat /\ Cardinality(Requests) \in Nat
  BY <1>1, FS_CardinalityType
<1> QED
  BY <1>2, <1>3, <1>4 DEF Fit

LEMMA CountedInit == Init => \A t \in Issued : Counted(t)
BY DEF Init, Issued

LEMMA CountedStep ==
  ASSUME Types, Sessions, \A t \in Issued : Counted(t), [Next]_vars
  PROVE  \A t \in Issued' : Counted(t)'
<1>t. /\ Coroutines
      /\ blocked \subseteq Issued /\ Issued \subseteq Tokens /\ Nil \notin Issued
      /\ \A s \in Issued : token[s].from # Nil => token[s].from \in blocked
      /\ \A r \in Requests : Spends(r) => call[r].token \in Issued
  BY NilAssumption DEF Types, Tables, Issued, Phase, Spends, Sessions, Successors
\* A token is only exchanged when it is blocked.
<1>u. \A t \in Tokens \ blocked : Exchanged(t) = {}
  BY <1>t, NilAssumption DEF Exchanged
<1>p. \A t : Pending(t) \in SUBSET Requests /\ Pending(t)' \in SUBSET Requests
  BY DEF Pending
\* Nobody passes the check of a token that is blocked.
<1>0. ASSUME NEW t \in Issued', Exchanged(t)' = Exchanged(t),
             t \in blocked => t \in Issued /\ Pending(t)' \subseteq Pending(t)
      PROVE  Counted(t)'
  <2>1. CASE t \in blocked
    BY <1>0, <1>p, <2>1, FewerFit DEF Counted
  <2>2. CASE t \notin blocked
    <3>1. Exchanged(t)' = {}
      BY <1>0, <1>u, <2>2 DEF Issued
    <3> QED
      BY <1>p, <3>1, NobodyFits DEF Counted
  <2> QED
    BY <2>1, <2>2
<1>1. ASSUME UNCHANGED token, \A t \in blocked : Pending(t)' \subseteq Pending(t)
      PROVE  \A t \in Issued' : Counted(t)'
  <2> SUFFICES ASSUME NEW t \in Issued' PROVE Counted(t)'
    OBVIOUS
  <2>1. t \in Issued /\ Exchanged(t)' = Exchanged(t)
    BY <1>1 DEF Issued, Exchanged
  <2> QED
    BY <1>0, <1>1, <2>1
<1>2. ASSUME UNCHANGED vars PROVE \A t \in Issued' : Counted(t)'
  BY <1>1, <1>2 DEF vars, sessions, locals, Pending
<1>3. ASSUME NEW r \in Requests, NEW c \in Calls, Begin(r, c)
      PROVE  \A t \in Issued' : Counted(t)'
  BY <1>1, <1>3, <1>t DEF Begin, sessions, Coroutines, Pending
<1>4. ASSUME NEW r \in Requests, Continues(r) PROVE \A t \in Issued' : Counted(t)'
  BY <1>1, <1>4, <1>t DEF Continues, Running, sessions, Coroutines, Pending
<1>5. ASSUME NEW r \in Requests, Stops(r) \/ Deliver(r) \/ LoseReply(r)
      PROVE  \A t \in Issued' : Counted(t)'
  <2>1. Finish(r) /\ UNCHANGED token
    BY <1>5 DEF Stops, Deliver, LoseReply, sessions
  <2>2. \A t \in blocked : Pending(t)' \subseteq Pending(t)
    BY <1>t, <2>1 DEF Finish, Coroutines, Pending
  <2> QED
    BY <1>1, <2>1, <2>2
<1>6. ASSUME NEW r \in Requests, Retires(r) PROVE \A t \in Issued' : Counted(t)'
  BY <1>1, <1>6, <1>t DEF Retires, Coroutines, Pending
<1>7. ASSUME NEW r \in Requests, SignsIn(r) PROVE \A t \in Issued' : Counted(t)'
  <2> SUFFICES ASSUME NEW t \in Issued' PROVE Counted(t)'
    OBVIOUS
  <2>1. PICK s \in Tokens :
           /\ s \notin Issued /\ Issued' = Issued \cup {s}
           /\ \A u \in Issued : token'[u] = token[u]
           /\ token'[s].from = Nil
           /\ pc' = [pc EXCEPT ![r] = "reply"] /\ UNCHANGED call
    BY <1>7, MintIssues DEF SignsIn
  <2>2. t # Nil
    BY NilAssumption DEF Issued
  <2>3. Exchanged(t)' = Exchanged(t)
    BY <2>1, <2>2 DEF Exchanged
  <2>4. Pending(t)' \subseteq Pending(t)
    BY <1>t, <2>1 DEF Coroutines, Pending
  <2> QED
    BY <1>0, <1>t, <2>3, <2>4
<1>8. ASSUME NEW r \in Requests, Exchanges(r) PROVE \A t \in Issued' : Counted(t)'
  <2> SUFFICES ASSUME NEW t \in Issued' PROVE Counted(t)'
    OBVIOUS
  <2> DEFINE tok == call[r].token
  <2>0. /\ Types /\ tok \in Issued /\ token[tok].owner \in Emails /\ Mint(r, token[tok].owner, tok)
        /\ pc[r] = "write" /\ call[r].op = "refresh_token"
    BY <1>8 DEF Exchanges
  <2>1. PICK s \in Tokens :
           /\ s \notin Issued /\ Issued' = Issued \cup {s}
           /\ \A u \in Issued : token'[u] = token[u]
           /\ token'[s].from = tok
           /\ pc' = [pc EXCEPT ![r] = "reply"] /\ UNCHANGED call
    BY <2>0, MintIssues
  <2>2. CASE t # tok
    <3>1. Exchanged(t)' = Exchanged(t)
      BY <2>1, <2>2 DEF Exchanged
    <3>2. Pending(t)' \subseteq Pending(t)
      BY <1>t, <2>1 DEF Coroutines, Pending
    <3> QED
      BY <1>0, <1>t, <3>1, <3>2
  <2>3. CASE t = tok
    <3>1. Exchanged(t)' = Exchanged(t) \cup {s}
      BY <2>1, <2>3 DEF Exchanged
    <3>2. Pending(t)' = Pending(t) \ {r} /\ r \in Pending(t)
      BY <1>t, <2>0, <2>1, <2>3 DEF Coroutines, Pending
    <3>3. Fit(Exchanged(t), Pending(t))
      BY <2>0, <2>3 DEF Counted
    <3>4. Fit(Exchanged(t) \cup {s}, Pending(t) \ {r})
      BY <1>p, <3>2, <3>3, OneMoreFits
    <3> QED
      BY <3>1, <3>2, <3>4 DEF Counted
  <2> QED
    BY <2>2, <2>3
<1> QED
  BY <1>2, <1>3, <1>4, <1>5, <1>6, <1>7, <1>8, Kinds DEF Next

\* What the counts say of the successors of a token.
LEMMA CountedBounds ==
  ASSUME Types, Sessions, \A t \in Issued : Counted(t)
  PROVE  ExchangesBounded
<1> SUFFICES ASSUME NEW t \in Issued
             PROVE  Cardinality(Exchanged(t))
                      <= IF token[t].session \in raced THEN Cardinality(Requests) ELSE 1
  BY DEF ExchangesBounded, Exchanged
<1>1. IsFiniteSet(Pending(t))
  BY RequestsAssumption, FS_Subset DEF Pending
<1>2. /\ Cardinality(Exchanged(t)) \in Nat /\ Cardinality(Pending(t)) \in Nat
      /\ Cardinality(Requests) \in Nat
  BY <1>1, RequestsAssumption, FS_CardinalityType DEF Counted, Fit
<1>3. CASE token[t].session \in raced
  BY <1>2, <1>3 DEF Counted, Fit
<1>4. CASE token[t].session \notin raced /\ Exchanged(t) = {}
  BY <1>4, FS_EmptySet
<1>5. ASSUME token[t].session \notin raced, NEW s \in Exchanged(t)
      PROVE  Cardinality(Exchanged(t)) <= 1
  <2>1. t # Nil
    BY NilAssumption DEF Issued
  <2>2. Exchanged(t) = {s}
    BY <1>5, <2>1 DEF Sessions, Successors, Exchanged
  <2> QED
    BY <2>2, FS_Singleton
<1> QED
  BY <1>3, <1>4, <1>5

-----------------------------------------------------------------------------
(* Passwords.                                                              *)

SetsPassword(r) == pc[r] # "idle" /\ call[r].op \in PasswordOps

\* Requests that set the password of one user at once have raced.
Rivals ==
  \A r, q \in Requests :
    r # q /\ SetsPassword(r) /\ SetsPassword(q) /\ call[r].email = call[q].email
      => call[r].email \in raced

Unclaimed(e) == \A i \in Identities : identity[i] # Nil => identity[i].email # e

\* A request that has found the user, and no identity, still does, unless raced.
Attaching(r) ==
  call[r].op = "register_user" =>
    /\ pc[r] \in {"identity", "attach"} => call[r].email \in user
    /\ pc[r] = "attach" /\ call[r].email \notin raced => Unclaimed(call[r].email)

OnePassword ==
  \A i, j \in Identities :
    identity[i] # Nil /\ identity[j] # Nil /\ identity[i].email = identity[j].email
      /\ identity[i].email \notin raced => i = j

Newest ==
  \A i \in Identities :
    identity[i] # Nil /\ identity[i].email \notin raced
      => identity[i].hash = latest[identity[i].email]

Registered == \A i \in Identities : identity[i] # Nil => identity[i].email \in user

SignInWay == \A e \in user : e \in google \/ ~Unclaimed(e)

Credible ==
  /\ Rivals /\ (\A r \in Requests : Attaching(r)) /\ OnePassword /\ Newest
  /\ Registered /\ SignInWay

Advances(r) ==
  /\ pc[r] # "idle"
  /\ UNCHANGED raced
  /\ \/ Finish(r)
     \/ \E label \in Labels :
          /\ pc' = [pc EXCEPT ![r] = label] /\ UNCHANGED call
          /\ call[r].op = "register_user" =>
               /\ label \in {"identity", "attach"} => call[r].email \in user
               /\ label = "attach" => Unclaimed(call[r].email)

LEMMA PasswordsInit == Init => Credible
BY DEF Init, Credible, Rivals, SetsPassword, Attaching, OnePassword, Newest, Registered, SignInWay

LEMMA PasswordsStep == Types /\ Credible /\ [Next]_vars => Credible'
<1> SUFFICES ASSUME Types, Credible, [Next]_vars PROVE Credible'
  OBVIOUS
<1>t. /\ Coroutines
      /\ identity \in [Identities -> IdentityRows \cup {Nil}]
      /\ latest \in [Emails -> Passwords \cup {Nil}]
      /\ \A i \in Identities : identity[i] # Nil => identity[i].email \in Emails
      /\ \A r \in Requests : pc[r] # "idle" => call[r] \in Calls
  BY DEF Types, Tables, IdentityRows, Coroutines, Phase
<1>s. /\ Rivals /\ (\A r \in Requests : Attaching(r)) /\ OnePassword /\ Newest
      /\ Registered /\ SignInWay
  BY DEF Credible
\* Steps that leave users and identities alone.
<1>0. ASSUME UNCHANGED people, raced \subseteq raced', Rivals',
             \A r \in Requests : Attaching(r)'
      PROVE  Credible'
  BY <1>0, <1>s DEF people, Credible, OnePassword, Newest, Registered, SignInWay, Unclaimed
<1>1. ASSUME UNCHANGED vars PROVE Credible'
  BY <1>0, <1>1, <1>s
  DEF vars, people, jars, locals, Rivals, SetsPassword, Attaching, Unclaimed
<1>2. ASSUME NEW r \in Requests, NEW c \in Calls, Begin(r, c) PROVE Credible'
  <2>1. /\ pc[r] = "idle" /\ pc' = [pc EXCEPT ![r] = "lookup"] /\ call' = [call EXCEPT ![r] = c]
        /\ UNCHANGED people /\ raced \subseteq raced'
        /\ \A q \in Requests : pc[q] # "idle" => About(c) \cap About(call[q]) \subseteq raced'
    BY <1>2 DEF Begin
  <2>2. ASSUME NEW q \in Requests, SetsPassword(q), c.op \in PasswordOps, call[q].email = c.email
        PROVE  c.email \in raced'
    <3>1. call[q] \in Calls /\ pc[q] # "idle"
      BY <1>t, <2>2 DEF SetsPassword
    <3>2. c.email \in About(c) /\ c.email \in About(call[q])
      BY <2>2, <3>1, AboutFacts DEF SetsPassword
    <3> QED
      BY <2>1, <3>1, <3>2
  <2>3. Rivals'
    BY <1>t, <1>s, <2>1, <2>2 DEF Coroutines, Rivals, SetsPassword
  <2>4. \A q \in Requests : Attaching(q)'
    BY <1>t, <1>s, <2>1 DEF people, Coroutines, Attaching, Unclaimed
  <2> QED
    BY <1>0, <2>1, <2>3, <2>4
\* The requests, while r goes on or ends.
<1>3. ASSUME NEW r \in Requests, Advances(r) PROVE Rivals'
  BY <1>3, <1>t, <1>s DEF Advances, Finish, Coroutines, Rivals, SetsPassword
<1>4. ASSUME NEW r \in Requests, Advances(r), UNCHANGED identity, user \subseteq user'
      PROVE  \A q \in Requests : Attaching(q)'
  BY <1>4, <1>t, <1>s DEF Advances, Finish, Coroutines, Attaching, Unclaimed
<1>5. ASSUME NEW r \in Requests, Advances(r), UNCHANGED people PROVE Credible'
  BY <1>0, <1>3, <1>4, <1>5 DEF Advances, people
<1>6. ASSUME NEW r \in Requests, RequestFails(r) \/ Deliver(r) \/ LoseReply(r) PROVE Credible'
  <2>1. pc[r] # "idle" /\ Finish(r) /\ UNCHANGED <<people, raced>>
    BY <1>6 DEF RequestFails, Deliver, LoseReply, jars
  <2> QED
    BY <1>5, <2>1 DEF Advances
<1>7. ASSUME NEW r \in Requests, RegisterLookup(r) \/ GoogleLookup(r) PROVE Credible'
  <2>1. /\ pc[r] # "idle" /\ UNCHANGED <<people, raced>>
        /\ pc' = [pc EXCEPT ![r] = IF call[r].email \in user THEN "identity" ELSE "create"]
        /\ UNCHANGED call
    BY <1>7 DEF RegisterLookup, GoogleLookup, At, Goto, jars
  <2> QED
    BY <1>5, <2>1 DEF Advances, Labels
<1>8. ASSUME NEW r \in Requests, RegisterIdentity(r) PROVE Credible'
  <2>1. pc[r] # "idle" /\ UNCHANGED <<people, raced>>
    BY <1>8 DEF RegisterIdentity, At, jars
  <2>2. CASE IdentitiesOf(call[r].email) = {}
    <3>1. pc' = [pc EXCEPT ![r] = "attach"] /\ UNCHANGED call
      BY <1>8, <2>2 DEF RegisterIdentity, Goto
    <3>2. Unclaimed(call[r].email)
      BY <2>2 DEF IdentitiesOf, Unclaimed
    <3>3. call[r].op = "register_user" /\ call[r].email \in user
      BY <1>8, <1>s DEF RegisterIdentity, At, Attaching
    <3> QED
      BY <1>5, <2>1, <3>1, <3>2, <3>3 DEF Advances, Labels
  <2>3. CASE IdentitiesOf(call[r].email) # {}
    BY <1>5, <1>8, <2>1, <2>3 DEF RegisterIdentity, Advances
  <2> QED
    BY <2>2, <2>3
<1>9. ASSUME NEW r \in Requests,
              \/ IdentityLookup(r) \/ LoginVerify(r) \/ UpdateVerify(r) \/ TokenCheck(r)
              \/ RefreshWrite(r) \/ LogoutWrite(r)
       PROVE  Credible'
  <2>1. /\ pc[r] # "idle" /\ UNCHANGED <<people, raced>>
        /\ \/ Finish(r)
           \/ \E label \in {"verify", "check", "write", "reply"} :
                pc' = [pc EXCEPT ![r] = label] /\ UNCHANGED call
    BY <1>9
    DEF IdentityLookup, ReadIdentity, LoginVerify, UpdateVerify, TokenCheck, RefreshWrite,
        LogoutWrite, Mint, Goto, At, jars
  <2> QED
    BY <1>5, <2>1 DEF Advances, Labels
<1>10. ASSUME NEW r \in Requests, GoogleIdentity(r) PROVE Credible'
  <2>1. /\ pc[r] # "idle" /\ call[r].op = "auth_google" /\ UNCHANGED <<people, raced>>
        /\ \E label \in {"attach", "reply"} :
             pc' = [pc EXCEPT ![r] = label] /\ UNCHANGED call
    BY <1>10 DEF GoogleIdentity, Mint, Goto, At, jars
  <2> QED
    BY <1>5, <2>1 DEF Advances, Labels
<1>11. ASSUME NEW r \in Requests, GoogleCreate(r) \/ GoogleAttach(r) PROVE Credible'
  <2>1. /\ pc[r] # "idle" /\ UNCHANGED <<identity, latest, raced>> /\ call[r].op = "auth_google"
        /\ user' \subseteq user \cup google' /\ user \subseteq user' /\ google \subseteq google'
        /\ \E label \in {"identity", "reply"} :
             pc' = [pc EXCEPT ![r] = label] /\ UNCHANGED call
    BY <1>11 DEF GoogleCreate, GoogleAttach, Mint, Goto, At, jars
  <2>2. Advances(r)
    BY <2>1 DEF Advances, Labels
  <2>3. Rivals' /\ \A q \in Requests : Attaching(q)'
    BY <1>3, <1>4, <2>1, <2>2
  <2>4. OnePassword' /\ Newest' /\ Registered' /\ SignInWay'
    BY <1>s, <2>1 DEF OnePassword, Newest, Registered, SignInWay, Unclaimed
  <2> QED
    BY <2>3, <2>4 DEF Credible
<1>12. ASSUME NEW r \in Requests, RegisterAttach(r) \/ RegisterCreate(r) PROVE Credible'
  <2> DEFINE e == call[r].email
  <2>1. /\ pc[r] # "idle" /\ Finish(r) /\ UNCHANGED <<google, raced>> /\ SetsPassword(r)
        /\ user \subseteq user' /\ e \in user' /\ user' \subseteq user \cup {e}
        /\ AddPassword(e, call[r].password)
        /\ e \notin raced => Unclaimed(e)
    <3>1. CASE RegisterAttach(r)
      BY <1>s, <3>1 DEF RegisterAttach, At, Attaching, SetsPassword, PasswordOps, jars
    <3>2. CASE RegisterCreate(r)
      BY <1>s, <3>2
      DEF RegisterCreate, At, Registered, Unclaimed, SetsPassword, PasswordOps, jars
    <3> QED
      BY <1>12, <3>1, <3>2
  <2>2. e \in Emails /\ call[r].password \in Passwords
    <3>1. call[r].op = "register_user"
      BY <1>12 DEF RegisterAttach, RegisterCreate, At
    <3> QED
      BY <1>t, <2>1, <3>1, CallFacts DEF PasswordOps
  <2>3. PICK i \in Identities :
           /\ identity[i] = Nil
           /\ identity'[i] # Nil /\ identity'[i].email = e /\ identity'[i].hash = call[r].password
           /\ \A j \in Identities \ {i} : identity'[j] = identity[j]
           /\ latest' = [latest EXCEPT ![e] = call[r].password]
    BY <2>1, <2>2, AddPasswordStep
  <2> HIDE DEF e
  <2>4. OnePassword'
    BY <1>s, <2>1, <2>3 DEF OnePassword, Unclaimed
  <2>5. Newest'
    BY <1>t, <1>s, <2>1, <2>2, <2>3 DEF Newest, Unclaimed
  <2>6. Registered' /\ SignInWay'
    BY <1>s, <2>1, <2>3 DEF Registered, SignInWay, Unclaimed
  <2>7. Rivals'
    BY <1>3, <2>1 DEF Advances
  <2>8. ASSUME NEW q \in Requests PROVE Attaching(q)'
    <3>1. CASE q = r
      BY <1>t, <2>1, <3>1 DEF Finish, Coroutines, Attaching
    <3>2. CASE q # r
      <4>1. call'[q] = call[q] /\ pc'[q] = pc[q]
        BY <1>t, <2>1, <3>2 DEF Finish, Coroutines
      <4>2. ASSUME pc[q] = "attach", call[q].op = "register_user", call[q].email \notin raced
            PROVE  Unclaimed(call[q].email)'
        <5>1. call[q].email # e
          BY <1>s, <2>1, <3>2, <4>2 DEF Rivals, SetsPassword, PasswordOps, e
        <5>2. Unclaimed(call[q].email)
          BY <1>s, <4>2 DEF Attaching
        <5> QED
          BY <2>3, <4>1, <5>1, <5>2 DEF Unclaimed
      <4> QED
        BY <1>s, <2>1, <4>1, <4>2 DEF Attaching
    <3> QED
      BY <3>1, <3>2
  <2> QED
    BY <2>4, <2>5, <2>6, <2>7, <2>8 DEF Credible
<1>13. ASSUME NEW r \in Requests, UpdateWrite(r) PROVE Credible'
  <2> DEFINE e == call[r].email
             i == row[r].id
  <2>1. /\ pc[r] # "idle" /\ call[r].op = "update_password"
        /\ identity' = [identity EXCEPT ![i].hash = call[r].new]
        /\ latest' = [latest EXCEPT ![e] = call[r].new]
        /\ pc' = [pc EXCEPT ![r] = "reply"]
        /\ UNCHANGED <<call, user, google, raced>>
    BY <1>13 DEF UpdateWrite, At, Goto, jars
  <2>2. e \in Emails /\ call[r].new \in Passwords
    BY <1>t, <2>1, CallFacts DEF PasswordOps
  <2>3. i \in Identities /\ identity[i] # Nil /\ identity[i].email = e
    BY <1>13 DEF UpdateWrite, At, Types, Coroutines, Phase, ReadRows
  <2>4. identity[i] \in IdentityRows
    BY <1>t, <2>3
  <2>5. /\ identity'[i] = [identity[i] EXCEPT !.hash = call[r].new]
        /\ \A j \in Identities \ {i} : identity'[j] = identity[j]
    BY <1>t, <2>1, <2>3
  <2>6. /\ [identity[i] EXCEPT !.hash = call[r].new] \in IdentityRows
        /\ [identity[i] EXCEPT !.hash = call[r].new].email = e
        /\ [identity[i] EXCEPT !.hash = call[r].new].hash = call[r].new
    BY <2>2, <2>3, <2>4 DEF IdentityRows
  <2>7. identity'[i] # Nil /\ identity'[i].email = e /\ identity'[i].hash = call[r].new
    BY <2>5, <2>6, NilAssumption
  <2> HIDE DEF e, i
  <2>8. \A x \in Emails : Unclaimed(x)' <=> Unclaimed(x)
    BY <2>3, <2>5, <2>7 DEF Unclaimed
  <2>9. OnePassword' /\ Registered'
    BY <1>s, <2>1, <2>3, <2>5, <2>7 DEF OnePassword, Registered
  <2>10. Newest'
    BY <1>t, <1>s, <2>1, <2>2, <2>3, <2>5, <2>7 DEF Newest, OnePassword
  <2>11. SignInWay'
    BY <1>s, <2>1, <2>8 DEF SignInWay, Types, Tables
  <2>12. Rivals'
    BY <1>3, <2>1 DEF Advances, Labels
  <2>13. \A q \in Requests : Attaching(q)'
    <3> SUFFICES ASSUME NEW q \in Requests PROVE Attaching(q)'
      OBVIOUS
    <3>1. call'[q] = call[q] /\ (pc'[q] = pc[q] \/ pc'[q] = "reply")
      BY <1>t, <2>1 DEF Coroutines
    <3>2. pc[q] # "idle" /\ call[q].op = "register_user" => call[q].email \in Emails
      BY <1>t, CallFacts DEF PasswordOps
    <3> QED
      BY <1>s, <2>1, <2>8, <3>1, <3>2 DEF Attaching
  <2> QED
    BY <2>9, <2>10, <2>11, <2>12, <2>13 DEF Credible
<1> QED
  BY <1>1, <1>2, <1>6, <1>7, <1>8, <1>9, <1>10, <1>11, <1>12, <1>13 DEF Next, Handler

-----------------------------------------------------------------------------
Safe == Types /\ Cookies /\ Sessions /\ (\A t \in Issued : Counted(t)) /\ Credible

LEMMA AlwaysSafe == Spec => []Safe
<1>1. Init => Safe
  BY TypesInit, CookiesInit, SessionsInit, CountedInit, PasswordsInit DEF Safe
<1>2. Safe /\ [Next]_vars => Safe'
  BY TypesStep, CookiesStep, SessionsStep, CountedStep, PasswordsStep DEF Safe
<1> QED
  BY <1>1, <1>2, PTL DEF Spec

\* Tables, cookies and requests keep their types; cookies and blocklist name
\* tokens that were issued.
THEOREM TypeCorrect == Spec => []TypeOK
<1>1. Safe => TypeOK
  BY DEF Safe, Types, Tables, Coroutines, Phase, TypeOK, Issued
<1> QED
  BY <1>1, AlwaysSafe, PTL

\* refresh_token: a session that no two requests are about at once has one
\* live refresh token, whichever exchanges fail or go unanswered.
THEOREM OneTokenAtATime == Spec => []OneLiveTokenUnlessRaced
<1>1. Safe => OneLiveTokenUnlessRaced
  BY DEF Safe, Sessions
<1> QED
  BY <1>1, AlwaysSafe, PTL

\* logout and update_password: no token of the session works any more, unless
\* it was raced.
THEOREM LogoutIsFinal == Spec => []LogoutIsFinalUnlessRaced
<1>1. Safe => LogoutIsFinalUnlessRaced
  BY DEF Safe, Sessions
<1> QED
  BY <1>1, AlwaysSafe, PTL

\* get_valid_refresh_payload and refresh_token: a token has one successor, and
\* in a race no more than there are requests.
THEOREM FewSuccessors == Spec => []ExchangesBounded
<1>1. Safe => ExchangesBounded
  BY CountedBounds DEF Safe
<1> QED
  BY <1>1, AlwaysSafe, PTL

\* The cookie of a browser that every response has reached is not blocklisted,
\* except while the response that replaces it is under way.
THEOREM NoDeadCookie == Spec => []CookieIsLive
<1>1. Safe => CookieIsLive
  BY DEF Safe, Cookies
<1> QED
  BY <1>1, AlwaysSafe, PTL

\* register_user and auth_google leave no user without an identity.
THEOREM NobodyLockedOut == Spec => []EveryUserCanSignIn
<1>1. Safe => EveryUserCanSignIn
  BY DEF Safe, Credible, SignInWay, Unclaimed, EveryUserCanSignIn, IdentitiesOf
<1> QED
  BY <1>1, AlwaysSafe, PTL

\* login compares with the password that update_password or register_user set
\* last, unless two of them set it at once.
THEOREM LastPasswordWins == Spec => []LatestPasswordCounts
<1>1. Safe => LatestPasswordCounts
  BY DEF Safe, Credible, Newest, LatestPasswordCounts, IdentitiesOf
<1> QED
  BY <1>1, AlwaysSafe, PTL

-----------------------------------------------------------------------------
(* Without overlaps.  raced is history; what follows is about the requests. *)

\* No two requests are about x, a session or a user, at once.
OneAbout(x) ==
  \A r, q \in Requests :
    pc[r] # "idle" /\ pc[q] # "idle" /\ x \in About(call[r]) \cap About(call[q]) => r = q

\* The requests are compared as they come in.
LEMMA RacedStep ==
  ASSUME Types, NEW x, x \notin raced, OneAbout(x)', [Next]_vars
  PROVE  x \notin raced'
<1>1. CASE UNCHANGED raced
  BY <1>1
<1>2. ASSUME NEW r \in Requests, NEW c \in Calls, Begin(r, c) PROVE x \notin raced'
  <2> SUFFICES ASSUME x \in raced' PROVE FALSE
    OBVIOUS
  <2>1. /\ pc[r] = "idle" /\ pc' = [pc EXCEPT ![r] = "lookup"]
        /\ call' = [call EXCEPT ![r] = c] /\ token' = token
        /\ raced' = raced \cup
             UNION {About(c) \cap About(call[s]) : s \in {s \in Requests : pc[s] # "idle"}}
    BY <1>2 DEF Begin, sessions
  <2>2. PICK q \in Requests : pc[q] # "idle" /\ x \in About(c) \cap About(call[q])
    BY <2>1
  <2>3. /\ q # r /\ pc'[q] # "idle" /\ call'[q] = call[q]
        /\ pc'[r] # "idle" /\ call'[r] = c
    BY <2>1, <2>2 DEF Types, Coroutines
  <2>4. About(call[r])' = About(c) /\ About(call[q])' = About(call[q])
    BY <2>1, <2>3 DEF About
  <2>5. x \in About(call[r])' \cap About(call[q])'
    BY <2>2, <2>4
  <2> QED
    BY <2>3, <2>5 DEF OneAbout
<1>3. ASSUME NEW r \in Requests, Handler(r) PROVE UNCHANGED raced
  BY <1>3
  DEF Handler, jars, RegisterLookup, RegisterIdentity, RegisterAttach, RegisterCreate,
      GoogleLookup, GoogleCreate, GoogleIdentity, GoogleAttach, IdentityLookup, LoginVerify,
      UpdateVerify, TokenCheck, RefreshWrite, LogoutWrite, UpdateWrite, RequestFails, Deliver,
      LoseReply
<1> QED
  BY <1>1, <1>2, <1>3 DEF Next, vars, jars

Unraced(x) == x \notin raced

\* raced says what it is for: what no two requests have been about at once is
\* not in it, whatever else was raced.
LEMMA UnracedStep ==
  ASSUME NEW x
  PROVE  /\ Init => Unraced(x)
         /\ Safe /\ Unraced(x) /\ OneAbout(x)' /\ [Next]_vars => Unraced(x)'
<1>1. Init => Unraced(x)
  BY DEF Init, Unraced
<1>2. Safe /\ Unraced(x) /\ OneAbout(x)' /\ [Next]_vars => Unraced(x)'
  BY RacedStep DEF Safe, Unraced
<1> QED
  BY <1>1, <1>2

\* A set whose elements are all the same.
LEMMA AtMostOne ==
  ASSUME NEW S, \A x, y \in S : x = y
  PROVE  Cardinality(S) <= 1
<1>1. CASE S = {}
  BY <1>1, FS_EmptySet
<1>2. ASSUME NEW x \in S PROVE Cardinality(S) <= 1
  <2>1. S = {x}
    BY <1>2
  <2>2. Cardinality(S) = 1
    BY <2>1, FS_Singleton
  <2> QED
    BY <2>2
<1> QED
  BY <1>1, <1>2

\* The session s has one token that works, and none once it has ended.
SessionSound(s) ==
  /\ \A t1, t2 \in Issued \ blocked :
       token[t1].session = s /\ token[t2].session = s => t1 = t2
  /\ s \in ended => \A t \in Issued : token[t].session = s => t \in blocked

\* refresh_token, logout and update_password, for a session whose tokens no
\* two requests spend at once: one token at a time works, and none after a
\* logout or a password change.  Other sessions, of the same user and the same
\* browser too, may be raced.
THEOREM ASessionOfItsOwn ==
  ASSUME NEW s \in Tokens
  PROVE  Spec /\ []OneAbout(s) => []SessionSound(s)
<1>1. Safe /\ Unraced(s) => SessionSound(s)
  BY DEF Unraced, Safe, Sessions, OneLiveTokenUnlessRaced, OneLive, LogoutIsFinalUnlessRaced, SessionSound
<1>2. /\ Init => Unraced(s)
      /\ Safe /\ Unraced(s) /\ OneAbout(s)' /\ [Next]_vars => Unraced(s)'
  BY UnracedStep
<1> QED
  BY <1>1, <1>2, AlwaysSafe, PTL DEF Spec

\* The user e has one password, the one that was set last.
PasswordSound(e) ==
  /\ Cardinality(IdentitiesOf(e)) <= 1
  /\ \A i \in IdentitiesOf(e) : identity[i].hash = latest[e]

\* register_user and update_password, for a user whose password no two
\* requests set at once; auth_google may create the user and its identity
\* meanwhile.
THEOREM AUserOfItsOwn ==
  ASSUME NEW e \in Emails
  PROVE  Spec /\ []OneAbout(e) => []PasswordSound(e)
<1>1. Safe /\ Unraced(e) => PasswordSound(e)
  <2> SUFFICES ASSUME Safe, e \notin raced PROVE PasswordSound(e)
    BY DEF Unraced
  <2>1. \A i, j \in IdentitiesOf(e) : i = j
    BY DEF Safe, Credible, OnePassword, IdentitiesOf
  <2>2. Cardinality(IdentitiesOf(e)) <= 1
    BY <2>1, AtMostOne
  <2>3. \A i \in IdentitiesOf(e) : identity[i].hash = latest[e]
    BY DEF Safe, Credible, Newest, IdentitiesOf
  <2> QED
    BY <2>2, <2>3 DEF PasswordSound
<1>2. /\ Init => Unraced(e)
      /\ Safe /\ Unraced(e) /\ OneAbout(e)' /\ [Next]_vars => Unraced(e)'
  BY UnracedStep
<1> QED
  BY <1>1, <1>2, AlwaysSafe, PTL DEF Spec

\* LogoutEndsSession, which accounts_logout refutes, and OneLiveToken hold of
\* every behaviour in which no two requests spend tokens of one session at once.
THEOREM LogoutEnds ==
  Spec /\ [](\A s \in Tokens : OneAbout(s)) => [](LogoutEndsSession /\ OneLiveToken)
<1> DEFINE NoneRaced == \A s \in Tokens : s \notin raced
           NoneMeet == \A s \in Tokens : OneAbout(s)
<1>1. Init => NoneRaced
  BY DEF Init
<1>2. Safe /\ NoneRaced /\ NoneMeet' /\ [Next]_vars => NoneRaced'
  BY RacedStep DEF Safe
<1>3. Safe /\ NoneRaced => LogoutEndsSession /\ OneLiveToken
  <2> SUFFICES ASSUME Safe, NoneRaced PROVE LogoutEndsSession /\ OneLiveToken
    OBVIOUS
  <2>1. \A t \in Issued : token[t].session \in Tokens
    BY DEF Safe, Types, Tables, Issued
  <2> QED
    BY <2>1
    DEF Safe, Sessions, OneLiveTokenUnlessRaced, LogoutIsFinalUnlessRaced, LogoutEndsSession,
        OneLiveToken
<1> HIDE DEF NoneRaced
<1>4. Spec /\ []NoneMeet => []NoneRaced
  <2> HIDE DEF NoneMeet
  <2> QED
    BY <1>1, <1>2, AlwaysSafe, PTL DEF Spec
<1> QED
  BY <1>3, <1>4, AlwaysSafe, PTL
=============================================================================
