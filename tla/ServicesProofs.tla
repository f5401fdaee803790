---------------------------- MODULE ServicesProofs ----------------------------
(***************************************************************************)
(* What is proved of the parts of Services, for every value of their       *)
(* constants: of an account, its sessions and its reset links; of the      *)
(* throttle, its lock and its backoff; of a call of the AI layer; of the   *)
(* pages that follow events; and of the standings, on every set of rows.   *)
(*                                                                         *)
(* Each part has an inductive invariant of its own; the last section moves *)
(* the results from the parts to AllSpec, which is what the run checks.    *)
(***************************************************************************)
EXTENDS Services, FiniteSetTheorems, TLAPS

-----------------------------------------------------------------------------
(* Accounts *)

\* A request that is about to sign tokens does it for a password its browser has
\* presented.
SignsPresented ==
  \A r \in Requests :
    req[r].pc \in {"insert preferences", "opt in", "issue"} => req[r].user \in presented[r]

\* Nobody asks for a link, or uses one, before there is a user.
LinksHaveUser ==
  /\ \A t \in ResetTokens : token[t] = "valid" => Exists
  /\ \A r \in Requests : req[r].pc = "save password" => Exists

\* The inductive invariant.
AccountInv ==
  /\ TypeOK /\ SignsPresented /\ LinksHaveUser
  /\ SessionsProvePassword /\ LinksEndWithPassword /\ PreferencesExist

-----------------------------------------------------------------------------
(* The local variables of a request *)

\* The values a request starts from.
LEMMA StateTypes ==
  0 \in Claims /\ 1 \in Passwords /\ Quiet \in RequestState
<1>1. 0 \in Claims /\ 0 \in 0 .. MaxName /\ 1 \in Passwords
  BY Bounds DEF Claims, Passwords
<1>2. QED
  BY <1>1 DEF Quiet, RequestState, PCs, NoPassword

\* What the steps of a request do to its record.
LEMMA RecordSteps ==
  ASSUME TypeOK, NEW r \in Requests,
         NEW p \in PCs
  PROVE  /\ Go(r, p) => /\ req' \in [Requests -> RequestState]
                        /\ req'[r].pc = p /\ req'[r].user = req[r].user
                        /\ \A s \in Requests : s # r => req'[s] = req[s]
         /\ ReadUser(r, p) => /\ req' \in [Requests -> RequestState]
                              /\ req'[r].pc = p /\ req'[r].user = password
                              /\ \A s \in Requests : s # r => req'[s] = req[s]
         /\ End(r) => /\ req' \in [Requests -> RequestState]
                      /\ req'[r].pc = "idle"
                      /\ \A s \in Requests : s # r => req'[s] = req[s]
<1>1. /\ req \in [Requests -> RequestState] /\ Quiet \in RequestState /\ password \in Claims
  BY StateTypes DEF TypeOK
<1>2. [req[r] EXCEPT !.pc = p] \in RequestState
      /\ [Quiet EXCEPT !.pc = p, !.user = password] \in RequestState
  BY <1>1 DEF RequestState
<1>3. ASSUME Go(r, p)
      PROVE  /\ req' \in [Requests -> RequestState]
             /\ req'[r].pc = p /\ req'[r].user = req[r].user
             /\ \A s \in Requests : s # r => req'[s] = req[s]
  <2>1. req' = [req EXCEPT ![r] = [req[r] EXCEPT !.pc = p]]
    BY <1>3 DEF Go
  <2>2. QED
    BY <1>1, <1>2, <2>1 DEF RequestState
<1>4. ASSUME ReadUser(r, p)
      PROVE  /\ req' \in [Requests -> RequestState]
             /\ req'[r].pc = p /\ req'[r].user = password
             /\ \A s \in Requests : s # r => req'[s] = req[s]
  <2>1. req' = [req EXCEPT ![r] = [Quiet EXCEPT !.pc = p, !.user = password]]
    BY <1>4 DEF ReadUser
  <2>2. QED
    BY <1>1, <1>2, <2>1 DEF RequestState
<1>5. ASSUME End(r)
      PROVE  /\ req' \in [Requests -> RequestState]
             /\ req'[r].pc = "idle"
             /\ \A s \in Requests : s # r => req'[s] = req[s]
  BY <1>1, <1>5 DEF End, Quiet
<1>6. QED
  BY <1>3, <1>4, <1>5

-----------------------------------------------------------------------------
(* Types, and what a request has read *)

\* Setting a password or a name keeps it within its bound.
LEMMA NextValues ==
  ASSUME password \in Claims, name \in 0 .. MaxName
  PROVE  /\ Exists => password \in Passwords
         /\ password < MaxPassword => password + 1 \in Claims
         /\ name < MaxName => name + 1 \in 0 .. MaxName
BY Bounds DEF Claims, Passwords, Exists, NoPassword

\* A step of r puts another record in its place; a request that goes on to use
\* the user, or a link, has read one.
LEMMA RequestStep ==
  ASSUME AccountInv, NEW r \in Requests, Step(r)
  PROVE  \E new \in RequestState :
           /\ req' = [req EXCEPT ![r] = new]
           /\ new.pc \in {"issue", "save password", "save name", "save preferences"} =>
                new.user \in Passwords
           /\ new.pc = "read token" => new.token \in ResetTokens
<1> DEFINE Fine(new) ==
      /\ new \in RequestState
      /\ new.pc \in {"issue", "save password", "save name", "save preferences"} =>
           new.user \in Passwords
      /\ new.pc = "read token" => new.token \in ResetTokens
<1> SUFFICES \E new : Fine(new) /\ req' = [req EXCEPT ![r] = new]
  OBVIOUS
<1>1. /\ 0 \in Claims /\ 1 \in Passwords /\ 1 \in Claims /\ Quiet \in RequestState
      /\ req[r] \in RequestState /\ password \in Claims /\ name \in 0 .. MaxName
      /\ Exists => password \in Passwords
  <2>1. 0 \in Claims /\ 1 \in Passwords /\ Quiet \in RequestState
    BY StateTypes
  <2>2. 1 \in Claims
    BY <2>1 DEF Passwords, Claims
  <2>3. req[r] \in RequestState /\ password \in Claims /\ name \in 0 .. MaxName
    BY DEF AccountInv, TypeOK
  <2>4. Exists => password \in Passwords
    BY <2>3, NextValues
  <2>5. QED
    BY <2>1, <2>2, <2>3, <2>4
<1>2. Fine(Quiet) /\ Fine(req[r])
  BY <1>1 DEF Quiet, AccountInv, TypeOK
<1>3. End(r) => req' = [req EXCEPT ![r] = Quiet]
  BY DEF End
<1>4. ASSUME NEW pc \in PCs, Go(r, pc),
             pc \in {"issue", "save password", "save name", "save preferences"} =>
               req[r].user \in Passwords,
             pc # "read token"
      PROVE  \E new : Fine(new) /\ req' = [req EXCEPT ![r] = new]
  <2>1. Fine([req[r] EXCEPT !.pc = pc])
    BY <1>1, <1>4 DEF RequestState
  <2>2. req' = [req EXCEPT ![r] = [req[r] EXCEPT !.pc = pc]]
    BY <1>4 DEF Go, AccountInv, TypeOK
  <2>3. QED
    BY <2>1, <2>2
<1>5. ASSUME NEW pc \in PCs, ReadUser(r, pc), Exists, pc # "read token"
      PROVE  \E new : Fine(new) /\ req' = [req EXCEPT ![r] = new]
  <2>1. Fine([Quiet EXCEPT !.pc = pc, !.user = password])
    BY <1>1, <1>5 DEF RequestState
  <2>2. QED
    BY <1>5, <2>1 DEF ReadUser
<1>6. CASE SignUp(r)
  <2>1. PICK auto \in BOOLEAN :
          req' = [req EXCEPT ![r] = [Quiet EXCEPT !.pc = "insert user", !.auto = auto]]
    BY <1>6 DEF SignUp
  <2>2. Fine([Quiet EXCEPT !.pc = "insert user", !.auto = auto])
    BY <1>1 DEF RequestState, PCs
  <2>3. QED
    BY <2>1, <2>2
<1>7. CASE InsertUser(r)
  <2>1. CASE Exists
    BY <1>2, <1>3, <1>7, <2>1 DEF InsertUser
  <2>2. CASE ~ Exists
    <3>1. req' = [req EXCEPT ![r] =
                    [req[r] EXCEPT !.pc = "insert preferences", !.user = 1]]
      BY <1>7, <2>2 DEF InsertUser, AccountInv, TypeOK
    <3>2. Fine([req[r] EXCEPT !.pc = "insert preferences", !.user = 1])
      BY <1>1 DEF RequestState, PCs
    <3>3. QED
      BY <3>1, <3>2
  <2>3. QED
    BY <2>1, <2>2
<1>8. CASE InsertPreferences(r) \/ OptIn(r)
  <2>1. req[r].pc \in {"insert preferences", "opt in"} /\ req[r].user \in Passwords
    BY <1>8 DEF InsertPreferences, OptIn, At, AccountInv, SignsPresented, TypeOK
  <2>2. PICK pc \in {"opt in", "issue"} : Go(r, pc)
    BY <1>8 DEF InsertPreferences, OptIn
  <2>3. pc \in PCs
    BY DEF PCs
  <2>4. QED
    BY <1>4, <2>1, <2>2, <2>3
<1>9. CASE SignIn(r) \/ Refresh(r) \/ PatchProfile(r)
  <2>1. Exists
    BY <1>9 DEF SignIn, Refresh, PatchProfile, Authenticated, Exists
  <2>2. PICK pc \in {"issue", "save name", "save preferences"} : ReadUser(r, pc)
    BY <1>9 DEF SignIn, Refresh, PatchProfile
  <2>3. pc \in PCs
    BY DEF PCs
  <2>4. QED
    BY <1>5, <2>1, <2>2, <2>3
<1>10. CASE IssueTokens(r) \/ DeleteTokens(r) \/ SavePreferences(r) \/ Dies(r)
  BY <1>2, <1>3, <1>10 DEF IssueTokens, DeleteTokens, SavePreferences, Dies
<1>11. CASE SignOut(r) \/ CookieExpires(r) \/ \E t \in ResetTokens : RequestReset(r, t)
  <2>1. req' = req
    BY <1>11 DEF SignOut, CookieExpires, RequestReset
  <2>2. req' = [req EXCEPT ![r] = req[r]]
    BY <2>1 DEF AccountInv, TypeOK
  <2>3. QED
    BY <1>2, <2>2
<1>12. CASE \E t \in ResetTokens : ConfirmReset(r, t)
  <2>1. PICK t \in ResetTokens :
          req' = [req EXCEPT ![r] = [Quiet EXCEPT !.pc = "read token", !.token = t]]
    BY <1>12 DEF ConfirmReset
  <2>2. Fine([Quiet EXCEPT !.pc = "read token", !.token = t])
    BY <1>1 DEF RequestState, PCs
  <2>3. QED
    BY <2>1, <2>2
<1>13. CASE ReadToken(r)
  <2>1. CASE token[req[r].token] = "valid"
    <3>1. req' = [req EXCEPT ![r] = [req[r] EXCEPT !.pc = "save password",
                                       !.user = password, !.name = name]]
      BY <1>13, <2>1 DEF ReadToken, AccountInv, TypeOK
    <3>2. Exists
      BY <1>13, <2>1 DEF ReadToken, At, AccountInv, TypeOK, LinksHaveUser
    <3>3. Fine([req[r] EXCEPT !.pc = "save password", !.user = password, !.name = name])
      BY <1>1, <3>2 DEF RequestState, PCs
    <3>4. QED
      BY <3>1, <3>3
  <2>2. CASE token[req[r].token] # "valid"
    BY <1>2, <1>3, <1>13, <2>2 DEF ReadToken
  <2>3. QED
    BY <2>1, <2>2
<1>14. CASE SavePassword(r)
  BY <1>4, <1>14 DEF SavePassword, PCs
<1>15. CASE SaveName(r)
  <2>1. CASE End(r)
    BY <1>2, <1>3, <2>1
  <2>2. CASE Go(r, "save preferences")
    BY <1>4, <1>15, <2>2 DEF SaveName, PCs, At, AccountInv, TypeOK
  <2>3. QED
    BY <1>15, <2>1, <2>2 DEF SaveName
<1>16. QED
  BY <1>6, <1>7, <1>8, <1>9, <1>10, <1>11, <1>12, <1>13, <1>14, <1>15 DEF Step

\* Every step keeps the types of the rows, the cookies and what was observed.
LEMMA TypeStep ==
  ASSUME AccountInv, NEW r \in Requests, Step(r)
  PROVE  TypeOK'
<1>1. PICK new \in RequestState :
        /\ req' = [req EXCEPT ![r] = new]
        /\ new.pc \in {"issue", "save password", "save name", "save preferences"} =>
             new.user \in Passwords
        /\ new.pc = "read token" => new.token \in ResetTokens
  BY RequestStep
<1>2. /\ req' \in [Requests -> RequestState]
      /\ \A s \in Requests :
           req'[s].pc \in {"issue", "save password", "save name", "save preferences"} =>
             req'[s].user \in Passwords
      /\ \A s \in Requests : req'[s].pc = "read token" => req'[s].token \in ResetTokens
  BY <1>1 DEF AccountInv, TypeOK
<1>3. 0 \in Claims /\ 1 \in Passwords /\ 1 \in Claims
  BY StateTypes DEF Passwords, Claims
<1>4. password' \in Claims
  <2>1. CASE SavePassword(r)
    BY <2>1, NextValues DEF SavePassword, AccountInv, TypeOK
  <2>2. CASE ~ SavePassword(r)
    <3>1. password' \in {password, 1}
      BY <2>2 DEF Step, SignUp, InsertUser, InsertPreferences, OptIn, SignIn, Refresh,
                  IssueTokens, SignOut, CookieExpires, RequestReset, ConfirmReset,
                  ReadToken, DeleteTokens, PatchProfile, SaveName, SavePreferences,
                  Dies, rowVars
    <3>2. QED
      BY <1>3, <3>1 DEF AccountInv, TypeOK
  <2>3. QED
    BY <2>1, <2>2
<1>5. name' \in 0 .. MaxName
  <2>1. CASE SaveName(r)
    BY <2>1, NextValues DEF SaveName, AccountInv, TypeOK
  <2>2. CASE ~ SaveName(r)
    <3>1. name' = name
      BY <2>2 DEF Step, SignUp, InsertUser, InsertPreferences, OptIn, SignIn, Refresh,
                  IssueTokens, SignOut, CookieExpires, RequestReset, ConfirmReset,
                  ReadToken, SavePassword, DeleteTokens, PatchProfile, SavePreferences,
                  Dies, rowVars
    <3>2. QED
      BY <3>1 DEF AccountInv, TypeOK
  <2>3. QED
    BY <2>1, <2>2
<1>6. prefs' \in [auto : BOOLEAN, consent : BOOLEAN, exists : BOOLEAN]
  <2>1. CASE InsertPreferences(r) \/ OptIn(r) \/ SavePreferences(r)
    BY <2>1 DEF InsertPreferences, OptIn, SavePreferences, Choice, NewPrefs, NoPrefs,
                AccountInv, TypeOK
  <2>2. CASE ~ (InsertPreferences(r) \/ OptIn(r) \/ SavePreferences(r))
    <3>1. prefs' = prefs
      BY <2>2 DEF Step, SignUp, InsertUser, SignIn, Refresh, IssueTokens, SignOut,
                  CookieExpires, RequestReset, ConfirmReset, ReadToken, SavePassword,
                  DeleteTokens, PatchProfile, SaveName, Dies, rowVars
    <3>2. QED
      BY <3>1 DEF AccountInv, TypeOK
  <2>3. QED
    BY <2>1, <2>2
<1>7. token' \in [ResetTokens -> {"unused", "valid", "expired", "deleted"}]
      /\ madeFor' \in [ResetTokens -> Claims]
  <2>1. CASE DeleteTokens(r)
    BY <2>1 DEF DeleteTokens, seen, AccountInv, TypeOK
  <2>2. CASE \E t \in ResetTokens : RequestReset(r, t)
    <3>1. PICK t \in ResetTokens : /\ token' = [token EXCEPT ![t] = "valid"]
                                   /\ madeFor' = [madeFor EXCEPT ![t] = password]
      BY <2>2 DEF RequestReset
    <3>2. /\ token \in [ResetTokens -> {"unused", "valid", "expired", "deleted"}]
          /\ madeFor \in [ResetTokens -> Claims] /\ password \in Claims
      BY DEF AccountInv, TypeOK
    <3>3. QED
      BY <3>1, <3>2
  <2>3. CASE ~ (DeleteTokens(r) \/ \E t \in ResetTokens : RequestReset(r, t))
    <3>1. token' = token /\ madeFor' = madeFor
      BY <2>3 DEF Step, SignUp, InsertUser, InsertPreferences, OptIn, SignIn, Refresh,
                  IssueTokens, SignOut, CookieExpires, ConfirmReset, ReadToken,
                  SavePassword, PatchProfile, SaveName, SavePreferences, Dies,
                  rowVars, seen
    <3>2. QED
      BY <3>1 DEF AccountInv, TypeOK
  <2>4. QED
    BY <2>1, <2>2, <2>3
<1>8. access' \in [Requests -> Claims] /\ refresh' \in [Requests -> Claims]
  <2>1. CASE IssueTokens(r) \/ SignOut(r) \/ CookieExpires(r)
    <3>1. IssuedFor(r) \in Claims
      BY DEF IssuedFor, AccountInv, TypeOK, RequestState
    <3>2. QED
      BY <1>3, <2>1, <3>1 DEF IssueTokens, SignOut, CookieExpires, NoPassword,
                              AccountInv, TypeOK
  <2>2. CASE ~ (IssueTokens(r) \/ SignOut(r) \/ CookieExpires(r))
    <3>1. access' = access /\ refresh' = refresh
      BY <2>2 DEF Step, SignUp, InsertUser, InsertPreferences, OptIn, SignIn, Refresh,
                  RequestReset, ConfirmReset, ReadToken, SavePassword, DeleteTokens,
                  PatchProfile, SaveName, SavePreferences, Dies, cookieVars
    <3>2. QED
      BY <3>1 DEF AccountInv, TypeOK
  <2>3. QED
    BY <2>1, <2>2
<1>9. presented' \in [Requests -> SUBSET Passwords] /\ halfDone' \in BOOLEAN
  <2>1. CASE InsertUser(r) \/ SignIn(r)
    <3>1. Exists => password \in Passwords
      BY NextValues DEF AccountInv, TypeOK
    <3>2. PICK p \in Passwords : presented' = presented \/ Present(r, p)
      BY <1>3, <2>1, <3>1 DEF InsertUser, SignIn
    <3>3. halfDone' = halfDone
      BY <2>1 DEF InsertUser, SignIn
    <3>4. QED
      <4>1. presented \in [Requests -> SUBSET Passwords] /\ halfDone \in BOOLEAN
        BY DEF AccountInv, TypeOK
      <4>2. presented[r] \cup {p} \in SUBSET Passwords
        BY <4>1
      <4>3. Present(r, p) => presented' \in [Requests -> SUBSET Passwords]
        BY <4>1, <4>2 DEF Present
      <4>4. QED
        BY <3>2, <3>3, <4>1, <4>3
  <2>2. CASE ~ (InsertUser(r) \/ SignIn(r))
    <3>1. presented' = presented /\ halfDone' \in BOOLEAN
      BY <2>2 DEF Step, SignUp, InsertPreferences, OptIn, Refresh,
                  IssueTokens, SignOut, CookieExpires, RequestReset, ConfirmReset,
                  ReadToken, SavePassword, DeleteTokens, PatchProfile, SaveName,
                  SavePreferences, Dies, seen, AccountInv, TypeOK
    <3>2. QED
      BY <3>1 DEF AccountInv, TypeOK
  <2>3. QED
    BY <2>1, <2>2
<1>10. QED
  BY <1>2, <1>4, <1>5, <1>6, <1>7, <1>8, <1>9 DEF TypeOK

-----------------------------------------------------------------------------
(* Sessions *)

\* What a browser has presented stays presented.
LEMMA PresentedGrows ==
  ASSUME AccountInv, NEW r \in Requests, Step(r), NEW s \in Requests
  PROVE  presented[s] \subseteq presented'[s]
<1>1. CASE InsertUser(r) \/ SignIn(r)
  <2>1. PICK p : presented' = presented \/ Present(r, p)
    BY <1>1 DEF InsertUser, SignIn
  <2>2. QED
    BY <2>1 DEF Present, AccountInv, TypeOK
<1>2. CASE ~ (InsertUser(r) \/ SignIn(r))
  <2>1. presented' = presented
    BY <1>2 DEF Step, SignUp, InsertPreferences, OptIn, Refresh, IssueTokens, SignOut,
                CookieExpires, RequestReset, ConfirmReset, ReadToken, SavePassword,
                DeleteTokens, PatchProfile, SaveName, SavePreferences, Dies, seen
  <2>2. QED
    BY <2>1
<1>3. QED
  BY <1>1, <1>2

\* The steps after which a request is not about to sign; only a valid link leads
\* to a new password.
LEMMA NotSigning ==
  ASSUME AccountInv, NEW r \in Requests,
         \/ SignUp(r) \/ IssueTokens(r) \/ (\E t \in ResetTokens : ConfirmReset(r, t))
         \/ ReadToken(r) \/ SavePassword(r) \/ DeleteTokens(r)
         \/ PatchProfile(r) \/ SaveName(r) \/ SavePreferences(r) \/ Dies(r)
  PROVE  /\ req'[r].pc \notin {"insert preferences", "opt in", "issue"}
         /\ req'[r].pc = "save password" => ReadToken(r) /\ token[req[r].token] = "valid"
<1>1. /\ Quiet \in RequestState /\ req[r] \in RequestState
      /\ req \in [Requests -> RequestState]
  BY StateTypes DEF AccountInv, TypeOK
<1>2. End(r) => req'[r].pc = "idle"
  <2>1. "idle" \in PCs
    BY DEF PCs
  <2>2. QED
    BY <2>1, RecordSteps DEF AccountInv
<1>3. CASE SignUp(r)
  <2>1. PICK auto \in BOOLEAN :
          req' = [req EXCEPT ![r] = [Quiet EXCEPT !.pc = "insert user", !.auto = auto]]
    BY <1>3 DEF SignUp
  <2>2. req'[r].pc = "insert user"
    BY <1>1, <2>1 DEF RequestState
  <2>3. QED
    BY <2>2
<1>4. CASE \E t \in ResetTokens : ConfirmReset(r, t)
  <2>1. PICK t \in ResetTokens :
          req' = [req EXCEPT ![r] = [Quiet EXCEPT !.pc = "read token", !.token = t]]
    BY <1>4 DEF ConfirmReset
  <2>2. req'[r].pc = "read token"
    BY <1>1, <2>1 DEF RequestState
  <2>3. QED
    BY <2>2
<1>5. CASE PatchProfile(r)
  BY <1>5, RecordSteps DEF PatchProfile, PCs, AccountInv
<1>6. CASE ReadToken(r)
  <2>1. CASE token[req[r].token] = "valid"
    <3>1. req' = [req EXCEPT ![r] = [req[r] EXCEPT !.pc = "save password",
                                       !.user = password, !.name = name]]
      BY <1>1, <1>6, <2>1 DEF ReadToken
    <3>2. req'[r].pc = "save password"
      BY <1>1, <3>1 DEF RequestState
    <3>3. QED
      BY <1>6, <2>1, <3>2
  <2>2. CASE token[req[r].token] # "valid"
    BY <1>2, <1>6, <2>2 DEF ReadToken
  <2>3. QED
    BY <2>1, <2>2
<1>7. CASE IssueTokens(r) \/ DeleteTokens(r) \/ SavePreferences(r) \/ Dies(r)
  BY <1>2, <1>7 DEF IssueTokens, DeleteTokens, SavePreferences, Dies
<1>8. CASE SavePassword(r) \/ SaveName(r)
  BY <1>2, <1>8, RecordSteps DEF SavePassword, SaveName, PCs, AccountInv
<1>9. QED
  BY <1>3, <1>4, <1>5, <1>6, <1>7, <1>8

\* A browser signs only for what it has presented: at the sign-up and the
\* sign-in because it just did, at a refresh because the claim it shows is one.
LEMMA SignsStep ==
  ASSUME AccountInv, NEW r \in Requests, Step(r)
  PROVE  SignsPresented'
<1> DEFINE Signs(s) ==
      req[s].pc \in {"insert preferences", "opt in", "issue"} => req[s].user \in presented[s]
<1>1. PICK new \in RequestState : req' = [req EXCEPT ![r] = new]
  BY RequestStep
<1>2. ASSUME NEW s \in Requests, s # r
      PROVE  Signs(s)'
  BY <1>1, <1>2, PresentedGrows DEF AccountInv, TypeOK, SignsPresented
<1> SUFFICES Signs(r)'
  BY <1>2 DEF SignsPresented
<1>3. /\ Quiet \in RequestState /\ req[r] \in RequestState
      /\ req \in [Requests -> RequestState]
      /\ presented \in [Requests -> SUBSET Passwords] /\ Signs(r)
  BY StateTypes DEF AccountInv, TypeOK, SignsPresented
<1>4. ASSUME NEW pc \in PCs, ReadUser(r, pc)
      PROVE  req'[r].user = password /\ req'[r].pc = pc
  BY <1>4, RecordSteps DEF AccountInv
<1>5. ASSUME NEW pc \in PCs, Go(r, pc)
      PROVE  req'[r].user = req[r].user /\ req'[r].pc = pc
  BY <1>5, RecordSteps DEF AccountInv
<1>6. End(r) => req'[r].pc = "idle"
  <2>1. "idle" \in PCs
    BY DEF PCs
  <2>2. QED
    BY <2>1, RecordSteps DEF AccountInv
<1>7. CASE InsertUser(r)
  <2>1. CASE Exists
    BY <1>6, <1>7, <2>1 DEF InsertUser
  <2>2. CASE ~ Exists
    <3>1. req'[r].user = 1
      <4>1. req' = [req EXCEPT ![r] =
                      [req[r] EXCEPT !.pc = "insert preferences", !.user = 1]]
        BY <1>3, <1>7, <2>2 DEF InsertUser
      <4>2. QED
        BY <1>3, <4>1 DEF RequestState
    <3>2. 1 \in presented'[r]
      BY <1>3, <1>7, <2>2 DEF InsertUser, Present
    <3>3. QED
      BY <3>1, <3>2
  <2>3. QED
    BY <2>1, <2>2
<1>8. CASE InsertPreferences(r) \/ OptIn(r)
  <2>1. req[r].user \in presented[r]
    BY <1>3, <1>8 DEF InsertPreferences, OptIn, At
  <2>2. req'[r].user = req[r].user
    BY <1>5, <1>8 DEF InsertPreferences, OptIn, PCs
  <2>3. QED
    BY <2>1, <2>2, PresentedGrows
<1>9. CASE SignIn(r)
  <2>1. req'[r].user = password /\ password \in presented'[r]
    BY <1>3, <1>4, <1>9 DEF SignIn, Present, PCs
  <2>2. QED
    BY <2>1
<1>10. CASE Refresh(r)
  <2>1. req'[r].user = password /\ password = refresh[r] /\ refresh[r] # NoPassword
    BY <1>4, <1>10 DEF Refresh, PCs
  <2>2. refresh[r] \in presented[r]
    BY <2>1 DEF AccountInv, SessionsProvePassword
  <2>3. QED
    BY <2>1, <2>2, PresentedGrows
<1>11. CASE SignOut(r) \/ CookieExpires(r) \/ \E t \in ResetTokens : RequestReset(r, t)
  <2>1. req' = req
    BY <1>11 DEF SignOut, CookieExpires, RequestReset
  <2>2. QED
    BY <1>3, <2>1, PresentedGrows
<1>12. CASE \/ SignUp(r) \/ IssueTokens(r) \/ (\E t \in ResetTokens : ConfirmReset(r, t))
            \/ ReadToken(r) \/ SavePassword(r) \/ DeleteTokens(r)
            \/ PatchProfile(r) \/ SaveName(r) \/ SavePreferences(r) \/ Dies(r)
  <2>1. req'[r].pc \notin {"insert preferences", "opt in", "issue"}
    BY <1>12, NotSigning
  <2>2. QED
    BY <2>1
<1>13. QED
  BY <1>7, <1>8, <1>9, <1>10, <1>11, <1>12 DEF Step

\* Cookies are set from what the request signs for.
LEMMA SessionsStep ==
  ASSUME AccountInv, NEW r \in Requests, Step(r)
  PROVE  SessionsProvePassword'
<1>1. CASE IssueTokens(r)
  <2>1. IssuedFor(r) \in presented[r]
    BY <1>1 DEF IssueTokens, IssuedFor, At, AccountInv, SignsPresented
  <2>2. /\ access' = [access EXCEPT ![r] = IssuedFor(r)]
        /\ refresh' = [refresh EXCEPT ![r] = IssuedFor(r)] /\ presented' = presented
    BY <1>1 DEF IssueTokens, seen
  <2>3. QED
    BY <2>1, <2>2 DEF AccountInv, TypeOK, SessionsProvePassword
<1>2. CASE SignOut(r) \/ CookieExpires(r)
  <2>1. /\ access' \in {access, [access EXCEPT ![r] = NoPassword]}
        /\ refresh' \in {refresh, [refresh EXCEPT ![r] = NoPassword]}
        /\ presented' = presented
    BY <1>2 DEF SignOut, CookieExpires, seen
  <2>2. QED
    BY <2>1 DEF AccountInv, TypeOK, SessionsProvePassword
<1>3. CASE ~ (IssueTokens(r) \/ SignOut(r) \/ CookieExpires(r))
  <2>1. access' = access /\ refresh' = refresh
    BY <1>3 DEF Step, SignUp, InsertUser, InsertPreferences, OptIn, SignIn, Refresh,
                RequestReset, ConfirmReset, ReadToken, SavePassword, DeleteTokens,
                PatchProfile, SaveName, SavePreferences, Dies, cookieVars
  <2>2. QED
    BY <2>1, PresentedGrows DEF AccountInv, SessionsProvePassword
<1>4. QED
  BY <1>1, <1>2, <1>3

-----------------------------------------------------------------------------
(* Reset links, and the preferences of a user *)

\* A user stays, and only a sign-up makes one.
LEMMA UserStays ==
  ASSUME AccountInv, NEW r \in Requests, Step(r)
  PROVE  (Exists => Exists') /\ (Exists' => Exists \/ InsertUser(r))
<1>1. CASE SavePassword(r)
  <2>1. Exists
    BY <1>1 DEF SavePassword, At, AccountInv, LinksHaveUser
  <2>2. password' = password + 1 /\ password \in Claims
    BY <1>1 DEF SavePassword, AccountInv, TypeOK
  <2>3. password' # 0
    BY <2>2 DEF Claims
  <2>4. QED
    BY <2>1, <2>3 DEF Exists, NoPassword
<1>2. CASE InsertUser(r)
  BY <1>2 DEF InsertUser, Exists, NoPassword
<1>3. CASE ~ (SavePassword(r) \/ InsertUser(r))
  <2>1. password' = password
    BY <1>3 DEF Step, SignUp, InsertPreferences, OptIn, SignIn, Refresh, IssueTokens,
                SignOut, CookieExpires, RequestReset, ConfirmReset, ReadToken,
                DeleteTokens, PatchProfile, SaveName, SavePreferences, Dies, rowVars
  <2>2. QED
    BY <2>1 DEF Exists
<1>4. QED
  BY <1>1, <1>2, <1>3

\* Who saves a password has read a link, and a link has a user.
LEMMA ResetHasUser ==
  ASSUME AccountInv, NEW r \in Requests, Step(r), NEW s \in Requests,
         req'[s].pc = "save password"
  PROVE  Exists'
<1>1. CASE req[s].pc = "save password"
  BY <1>1, UserStays DEF AccountInv, LinksHaveUser
<1>2. CASE req[s].pc # "save password"
  <2>1. PICK new \in RequestState : req' = [req EXCEPT ![r] = new]
    BY RequestStep
  <2>2. s = r /\ Quiet \in RequestState /\ req \in [Requests -> RequestState]
    BY <1>2, <2>1, StateTypes DEF AccountInv, TypeOK
  <2>3. CASE InsertUser(r) \/ InsertPreferences(r) \/ OptIn(r) \/ SignIn(r) \/ Refresh(r)
    <3>1. req'[r].pc \in {"idle", "insert preferences", "opt in", "issue"}
      <4>1. CASE InsertUser(r)
        <5>1. CASE Exists
          BY <4>1, <5>1, RecordSteps DEF InsertUser, PCs, AccountInv
        <5>2. CASE ~ Exists
          <6>1. req' = [req EXCEPT ![r] =
                          [req[r] EXCEPT !.pc = "insert preferences", !.user = 1]]
            BY <2>2, <4>1, <5>2 DEF InsertUser
          <6>2. QED
            BY <2>2, <6>1 DEF RequestState
        <5>3. QED
          BY <5>1, <5>2
      <4>2. CASE InsertPreferences(r) \/ OptIn(r)
        BY <4>2, RecordSteps DEF InsertPreferences, OptIn, PCs, AccountInv
      <4>3. CASE SignIn(r) \/ Refresh(r)
        BY <4>3, RecordSteps DEF SignIn, Refresh, PCs, AccountInv
      <4>4. QED
        BY <2>3, <4>1, <4>2, <4>3
    <3>2. QED
      BY <2>2, <3>1
  <2>4. CASE SignOut(r) \/ CookieExpires(r) \/ \E t \in ResetTokens : RequestReset(r, t)
    BY <1>2, <2>2, <2>4 DEF SignOut, CookieExpires, RequestReset
  <2>5. CASE ReadToken(r) /\ token[req[r].token] = "valid"
    <3>1. req[r].token \in ResetTokens
      BY <2>5 DEF ReadToken, At, AccountInv, TypeOK
    <3>2. QED
      BY <2>5, <3>1, UserStays DEF AccountInv, LinksHaveUser
  <2>6. QED
    BY <2>2, <2>3, <2>4, <2>5, NotSigning DEF Step
<1>3. QED
  BY <1>1, <1>2

\* A link outlives a new password only until its saver deletes the links.
LEMMA LinksStep ==
  ASSUME AccountInv, NEW r \in Requests, Step(r), TypeOK'
  PROVE  LinksHaveUser' /\ LinksEndWithPassword'
<1> DEFINE Deleting == \E s \in Requests : At(s, "delete tokens")
<1> DEFINE Link(t) ==
      /\ token[t] = "valid" => Exists
      /\ token[t] = "valid" /\ madeFor[t] < password => halfDone \/ Deleting
<1> SUFFICES ASSUME NEW t \in ResetTokens PROVE Link(t)'
  BY ResetHasUser DEF LinksHaveUser, LinksEndWithPassword
<1>1. PICK new \in RequestState : req' = [req EXCEPT ![r] = new]
  BY RequestStep
<1>2. /\ Link(t) /\ token[t] \in {"unused", "valid", "expired", "deleted"}
      /\ req \in [Requests -> RequestState] /\ Quiet \in RequestState
      /\ password \in Int /\ password' \in Int /\ madeFor[t] \in Int
  <2>1. Link(t)
    BY DEF AccountInv, LinksHaveUser, LinksEndWithPassword
  <2>2. /\ token[t] \in {"unused", "valid", "expired", "deleted"}
        /\ req \in [Requests -> RequestState] /\ madeFor[t] \in Claims
        /\ password \in Claims /\ password' \in Claims
    BY DEF AccountInv, TypeOK
  <2>3. Claims \subseteq Int
    BY DEF Claims
  <2>4. QED
    BY <2>1, <2>2, <2>3, StateTypes
<1>3. \A s \in Requests \ {r} : req'[s] = req[s]
  BY <1>1, <1>2
<1>4. ASSUME ~ At(r, "delete tokens") PROVE Deleting => Deleting'
  BY <1>3, <1>4 DEF At
<1>5. CASE SavePassword(r)
  <2>1. At(r, "delete tokens")'
    BY <1>5, RecordSteps DEF SavePassword, At, PCs, AccountInv
  <2>2. Exists' \/ token[t] # "valid"
    <3>1. Exists
      BY <1>5 DEF SavePassword, At, AccountInv, LinksHaveUser
    <3>2. QED
      BY <3>1, UserStays
  <2>3. token' = token
    BY <1>5 DEF SavePassword
  <2>4. QED
    BY <2>1, <2>2, <2>3
<1>6. CASE DeleteTokens(r)
  BY <1>6 DEF DeleteTokens
<1>7. CASE InsertUser(r)
  <2>1. /\ ~ At(r, "delete tokens") /\ token' = token /\ madeFor' = madeFor
        /\ halfDone' = halfDone /\ (Exists => password' = password)
    BY <1>7 DEF InsertUser, At
  <2>2. QED
    BY <1>2, <1>4, <2>1 DEF Exists
<1>8. CASE \E x \in ResetTokens : RequestReset(r, x)
  <2>1. PICK x \in ResetTokens : RequestReset(r, x)
    BY <1>8
  <2>2. /\ ~ At(r, "delete tokens") /\ Exists /\ UNCHANGED <<password, halfDone>>
    BY <2>1 DEF RequestReset, At
  <2>3. CASE t = x
    <3>1. token'[t] = "valid" /\ madeFor'[t] = password
      BY <2>1, <2>3 DEF RequestReset, AccountInv, TypeOK
    <3>2. ~ (madeFor'[t] < password')
      <4>1. madeFor'[t] = password'
        BY <2>2, <3>1
      <4>2. password' \in Int
        BY <1>2
      <4>3. QED
        BY <4>1, <4>2
    <3>3. QED
      BY <2>2, <3>2 DEF Exists
  <2>4. CASE t # x
    <3>1. token'[t] = token[t] /\ madeFor'[t] = madeFor[t]
      BY <2>1, <2>4 DEF RequestReset, AccountInv, TypeOK
    <3>2. QED
      BY <1>2, <1>4, <2>2, <3>1 DEF Exists
  <2>5. QED
    BY <2>3, <2>4
<1>9. CASE Dies(r)
  <2>1. /\ UNCHANGED <<password, token, madeFor>>
        /\ halfDone' = (halfDone \/ req[r].pc \in {"insert preferences", "delete tokens"})
    BY <1>9 DEF Dies, rowVars
  <2>2. CASE At(r, "delete tokens")
    BY <1>2, <2>1, <2>2 DEF At, Exists
  <2>3. CASE ~ At(r, "delete tokens")
    BY <1>2, <1>4, <2>1, <2>3 DEF Exists
  <2>4. QED
    BY <2>2, <2>3
<1>10. CASE \/ SignUp(r) \/ InsertPreferences(r) \/ OptIn(r) \/ SignIn(r) \/ Refresh(r)
            \/ IssueTokens(r) \/ SignOut(r) \/ CookieExpires(r)
            \/ (\E x \in ResetTokens : ConfirmReset(r, x)) \/ ReadToken(r)
            \/ PatchProfile(r) \/ SaveName(r) \/ SavePreferences(r)
  <2>1. UNCHANGED <<password, token, madeFor, halfDone>>
    BY <1>10
         DEF SignUp, InsertPreferences, OptIn, SignIn, Refresh, IssueTokens, SignOut,
                 CookieExpires, ConfirmReset, ReadToken, PatchProfile, SaveName,
                 SavePreferences, rowVars, seen
  <2>2. Deleting => Deleting'
    <3>1. CASE SignOut(r) \/ CookieExpires(r)
      BY <3>1 DEF SignOut, CookieExpires, At
    <3>2. CASE ~ (SignOut(r) \/ CookieExpires(r))
      <4>1. ~ At(r, "delete tokens")
        BY <1>10, <3>2
             DEF SignUp, InsertPreferences, OptIn, SignIn, Refresh, IssueTokens,
             ConfirmReset, ReadToken, PatchProfile, SaveName, SavePreferences, At
      <4>2. QED
        BY <1>4, <4>1
    <3>3. QED
      BY <3>1, <3>2
  <2>3. QED
    BY <1>2, <2>1, <2>2 DEF Exists
<1>11. QED
  BY <1>5, <1>6, <1>7, <1>8, <1>9, <1>10 DEF Step

\* Whoever signs up makes the preferences next, or dies there.
LEMMA PreferencesStep ==
  ASSUME AccountInv, NEW r \in Requests, Step(r)
  PROVE  PreferencesExist'
<1> DEFINE Inserting == \E s \in Requests : At(s, "insert preferences")
<1>1. PICK new \in RequestState : req' = [req EXCEPT ![r] = new]
  BY RequestStep
<1>2. /\ Exists /\ ~ prefs.exists => halfDone \/ Inserting
      /\ req \in [Requests -> RequestState]
  BY DEF AccountInv, TypeOK, PreferencesExist
<1>3. ASSUME ~ At(r, "insert preferences") PROVE Inserting => Inserting'
  BY <1>1, <1>2, <1>3 DEF At
<1>4. CASE InsertPreferences(r)
  <2>1. prefs'.exists
    BY <1>4 DEF InsertPreferences, NewPrefs, NoPrefs
  <2>2. QED
    BY <2>1 DEF PreferencesExist
<1>5. CASE InsertUser(r)
  <2>1. /\ At(r, "insert user") /\ ~ At(r, "insert preferences")
        /\ prefs' = prefs /\ halfDone' = halfDone
    BY <1>5 DEF InsertUser, At
  <2>2. CASE Exists
    <3>1. password' = password
      BY <1>5, <2>2 DEF InsertUser
    <3>2. QED
      BY <1>2, <1>3, <2>1, <2>2, <3>1 DEF Exists, PreferencesExist
  <2>3. CASE ~ Exists
    <3>1. req' = [req EXCEPT ![r] =
                    [req[r] EXCEPT !.pc = "insert preferences", !.user = 1]]
      BY <1>2, <1>5, <2>3 DEF InsertUser
    <3>2. At(r, "insert preferences")'
      BY <1>2, <3>1 DEF At, RequestState
    <3>3. QED
      BY <3>2 DEF PreferencesExist
  <2>4. QED
    BY <2>2, <2>3
<1>6. CASE Dies(r)
  <2>1. /\ UNCHANGED <<password, prefs>>
        /\ halfDone' = (halfDone \/ req[r].pc \in {"insert preferences", "delete tokens"})
    BY <1>6 DEF Dies, rowVars
  <2>2. CASE At(r, "insert preferences")
    BY <2>1, <2>2 DEF At, PreferencesExist
  <2>3. CASE ~ At(r, "insert preferences")
    BY <1>2, <1>3, <2>1, <2>3 DEF Exists, PreferencesExist
  <2>4. QED
    BY <2>2, <2>3
<1>7. CASE ~ (InsertPreferences(r) \/ InsertUser(r) \/ Dies(r))
  <2>1. Exists' => Exists
    BY <1>7, UserStays
  <2>2. prefs'.exists = prefs.exists
    <3>1. CASE OptIn(r) \/ SavePreferences(r)
      BY <3>1 DEF OptIn, SavePreferences, Choice, AccountInv, TypeOK
    <3>2. CASE ~ (OptIn(r) \/ SavePreferences(r))
      <4>1. prefs' = prefs
        BY <1>7, <3>2 DEF Step, SignUp, SignIn, Refresh, IssueTokens, SignOut,
             CookieExpires, RequestReset, ConfirmReset, ReadToken, SavePassword,
             DeleteTokens, PatchProfile, SaveName, rowVars
      <4>2. QED
        BY <4>1
    <3>3. QED
      BY <3>1, <3>2
  <2>3. halfDone' = halfDone
    BY <1>7 DEF Step, SignUp, OptIn, SignIn, Refresh, IssueTokens, SignOut,
         CookieExpires, RequestReset, ConfirmReset, ReadToken, SavePassword,
         DeleteTokens, PatchProfile, SaveName, SavePreferences, seen
  <2>4. Inserting => Inserting'
    <3>1. CASE SignOut(r) \/ CookieExpires(r) \/ \E t \in ResetTokens : RequestReset(r, t)
      BY <3>1 DEF SignOut, CookieExpires, RequestReset, At
    <3>2. CASE ~ (SignOut(r) \/ CookieExpires(r) \/ \E t \in ResetTokens : RequestReset(r, t))
      <4>1. ~ At(r, "insert preferences")
        BY <1>7, <3>2 DEF Step, SignUp, OptIn, SignIn, Refresh, IssueTokens,
             ConfirmReset, ReadToken, SavePassword, DeleteTokens, PatchProfile,
             SaveName, SavePreferences, At
      <4>2. QED
        BY <1>3, <4>1
    <3>3. QED
      BY <3>1, <3>2
  <2>5. QED
    BY <1>2, <2>1, <2>2, <2>3, <2>4 DEF PreferencesExist
<1>8. QED
  BY <1>4, <1>5, <1>6, <1>7

-----------------------------------------------------------------------------
(* The invariant and what follows from it *)

\* A link that expires is no longer valid, and nothing else changes.
LEMMA ExpiryStep ==
  ASSUME AccountInv, NEW t \in ResetTokens, TokenExpires(t)
  PROVE  AccountInv'
<1>1. /\ UNCHANGED <<password, name, prefs, access, refresh, req>>
      /\ UNCHANGED <<presented, madeFor, halfDone>>
      /\ token' = [token EXCEPT ![t] = "expired"]
  BY DEF TokenExpires, cookieVars, seen
<1>2. TypeOK'
  BY <1>1 DEF AccountInv, TypeOK
<1>3. \A x \in ResetTokens : token'[x] = "valid" => token[x] = "valid"
  BY <1>1 DEF AccountInv, TypeOK
<1>4. LinksHaveUser' /\ LinksEndWithPassword'
  BY <1>1, <1>3 DEF AccountInv, LinksHaveUser, LinksEndWithPassword, Exists, At
<1>5. SignsPresented' /\ SessionsProvePassword' /\ PreferencesExist'
  BY <1>1 DEF AccountInv, SignsPresented, SessionsProvePassword, PreferencesExist,
              Exists, At
<1>6. QED
  BY <1>2, <1>4, <1>5 DEF AccountInv

\* Nothing is presented, made or sent at first.
LEMMA AccountInit == Init => AccountInv
<1> SUFFICES ASSUME Init PROVE AccountInv
  OBVIOUS
<1>1. 0 \in Claims /\ 0 \in 0 .. MaxName /\ Quiet \in RequestState
  BY StateTypes, Bounds
<1>2. Quiet.pc = "idle"
  BY DEF Quiet
<1>3. TypeOK
  BY <1>1, <1>2 DEF Init, TypeOK, NoPassword, NoPrefs
<1>4. SignsPresented /\ LinksHaveUser
  BY <1>2 DEF Init, SignsPresented, LinksHaveUser
<1>5. SessionsProvePassword /\ LinksEndWithPassword /\ PreferencesExist
  BY DEF Init, SessionsProvePassword, LinksEndWithPassword, PreferencesExist, Exists
<1>6. QED
  BY <1>3, <1>4, <1>5 DEF AccountInv

\* Every step keeps the invariant.
LEMMA AccountStep ==
  ASSUME AccountInv, [Next]_vars
  PROVE  AccountInv'
<1>1. ASSUME NEW r \in Requests, Step(r) PROVE AccountInv'
  <2>1. TypeOK'
    BY <1>1, TypeStep
  <2>2. QED
    BY <1>1, <2>1, SignsStep, SessionsStep, LinksStep, PreferencesStep DEF AccountInv
<1>2. CASE UNCHANGED vars
  BY <1>2 DEF vars, AccountInv, TypeOK, SignsPresented, LinksHaveUser,
       SessionsProvePassword, LinksEndWithPassword, PreferencesExist, Exists, At
<1>3. QED
  BY <1>1, <1>2, ExpiryStep DEF Next

\* It holds of every behaviour of an account.
LEMMA AccountInvariant == Spec => []AccountInv
<1>1. Init => AccountInv
  BY AccountInit
<1>2. AccountInv /\ [Next]_vars => AccountInv'
  BY AccountStep
<1>3. QED
  BY <1>1, <1>2, PTL DEF Spec

-----------------------------------------------------------------------------
(* The lock of the throttle *)

Pcs == {"out", "read clock", "read entry", "write", "unlock"}

ReqState == [pc : Pcs, now : Nat, count : Nat, wait : Nat]

\* TypeOK, with a name for what a request knows.
LockType ==
  /\ clock \in Nat /\ lock \in Nat /\ late \in BOOLEAN /\ grants \in Seq(Nat)
  /\ treq \in [Requests -> ReqState]
  /\ entry \in [count : Nat, last : Nat, until : Nat]

\* The inductive invariant: while nobody is late, whoever is inside holds a lock
\* that has not expired, and is alone.
LockInv ==
  /\ LockType /\ Throttle!MutualExclusion
  /\ ~ late => \A r \in Requests : Throttle!Inside(r) => Throttle!Held

\* A delay is a number of seconds.
LEMMA DelayType ==
  ASSUME NEW n \in Nat
  PROVE  Throttle!Delay(n) \in Int
<1>1. CASE n = 0
  BY <1>1, Times DEF Throttle!Delay
<1>2. CASE n # 0
  <2>1. n - 1 \in Nat
    BY <1>2
  <2> DEFINE power == 2 ^ (n - 1)
  <2>2. power \in Int
    BY <2>1, SMT
  <2>3. Base * power \in Int
    BY <2>2, Times
  <2> HIDE DEF power
  <2>4. Throttle!Delay(n) = IF Base * power < Longest THEN Base * power ELSE Longest
    BY <1>2 DEF Throttle!Delay, power
  <2>5. QED
    BY <2>3, <2>4, Times
<1>3. QED
  BY <1>1, <1>2

\* A request outside has a state.
LEMMA OutType == Throttle!Out \in ReqState
BY DEF Throttle!Out, ReqState, Pcs

\* The lock expires later than it is set.
LEMMA LaterType ==
  ASSUME NEW n \in Nat
  PROVE  n + LockTime \in Nat /\ n + LockTime > n
BY Times

\* LockType, spelled out for the proofs, is TypeOK.
LEMMA LockTypeIsTypeOK == LockType <=> Throttle!TypeOK
BY DEF LockType, Throttle!TypeOK, ReqState, Pcs

\* Every step keeps the types.
LEMMA LockTypeStep ==
  ASSUME LockType, [Throttle!Next]_(Throttle!vars)
  PROVE  LockType'
<1> USE DEF LockType
<1>1. ASSUME NEW r \in Requests, Throttle!Serve(r)
      PROVE  LockType'
  <2>1. CASE Throttle!Acquire(r)
    <3>1. [Throttle!Out EXCEPT !.pc = "read clock"] \in ReqState
      BY OutType DEF ReqState, Pcs
    <3>2. lock' \in Nat
      BY <2>1, LaterType DEF Throttle!Acquire
    <3>3. QED
      BY <2>1, <3>1, <3>2 DEF Throttle!Acquire
  <2>2. CASE Throttle!ReadClock(r)
    <3>1. [treq[r] EXCEPT !.pc = "read entry", !.now = clock] \in ReqState
      BY DEF ReqState, Pcs
    <3>2. treq' = [treq EXCEPT ![r] = [treq[r] EXCEPT !.pc = "read entry", !.now = clock]]
      BY <2>2 DEF Throttle!ReadClock
    <3>3. QED
      BY <2>2, <3>1, <3>2 DEF Throttle!ReadClock
  <2>3. CASE Throttle!ReadEntry(r)
    <3>1. /\ Throttle!Cached \in [count : Nat, last : Nat, until : Nat]
          /\ treq[r].now \in Nat
      BY DEF Throttle!Cached, Throttle!NoEntry, ReqState
    <3>2. Throttle!Delay(Throttle!Cached.count) \in Int
      BY <3>1, DelayType
    <3> DEFINE remaining == Throttle!Cached.last + Throttle!Delay(Throttle!Cached.count) - treq[r].now
    <3>3. remaining \in Int
      BY <3>1, <3>2
    <3>4. Throttle!WaitFor(remaining) \in Nat
      BY <3>3 DEF Throttle!WaitFor
    <3> DEFINE new == [treq[r] EXCEPT !.count = Throttle!Cached.count,
                         !.wait = Throttle!WaitFor(remaining),
                         !.pc = IF remaining > 0 THEN "unlock" ELSE "write"]
    <3>5. new \in ReqState
      BY <3>1, <3>4 DEF ReqState, Pcs
    <3>6. treq' = [treq EXCEPT ![r] = new]
      BY <2>3 DEF Throttle!ReadEntry
    <3> HIDE DEF new
    <3>7. QED
      BY <2>3, <3>5, <3>6 DEF Throttle!ReadEntry
  <2>4. CASE Throttle!Write(r)
    <3>1. treq[r].count \in Nat /\ treq[r].now \in Nat
      BY DEF ReqState
    <3>2. entry' \in [count : Nat, last : Nat, until : Nat]
      BY <2>4, <3>1, Times DEF Throttle!Write, Throttle!Counted
    <3>3. [treq[r] EXCEPT !.pc = "unlock"] \in ReqState
      BY DEF ReqState, Pcs
    <3>4. treq' = [treq EXCEPT ![r] = [treq[r] EXCEPT !.pc = "unlock"]]
      BY <2>4 DEF Throttle!Write
    <3>5. QED
      BY <2>4, <3>2, <3>3, <3>4 DEF Throttle!Write
  <2>5. CASE Throttle!Unlock(r) \/ Throttle!Dies(r)
    <3>1. QED
      BY <2>5, OutType DEF Throttle!Unlock, Throttle!Dies
  <2>7. QED
    BY <1>1, <2>1, <2>2, <2>3, <2>4, <2>5 DEF Throttle!Serve
<1>2. CASE Throttle!Clear
  BY <1>2 DEF Throttle!Clear, Throttle!NoEntry
<1>3. CASE Throttle!Tick
  BY <1>3 DEF Throttle!Tick
<1>4. CASE UNCHANGED Throttle!vars
  BY <1>4 DEF Throttle!vars
<1>5. QED
  BY <1>1, <1>2, <1>3, <1>4 DEF Throttle!Next

\* They hold at first.
LEMMA InitType == Throttle!Init => LockType
<1> SUFFICES ASSUME Throttle!Init PROVE LockType
  OBVIOUS
<1>1. grants \in Seq(Nat)
  BY DEF Throttle!Init
<1>2. /\ clock \in Nat /\ lock \in Nat /\ late \in BOOLEAN
      /\ treq \in [Requests -> ReqState]
  BY OutType DEF Throttle!Init
<1>3. entry \in [count : Nat, last : Nat, until : Nat]
  BY DEF Throttle!Init, Throttle!NoEntry
<1>4. QED
  BY <1>1, <1>2, <1>3 DEF LockType

\* LockInv is inductive.
LEMMA LockStep ==
  ASSUME LockInv, [Throttle!Next]_(Throttle!vars), LockType'
  PROVE  LockInv'
<1> USE DEF LockInv, LockType, Throttle!MutualExclusion, Throttle!Inside, Throttle!At, Throttle!Held
<1>1. ASSUME NEW r \in Requests, Throttle!Serve(r)
      PROVE  LockInv'
  <2>1. CASE Throttle!Acquire(r)
    <3>1. ~ late => \A s \in Requests : ~ Throttle!Inside(s)
      BY <2>1 DEF Throttle!Acquire
    <3>2. lock' > clock' /\ UNCHANGED late
      BY <2>1, LaterType DEF Throttle!Acquire
    <3>3. \A s \in Requests : s # r => treq'[s] = treq[s]
      BY <2>1 DEF Throttle!Acquire
    <3>4. QED
      BY <3>1, <3>2, <3>3
  <2>2. CASE Throttle!ReadClock(r) \/ Throttle!ReadEntry(r) \/ Throttle!Write(r)
    <3>1. UNCHANGED <<clock, lock, late>> /\ Throttle!Inside(r)
      BY <2>2 DEF Throttle!ReadClock, Throttle!ReadEntry, Throttle!Write
    <3>2. \A s \in Requests : s # r => treq'[s] = treq[s]
      BY <2>2 DEF Throttle!ReadClock, Throttle!ReadEntry, Throttle!Write
    <3>3. QED
      BY <3>1, <3>2
  <2>3. CASE Throttle!Unlock(r)
    <3>1. ~ late => \A s \in Requests : s # r => ~ Throttle!Inside(s)
      BY <2>3 DEF Throttle!Unlock
    <3>2. treq' = [treq EXCEPT ![r] = Throttle!Out] /\ UNCHANGED late
      BY <2>3 DEF Throttle!Unlock
    <3>3. ~ late' => \A s \in Requests : ~ Throttle!Inside(s)'
      BY <3>1, <3>2 DEF Throttle!Out
    <3>4. QED
      BY <3>3
  <2>4. CASE Throttle!Dies(r)
    BY <2>4 DEF Throttle!Dies, Throttle!Out
  <2>5. QED
    BY <1>1, <2>1, <2>2, <2>3, <2>4 DEF Throttle!Serve
<1>2. CASE Throttle!Tick
  <2>1. ASSUME ~ late', NEW r \in Requests, Throttle!Inside(r)'
        PROVE  Throttle!Held'
    <3>1. Throttle!Inside(r) /\ ~ late /\ lock # clock + 1
      BY <1>2, <2>1 DEF Throttle!Tick
    <3>2. clock < lock
      BY <3>1
    <3>3. QED
      BY <1>2, <3>1, <3>2 DEF Throttle!Tick
  <2>2. Throttle!MutualExclusion'
    BY <1>2 DEF Throttle!Tick
  <2>3. QED
    BY <2>1, <2>2
<1>3. CASE Throttle!Clear
  BY <1>3 DEF Throttle!Clear
<1>4. CASE UNCHANGED Throttle!vars
  BY <1>4 DEF Throttle!vars
<1>5. QED
  BY <1>1, <1>2, <1>3, <1>4 DEF Throttle!Next

-----------------------------------------------------------------------------
(* The backoff of the throttle *)

\* The powers of two grow: they count the subsets of an interval.
LEMMA PowersGrow ==
  ASSUME NEW m \in Nat, NEW n \in Nat, m <= n
  PROVE  2 ^ m \in Nat /\ 2 ^ n \in Nat /\ 2 ^ m <= 2 ^ n
<1> DEFINE Sets(k) == SUBSET (1 .. k)
<1>1. ASSUME NEW k \in Nat
      PROVE  IsFiniteSet(Sets(k)) /\ Cardinality(Sets(k)) = 2 ^ k
  <2>1. IsFiniteSet(1 .. k) /\ Cardinality(1 .. k) = k
    BY <1>1, FS_Interval
  <2>2. QED
    BY <2>1, FS_SUBSET
<1>2. Sets(m) \subseteq Sets(n)
  OBVIOUS
<1> HIDE DEF Sets
<1>3. Cardinality(Sets(m)) <= Cardinality(Sets(n))
  BY <1>1, <1>2, FS_Subset
<1>4. Cardinality(Sets(m)) \in Nat /\ Cardinality(Sets(n)) \in Nat
  BY <1>1, FS_CardinalityType
<1>5. QED
  BY <1>1, <1>3, <1>4

\* As far apart as the wait after the nth allowed request.
FarEnough(n, seconds) == seconds >= Longest \/ seconds >= Base * 2 ^ (n - 1)

\* The wait grows with the count, up to the longest, and keeps requests apart.
LEMMA DelayGrows ==
  ASSUME NEW m \in Nat, NEW n \in Nat, m <= n
  PROVE  /\ Throttle!Delay(m) \in Int /\ Throttle!Delay(n) \in Int
         /\ Throttle!Delay(m) <= Throttle!Delay(n) /\ Throttle!Delay(n) <= Longest
         /\ 0 <= Throttle!Delay(m)
<1>1. CASE m = 0 /\ n = 0
  BY <1>1, Times DEF Throttle!Delay
<1>2. ASSUME NEW k \in Nat, NEW l \in Nat, k # 0, k <= l
      PROVE  /\ Base * 2 ^ (k - 1) \in Nat /\ Base * 2 ^ (l - 1) \in Nat
             /\ Base * 2 ^ (k - 1) <= Base * 2 ^ (l - 1)
  <2>1. k - 1 \in Nat /\ l - 1 \in Nat /\ k - 1 <= l - 1
    BY <1>2
  <2> DEFINE a == 2 ^ (k - 1)
             b == 2 ^ (l - 1)
  <2>2. a \in Nat /\ b \in Nat /\ a <= b
    BY <2>1, PowersGrow
  <2> HIDE DEF a, b
  <2>3. Base * a \in Nat /\ Base * b \in Nat /\ Base * a <= Base * b
    <3>1. Base \in Nat
      BY Times
    <3>2. PICK d \in Nat : b = a + d
      <4>1. b - a \in Nat /\ b = a + (b - a)
        BY <2>2
      <4>2. QED
        BY <4>1
    <3>3. Base * b = Base * a + Base * d /\ Base * d \in Nat /\ Base * a \in Nat
      BY <2>2, <3>1, <3>2
    <3>4. QED
      BY <3>3
  <2>4. QED
    BY <2>3 DEF a, b
<1>3. CASE m # 0
  <2>1. n # 0
    BY <1>3
  <2> DEFINE a == Base * 2 ^ (m - 1)
             b == Base * 2 ^ (n - 1)
  <2>2. a \in Nat /\ b \in Nat /\ a <= b
    BY <1>2, <1>3
  <2>3. /\ Throttle!Delay(m) = IF a < Longest THEN a ELSE Longest
        /\ Throttle!Delay(n) = IF b < Longest THEN b ELSE Longest
    BY <1>3, <2>1 DEF Throttle!Delay
  <2> HIDE DEF a, b
  <2>4. QED
    BY <2>2, <2>3, Times
<1>4. CASE m = 0 /\ n # 0
  <2> DEFINE b == Base * 2 ^ (n - 1)
  <2>1. b \in Nat
    BY <1>2, <1>4
  <2>2. Throttle!Delay(m) = 0 /\ Throttle!Delay(n) = IF b < Longest THEN b ELSE Longest
    BY <1>4 DEF Throttle!Delay
  <2> HIDE DEF b
  <2>3. QED
    BY <2>1, <2>2, Times
<1>5. QED
  BY <1>1, <1>3, <1>4

\* The length of a sequence of times.
LEMMA LengthType ==
  ASSUME NEW s \in Seq(Nat)
  PROVE  Len(s) \in Nat /\ (s = <<>> <=> Len(s) = 0)
OBVIOUS

\* Who has waited for as long as Delay says is far enough from the last one.
LEMMA DelayIsFar ==
  ASSUME NEW n \in Nat \ {0}, NEW seconds \in Int, seconds >= Throttle!Delay(n)
  PROVE  FarEnough(n, seconds)
<1>1. Throttle!Delay(n) \in {Base * 2 ^ (n - 1), Longest}
  BY DEF Throttle!Delay
<1>2. QED
  BY <1>1 DEF FarEnough

\* Allowed requests are far enough apart, and the cached pair knows the last one
\* and counts at least those.
Spaced ==
  \A n \in 1 .. Len(grants) - 1 : FarEnough(n, grants[n + 1] - grants[n])

Remembered ==
  grants # <<>> =>
    /\ clock < entry.until
    /\ entry.last = grants[Len(grants)] /\ Len(grants) <= entry.count

\* What a request that is inside has read: the clock after the last request was
\* allowed; and, before it writes, a pair that allows it.
HasRead(r) ==
  /\ treq[r].wait <= Longest
  /\ treq[r].pc = "read entry" => entry.last <= treq[r].now
  /\ treq[r].pc \in {"read entry", "write"} => treq[r].now <= clock
  /\ treq[r].pc = "write" /\ grants # <<>> =>
       /\ treq[r].now - grants[Len(grants)] >= Throttle!Delay(Len(grants))
       /\ Len(grants) <= treq[r].count

\* The inductive invariant, together with that of the lock.
BackoffInv ==
  ~ late =>
    /\ Spaced /\ Remembered /\ entry.last <= clock
    /\ \A r \in Requests : HasRead(r)

\* A step that leaves the clock, the pair and the requests allowed to what they
\* are has to answer for its own request only.
LEMMA OwnStep ==
  ASSUME BackoffInv, ~ late, UNCHANGED <<clock, entry, grants, late>>,
         NEW r \in Requests, \A s \in Requests : s # r => treq'[s] = treq[s],
         HasRead(r)'
  PROVE  BackoffInv'
BY DEF BackoffInv, Spaced, Remembered, HasRead

\* A pair that is read allows what it promises.
LEMMA ReadingAllows ==
  ASSUME LockInv, BackoffInv, ~ late, NEW r \in Requests, Throttle!ReadEntry(r)
  PROVE  BackoffInv'
<1> DEFINE cached == Throttle!Cached
           remaining == cached.last + Throttle!Delay(cached.count) - treq[r].now
           new == [treq[r] EXCEPT !.count = cached.count,
                     !.wait = Throttle!WaitFor(remaining),
                     !.pc = IF remaining > 0 THEN "unlock" ELSE "write"]
<1>1. /\ treq \in [Requests -> ReqState] /\ clock \in Nat /\ grants \in Seq(Nat)
      /\ entry \in [count : Nat, last : Nat, until : Nat]
      /\ treq[r].pc = "read entry" /\ treq[r] \in ReqState
  BY DEF LockInv, LockType, Throttle!ReadEntry, Throttle!At
<1>2. /\ cached \in [count : Nat, last : Nat, until : Nat]
      /\ cached.last <= treq[r].now /\ treq[r].now \in Nat /\ treq[r].now <= clock
      /\ grants # <<>> => /\ cached.last = grants[Len(grants)]
                          /\ Len(grants) <= cached.count
  <2>1. /\ entry.last <= treq[r].now /\ treq[r].now \in Nat /\ treq[r].now <= clock
        /\ grants # <<>> => /\ clock < entry.until /\ entry.last = grants[Len(grants)]
                            /\ Len(grants) <= entry.count
    BY <1>1 DEF BackoffInv, Remembered, HasRead, ReqState
  <2>2. CASE clock < entry.until
    <3>1. cached = entry
      BY <2>2 DEF Throttle!Cached
    <3> HIDE DEF cached
    <3>2. QED
      BY <1>1, <2>1, <3>1
  <2>3. CASE ~ (clock < entry.until)
    <3>1. cached = [count |-> 0, last |-> 0, until |-> 0]
      BY <2>3 DEF Throttle!Cached, Throttle!NoEntry
    <3> HIDE DEF cached
    <3>2. /\ cached \in [count : Nat, last : Nat, until : Nat]
          /\ cached.last = 0
      BY <3>1
    <3>3. grants = <<>>
      BY <2>1, <2>3
    <3>4. cached.last <= treq[r].now
      BY <2>1, <3>2
    <3>5. QED
      BY <2>1, <3>2, <3>3, <3>4, Zenon
  <2>4. QED
    BY <2>2, <2>3
<1>3. treq' = [treq EXCEPT ![r] = new] /\ UNCHANGED <<clock, entry, grants, late>>
  BY DEF Throttle!ReadEntry
<1>4. treq'[r] = new /\ \A s \in Requests : s # r => treq'[s] = treq[s]
  BY <1>1, <1>3
<1>5. /\ new.count = cached.count /\ new.wait = Throttle!WaitFor(remaining)
      /\ new.now = treq[r].now
      /\ new.pc = IF remaining > 0 THEN "unlock" ELSE "write"
  BY <1>1 DEF ReqState
<1> HIDE DEF cached
<1>6. Throttle!Delay(cached.count) \in Int /\ Throttle!Delay(cached.count) <= Longest
  BY <1>2, DelayGrows
<1>7. new.wait <= Longest
  BY <1>2, <1>5, <1>6, Times DEF Throttle!WaitFor
<1>8. ASSUME new.pc = "write", grants # <<>>
      PROVE  /\ new.now - grants[Len(grants)] >= Throttle!Delay(Len(grants))
             /\ Len(grants) <= new.count
  <2>1. remaining \in Int /\ remaining <= 0
    BY <1>2, <1>5, <1>6, <1>8
  <2>2. /\ Len(grants) \in Nat /\ Len(grants) <= cached.count
        /\ cached.last = grants[Len(grants)]
    <3>1. Len(grants) \in Nat
      BY <1>1, LengthType
    <3>2. QED
      BY <1>2, <1>8, <3>1
  <2>3. /\ Throttle!Delay(Len(grants)) \in Int
        /\ Throttle!Delay(Len(grants)) <= Throttle!Delay(cached.count)
    BY <1>2, <2>2, DelayGrows
  <2>4. treq[r].now - cached.last >= Throttle!Delay(cached.count)
    BY <1>2, <1>6, <2>1
  <2>5. QED
    BY <1>2, <1>5, <1>6, <2>2, <2>3, <2>4
<1> HIDE DEF new
<1>9. HasRead(r)'
  <2>1. new.pc \in {"unlock", "write"}
    BY <1>5
  <2>2. QED
    BY <1>2, <1>3, <1>4, <1>5, <1>7, <1>8, <2>1 DEF HasRead
<1>10. QED
  BY <1>3, <1>4, <1>9, OwnStep

\* Who writes is alone inside, and writes what later requests have to wait for.
LEMMA WritingRemembers ==
  ASSUME LockInv, BackoffInv, ~ late, NEW r \in Requests, Throttle!Write(r)
  PROVE  BackoffInv'
<1>1. /\ treq \in [Requests -> ReqState] /\ clock \in Nat /\ grants \in Seq(Nat)
      /\ treq[r].pc = "write" /\ treq[r].now \in Nat /\ treq[r].count \in Nat
      /\ treq[r].now <= clock
  BY DEF LockInv, LockType, Throttle!Write, Throttle!At, ReqState, BackoffInv, HasRead
<1>2. /\ entry' = [count |-> treq[r].count + 1, last |-> treq[r].now, until |-> clock + Reset]
      /\ grants' = Append(grants, treq[r].now) /\ UNCHANGED <<clock, late>>
      /\ treq' = [treq EXCEPT ![r] = [treq[r] EXCEPT !.pc = "unlock"]]
  BY DEF Throttle!Write, Throttle!Counted
<1>3. \A s \in Requests : s # r => treq[s].pc = "out"
  BY <1>1 DEF LockInv, Throttle!MutualExclusion, Throttle!Inside, Throttle!At
<1> DEFINE G == Len(grants)
<1> G \in Nat
  BY <1>1, LengthType
<1>4. /\ G \in Nat /\ grants \in [1 .. G -> Nat]
      /\ Len(grants') = G + 1 /\ grants'[G + 1] = treq[r].now
      /\ \A n \in 1 .. G : grants'[n] = grants[n]
      /\ grants' # <<>> /\ (grants = <<>> <=> G = 0)
  BY <1>1, <1>2
<1>5. G # 0 => treq[r].now - grants[G] >= Throttle!Delay(G) /\ G <= treq[r].count
  BY <1>1, <1>4 DEF BackoffInv, HasRead
<1>6. Spaced'
  <2>1. ASSUME NEW n \in 1 .. G
        PROVE  FarEnough(n, grants'[n + 1] - grants'[n])
    <3>1. CASE n = G
      BY <1>1, <1>4, <1>5, <3>1, DelayIsFar
    <3>2. CASE n # G
      <4>1. n \in 1 .. G - 1 /\ n + 1 \in 1 .. G
        <5> HIDE DEF G
        <5>1. n \in 1 .. G /\ n # G
          BY <2>1, <3>2
        <5>2. QED
          BY <5>1
      <4>2. QED
        BY <1>4, <4>1 DEF BackoffInv, Spaced
    <3>3. QED
      BY <3>1, <3>2
  <2>2. Len(grants') - 1 = G
    BY <1>4
  <2>3. QED
    BY <1>4, <2>1, <2>2 DEF Spaced, FarEnough
<1>7. Remembered' /\ entry'.last <= clock'
  BY <1>1, <1>2, <1>4, <1>5, Times DEF Remembered
<1>8. ASSUME NEW s \in Requests PROVE HasRead(s)'
  <2>1. treq'[s].pc \in {"out", "unlock"} /\ treq'[s].wait = treq[s].wait
    BY <1>1, <1>2, <1>3 DEF ReqState
  <2>2. QED
    BY <2>1 DEF HasRead, BackoffInv
<1>9. QED
  BY <1>6, <1>7, <1>8 DEF BackoffInv

\* BackoffInv is inductive, given the lock.
LEMMA BackoffStep ==
  ASSUME LockInv, BackoffInv, [Throttle!Next]_(Throttle!vars)
  PROVE  BackoffInv'
<1>1. CASE late'
  BY <1>1 DEF BackoffInv
<1>2. ASSUME NEW r \in Requests, Throttle!Serve(r), ~ late'
      PROVE  BackoffInv'
  <2> late' = late
    BY <1>2
         DEF Throttle!Serve, Throttle!Acquire, Throttle!ReadClock, Throttle!ReadEntry,
       Throttle!Write, Throttle!Unlock, Throttle!Dies
  <2>1. treq \in [Requests -> ReqState] /\ clock \in Nat /\ ~ late
    BY <1>2 DEF LockInv, LockType
  <2>2. CASE Throttle!Acquire(r) \/ Throttle!Unlock(r) \/ Throttle!Dies(r)
    <3> DEFINE reading == [Throttle!Out EXCEPT !.pc = "read clock"]
    <3>1. /\ UNCHANGED <<clock, entry, grants, late>>
          /\ \/ treq' = [treq EXCEPT ![r] = Throttle!Out]
             \/ treq' = [treq EXCEPT ![r] = reading]
      BY <2>2 DEF Throttle!Acquire, Throttle!Unlock, Throttle!Dies
    <3>2. /\ Throttle!Out.pc = "out" /\ Throttle!Out.wait = 0
          /\ reading.pc = "read clock" /\ reading.wait = 0
      BY DEF Throttle!Out
    <3> HIDE DEF reading
    <3>3. /\ treq'[r].pc \in {"out", "read clock"} /\ treq'[r].wait = 0
          /\ \A s \in Requests : s # r => treq'[s] = treq[s]
      BY <2>1, <3>1, <3>2
    <3>4. HasRead(r)'
      <4>1. treq'[r].pc # "read entry" /\ treq'[r].pc # "write"
        BY <3>3
      <4>2. treq'[r].wait = 0
        BY <3>3
      <4>3. 0 <= Longest
        BY Times
      <4>4. treq'[r].wait <= Longest
        BY <4>2, <4>3
      <4>5. QED
        BY <4>1, <4>4, Zenon DEF HasRead
    <3>5. QED
      BY <2>1, <3>1, <3>3, <3>4, OwnStep
  <2>3. CASE Throttle!ReadClock(r)
    <3>1. /\ UNCHANGED <<clock, entry, grants, late>>
          /\ treq' = [treq EXCEPT ![r] =
                        [treq[r] EXCEPT !.pc = "read entry", !.now = clock]]
      BY <2>3 DEF Throttle!ReadClock
    <3>2. /\ treq'[r].pc = "read entry" /\ treq'[r].now = clock
          /\ treq'[r].wait = treq[r].wait
          /\ \A s \in Requests : s # r => treq'[s] = treq[s]
      BY <2>1, <3>1 DEF ReqState
    <3>3. HasRead(r)'
      <4>1. entry.last <= clock /\ treq[r].wait <= Longest
        BY <2>1 DEF HasRead, BackoffInv
      <4>2. clock <= clock
        BY <2>1
      <4>3. /\ treq'[r].wait <= Longest /\ entry'.last <= treq'[r].now
            /\ treq'[r].now <= clock' /\ treq'[r].pc # "write"
        BY <3>1, <3>2, <4>1, <4>2
      <4>4. QED
        BY <4>3, Zenon DEF HasRead
    <3>4. QED
      BY <2>1, <3>1, <3>2, <3>3, OwnStep
  <2>4. QED
    BY <1>2, <2>1, <2>2, <2>3, ReadingAllows, WritingRemembers DEF Throttle!Serve
<1>3. CASE Throttle!Clear
  <2>1. /\ entry' = [count |-> 0, last |-> 0, until |-> 0] /\ grants' = <<>>
        /\ UNCHANGED <<clock, treq, late>>
    BY <1>3 DEF Throttle!Clear, Throttle!NoEntry
  <2>2. treq \in [Requests -> ReqState] /\ clock \in Nat
    BY DEF LockInv, LockType
  <2>3. Spaced' /\ Remembered' /\ entry'.last <= clock'
    BY <2>1, <2>2 DEF Spaced, Remembered
  <2>4. ASSUME ~ late, NEW r \in Requests PROVE HasRead(r)'
    <3>1. HasRead(r) /\ treq[r].now \in Nat
      BY <2>2, <2>4 DEF BackoffInv, ReqState
    <3>2. treq' = treq /\ grants' = <<>> /\ clock' = clock
      BY <2>1
    <3>3. entry'.last <= treq[r].now
      BY <2>1, <3>1
    <3>4. /\ treq[r].wait <= Longest
          /\ treq[r].pc \in {"read entry", "write"} => treq[r].now <= clock
      BY <3>1 DEF HasRead
    <3>5. QED
      BY <3>2, <3>3, <3>4 DEF HasRead
  <2>5. QED
    BY <2>1, <2>3, <2>4 DEF BackoffInv
<1>4. CASE Throttle!Tick
  <2>1. /\ clock' = clock + 1 /\ UNCHANGED <<entry, treq>> /\ clock \in Nat
        /\ treq \in [Requests -> ReqState] /\ entry \in [count : Nat, last : Nat, until : Nat]
        /\ grants' = (IF entry.until = clock + 1 THEN <<>> ELSE grants)
        /\ ~ late' => ~ late
    BY <1>4 DEF Throttle!Tick, LockInv, LockType
  <2> SUFFICES ASSUME ~ late
               PROVE  /\ Spaced' /\ Remembered' /\ entry'.last <= clock'
                      /\ \A r \in Requests : HasRead(r)'
    BY <2>1 DEF BackoffInv
  <2>2. entry'.last <= clock'
    BY <2>1 DEF BackoffInv
  <2>3. Spaced' /\ Remembered'
    <3>1. CASE entry.until = clock + 1
      <4>1. grants' = <<>>
        BY <2>1, <3>1
      <4>2. QED
        BY <4>1 DEF Spaced, Remembered
    <3>2. CASE entry.until # clock + 1
      <4>1. grants' = grants
        BY <2>1, <3>2
      <4>2. QED
        BY <2>1, <3>2, <4>1 DEF BackoffInv, Spaced, Remembered
    <3>3. QED
      BY <3>1, <3>2
  <2>4. ASSUME NEW r \in Requests PROVE HasRead(r)'
    <3>1. HasRead(r) /\ treq[r].now \in Nat /\ grants' \in {<<>>, grants}
      BY <2>1 DEF BackoffInv, ReqState
    <3>2. treq[r].now <= clock => treq[r].now <= clock'
      BY <2>1, <3>1
    <3>3. treq' = treq /\ entry' = entry
      BY <2>1
    <3>4. grants' # <<>> => grants' = grants
      BY <3>1
    <3>5. /\ treq[r].wait <= Longest
          /\ treq[r].pc = "read entry" => entry.last <= treq[r].now
          /\ treq[r].pc \in {"read entry", "write"} => treq[r].now <= clock'
      BY <3>1, <3>2 DEF HasRead
    <3>6. /\ treq[r].pc = "write" /\ grants' # <<>> =>
               /\ treq[r].now - grants'[Len(grants')] >= Throttle!Delay(Len(grants'))
               /\ Len(grants') <= treq[r].count
      BY <3>1, <3>4 DEF HasRead
    <3>7. QED
      BY <3>3, <3>5, <3>6 DEF HasRead
  <2>5. QED
    BY <2>2, <2>3, <2>4
<1>5. CASE UNCHANGED Throttle!vars
  BY <1>5 DEF Throttle!vars, BackoffInv, Spaced, Remembered, HasRead
<1>6. QED
  BY <1>1, <1>2, <1>3, <1>4, <1>5 DEF Throttle!Next

\* The promise follows.
LEMMA BackoffFollows == LockInv /\ BackoffInv => Throttle!BackoffKept
<1> SUFFICES ASSUME LockInv, BackoffInv, ~ late
             PROVE  /\ Spaced
                    /\ Len(grants) <= Throttle!Cached.count
                    /\ \A r \in Requests : treq[r].wait <= Longest
  BY DEF Throttle!BackoffKept, Spaced, FarEnough
<1>1. entry \in [count : Nat, last : Nat, until : Nat] /\ grants \in Seq(Nat)
  BY DEF LockInv, LockType
<1>2. Len(grants) <= Throttle!Cached.count
  BY <1>1 DEF BackoffInv, Remembered, Throttle!Cached, Throttle!NoEntry
<1>3. QED
  BY <1>2 DEF BackoffInv, HasRead

\* Both invariants hold at first.
LEMMA BackoffInit == Throttle!Init => LockInv /\ BackoffInv
<1> SUFFICES ASSUME Throttle!Init PROVE LockInv /\ BackoffInv
  OBVIOUS
<1>1. LockType
  BY InitType
<1>2. /\ \A r \in Requests : treq[r] = Throttle!Out
      /\ clock = 0 /\ entry = Throttle!NoEntry /\ grants = <<>>
  BY DEF Throttle!Init
<1>3. Throttle!Out.pc = "out" /\ Throttle!Out.wait = 0 /\ Throttle!NoEntry.last = 0
  BY DEF Throttle!Out, Throttle!NoEntry
<1>4. \A r \in Requests : ~ Throttle!Inside(r)
  BY <1>2, <1>3 DEF Throttle!Inside, Throttle!At
<1>5. \A r \in Requests : HasRead(r)
  <2> SUFFICES ASSUME NEW r \in Requests PROVE HasRead(r)
    OBVIOUS
  <2>1. treq[r].pc = "out" /\ treq[r].wait = 0
    BY <1>2, <1>3
  <2>2. treq[r].wait <= Longest
    BY <2>1, Times
  <2>3. treq[r].pc # "read entry" /\ treq[r].pc # "write"
    BY <2>1
  <2>4. QED
    BY <2>2, <2>3, Zenon DEF HasRead
<1>6. Spaced /\ Remembered /\ entry.last <= clock
  BY <1>2, <1>3 DEF Spaced, Remembered
<1>7. QED
  BY <1>1, <1>4, <1>5, <1>6 DEF LockInv, BackoffInv, Throttle!MutualExclusion

\* They are kept, and hold of every behaviour of the throttle.
LEMMA ThrottleInvariant == Throttle!Spec => [](LockInv /\ BackoffInv)
<1>1. LockInv /\ BackoffInv /\ [Throttle!Next]_(Throttle!vars) => (LockInv /\ BackoffInv)'
  BY LockTypeStep, LockStep, BackoffStep DEF LockInv
<1>2. QED
  BY <1>1, BackoffInit, PTL DEF Throttle!Spec

-----------------------------------------------------------------------------
(* A call of the AI layer *)

\* What the requests of a call came to: all of them failed, or all but one,
\* whose reply was malformed.
OnlyFailures(s) == \A i \in 1 .. Len(s) : Chain!Fails(s[i])

FailuresBut(s, k) ==
  /\ k \in 1 .. Len(s) /\ s[k] = "malformed"
  /\ \A i \in 1 .. Len(s) : i # k => Chain!Fails(s[i])

CallType ==
  /\ call \in Chain!Actions \cup {"none"} /\ result \in Chain!Results \cup {"none"}
  /\ step \in Nat /\ round \in {1, 2} /\ log \in Seq(Chain!Replies)

\* The position in the chain counts the requests of the round; a second round
\* follows a first one that ended with a malformed reply.
Progresses ==
  /\ call = "none" => result = "none" /\ log = <<>> /\ round = 1 /\ step = 1
  /\ call # "review" => round = 1
  /\ Chain!Running =>
       /\ step \in 1 .. Chain!Length[call]
       /\ round = 1 => Len(log) = step - 1 /\ OnlyFailures(log)
       /\ round = 2 => \E k \in 1 .. 3 : Len(log) = k + step - 1 /\ FailuresBut(log, k)

\* The inductive invariant.
CallInv == CallType /\ Progresses /\ Chain!ResultHasReason

\* How long the chains are.
LEMMA ChainLengths ==
  /\ \A action \in Chain!Actions : Chain!Length[action] \in {2, 3}
  /\ Chain!Length["review"] = 3 /\ "none" \notin Chain!Actions
BY DEF Chain!Length, Chain!Actions

\* One more reply.
LEMMA OneMore ==
  ASSUME NEW s \in Seq(Chain!Replies), NEW reply \in Chain!Replies
  PROVE  LET t == Append(s, reply)
         IN  /\ t \in Seq(Chain!Replies) /\ Len(t) = Len(s) + 1 /\ Len(s) \in Nat
             /\ t[Len(t)] = reply /\ DOMAIN t = 1 .. Len(t)
             /\ \A i \in 1 .. Len(s) : t[i] = s[i]
OBVIOUS

\* A failure more leaves what was known of the others.
LEMMA FailureMore ==
  ASSUME NEW s \in Seq(Chain!Replies), NEW reply \in Chain!Replies, Chain!Fails(reply)
  PROVE  /\ OnlyFailures(s) => OnlyFailures(Append(s, reply))
         /\ \A k \in 1 .. 3 : FailuresBut(s, k) => FailuresBut(Append(s, reply), k)
<1> DEFINE t == Append(s, reply)
<1>1. /\ Len(t) = Len(s) + 1 /\ Len(s) \in Nat /\ t[Len(t)] = reply
      /\ \A i \in 1 .. Len(s) : t[i] = s[i]
  BY OneMore
<1> HIDE DEF t
<1>2. \A i \in 1 .. Len(t) : i = Len(t) \/ i \in 1 .. Len(s)
  BY <1>1
<1>3. OnlyFailures(s) => OnlyFailures(t)
  BY <1>1, <1>2 DEF OnlyFailures
<1>4. ASSUME NEW k \in 1 .. 3, FailuresBut(s, k)
      PROVE  FailuresBut(t, k)
  <2>1. k \in 1 .. Len(s) /\ k \in 1 .. Len(t) /\ t[k] = "malformed"
    BY <1>1, <1>4 DEF FailuresBut
  <2>2. QED
    BY <1>1, <1>2, <1>4, <2>1 DEF FailuresBut
<1>5. QED
  BY <1>3, <1>4 DEF t

\* A malformed reply after failures is the only one that is not.
LEMMA FirstMalformed ==
  ASSUME NEW s \in Seq(Chain!Replies), OnlyFailures(s)
  PROVE  FailuresBut(Append(s, "malformed"), Len(s) + 1)
<1> DEFINE t == Append(s, "malformed")
<1>1. /\ Len(t) = Len(s) + 1 /\ Len(s) \in Nat /\ t[Len(t)] = "malformed"
      /\ \A i \in 1 .. Len(s) : t[i] = s[i]
  BY OneMore DEF Chain!Replies
<1> HIDE DEF t
<1>2. \A i \in 1 .. Len(t) : i # Len(t) => i \in 1 .. Len(s)
  BY <1>1
<1>3. FailuresBut(t, Len(s) + 1)
  BY <1>1, <1>2 DEF FailuresBut, OnlyFailures
<1>4. QED
  BY <1>3 DEF t

\* A request that fails hands over to the next provider, or ends the call for a
\* reason.
LEMMA FailedStep ==
  ASSUME CallInv, NEW reply \in Chain!Replies, Chain!Fails(reply), Chain!Running,
         Chain!Failed(reply)
  PROVE  CallInv'
<1>1. /\ log' = Append(log, reply) /\ UNCHANGED <<call, round>>
      /\ log \in Seq(Chain!Replies) /\ step \in Nat /\ call # "none" /\ result = "none"
      /\ call \in Chain!Actions /\ round \in {1, 2}
  BY DEF CallInv, CallType, Chain!Failed, Chain!Running
<1>2. /\ log' \in Seq(Chain!Replies) /\ Len(log') = Len(log) + 1 /\ Len(log) \in Nat
      /\ DOMAIN log' = 1 .. Len(log')
      /\ OnlyFailures(log) => OnlyFailures(log')
      /\ \A k \in 1 .. 3 : FailuresBut(log, k) => FailuresBut(log', k)
  BY <1>1, OneMore, FailureMore
<1>3. /\ step \in 1 .. Chain!Length[call] /\ Chain!Length[call] \in {2, 3}
      /\ round = 1 => Len(log) = step - 1 /\ OnlyFailures(log)
      /\ round = 2 => \E k \in 1 .. 3 : Len(log) = k + step - 1 /\ FailuresBut(log, k)
      /\ call # "review" => round = 1
      /\ Chain!Length["review"] = 3
  BY <1>1, ChainLengths DEF CallInv, Progresses
<1>4. /\ round = 1 => Len(log') = step /\ OnlyFailures(log')
      /\ round = 2 => \E k \in 1 .. 3 : Len(log') = k + step /\ FailuresBut(log', k)
  BY <1>1, <1>2, <1>3
<1>5. Len(log') <= 6
  BY <1>1, <1>3, <1>4
<1>6. CASE Chain!IsLast
  <2>1. result' = Chain!Exhausted /\ step' = step /\ step = Chain!Length[call]
    BY <1>6 DEF Chain!Failed, Chain!IsLast
  <2>2. CASE call = "review"
    <3>1. result' = "flagged"
      BY <2>1, <2>2 DEF Chain!Exhausted
    <3>2. Len(log') >= 3 /\ \A i \in Len(log') - 2 .. Len(log') : Chain!Fails(log'[i])
      <4>1. CASE round = 1
        BY <1>3, <1>4, <2>1, <2>2, <4>1 DEF OnlyFailures
      <4>2. CASE round = 2
        <5>1. PICK k \in 1 .. 3 : Len(log') = k + 3 /\ FailuresBut(log', k)
          BY <1>3, <1>4, <2>1, <2>2, <4>2
        <5>2. \A i \in Len(log') - 2 .. Len(log') : i \in 1 .. Len(log') /\ i # k
          BY <5>1
        <5>3. QED
          BY <5>1, <5>2 DEF FailuresBut
      <4>3. QED
        BY <1>1, <4>1, <4>2
    <3>3. Chain!ResultHasReason'
      BY <1>1, <1>3, <1>5, <2>2, <3>1, <3>2 DEF Chain!ResultHasReason
    <3>4. CallType' /\ Progresses'
      BY <1>1, <1>2, <1>3, <2>1, <2>2, <3>1
           DEF CallType, Progresses, Chain!Running, Chain!Results
    <3>5. QED
      BY <3>3, <3>4 DEF CallInv
  <2>3. CASE call # "review"
    <3>1. result' = "unavailable" /\ round = 1
      BY <1>3, <2>1, <2>3 DEF Chain!Exhausted
    <3>2. Chain!ResultHasReason'
      <4>1. Len(log') = Chain!Length[call] /\ \A i \in DOMAIN log' : Chain!Fails(log'[i])
        BY <1>2, <1>4, <2>1, <3>1 DEF OnlyFailures
      <4>2. QED
        BY <1>1, <1>3, <1>5, <2>3, <3>1, <4>1 DEF Chain!ResultHasReason
    <3>3. CallType' /\ Progresses'
      BY <1>1, <1>2, <1>3, <2>1, <2>3, <3>1
           DEF CallType, Progresses, Chain!Running, Chain!Results
    <3>4. QED
      BY <3>2, <3>3 DEF CallInv
  <2>4. QED
    BY <2>2, <2>3
<1>7. CASE ~ Chain!IsLast
  <2>1. result' = result /\ step' = step + 1 /\ step # Chain!Length[call]
    BY <1>7 DEF Chain!Failed, Chain!IsLast
  <2>2. step' \in 1 .. Chain!Length[call] /\ step' - 1 = step /\ step' \in Nat
    BY <1>1, <1>3, <2>1
  <2>3. Chain!ResultHasReason'
    BY <1>1, <1>3, <1>5, <2>1 DEF Chain!ResultHasReason
  <2>4. \A k \in 1 .. 3 : Len(log') = k + step => Len(log') = k + step' - 1
    BY <1>1, <2>1
  <2>5. Progresses'
    BY <1>1, <1>3, <1>4, <2>1, <2>2, <2>4 DEF Progresses, Chain!Running
  <2>6. CallType'
    BY <1>1, <1>2, <2>1, <2>2 DEF CallType
  <2>7. QED
    BY <2>3, <2>5, <2>6 DEF CallInv
<1>8. QED
  BY <1>6, <1>7

\* A malformed reply ends the call, but for the first one of a review.
LEMMA MalformedStep ==
  ASSUME CallInv, NEW reply \in Chain!Replies, Chain!Malformed(reply)
  PROVE  CallInv'
<1>1. /\ log' = Append(log, "malformed") /\ call' = call
      /\ log \in Seq(Chain!Replies) /\ step \in Nat /\ call # "none" /\ result = "none"
      /\ call \in Chain!Actions /\ round \in {1, 2} /\ Chain!Running
  BY DEF CallInv, CallType, Chain!Malformed, Chain!Running, Chain!Replies, Chain!Fails
<1>2. /\ log' \in Seq(Chain!Replies) /\ Len(log') = Len(log) + 1 /\ Len(log) \in Nat
      /\ DOMAIN log' = 1 .. Len(log') /\ log'[Len(log')] = "malformed"
      /\ \A i \in 1 .. Len(log) : log'[i] = log[i]
      /\ OnlyFailures(log) => FailuresBut(log', Len(log) + 1)
  BY <1>1, OneMore, FirstMalformed DEF Chain!Replies
<1>3. /\ step \in 1 .. Chain!Length[call] /\ Chain!Length[call] \in {2, 3}
      /\ round = 1 => Len(log) = step - 1 /\ OnlyFailures(log)
      /\ round = 2 => \E k \in 1 .. 3 : Len(log) = k + step - 1 /\ FailuresBut(log, k)
      /\ call # "review" => round = 1
      /\ Chain!Length["review"] = 3
  BY <1>1, ChainLengths DEF CallInv, Progresses
<1>4. Len(log') <= 6
  <2>1. CASE round = 1
    BY <1>2, <1>3, <2>1
  <2>2. CASE round = 2
    <3>1. PICK k \in 1 .. 3 : Len(log) = k + step - 1
      BY <1>3, <2>2
    <3>2. QED
      BY <1>2, <1>3, <3>1
  <2>3. QED
    BY <1>1, <2>1, <2>2
<1>5. CASE call = "review" /\ round = 1
  <2>1. round' = 2 /\ step' = 1 /\ result' = result
    BY <1>5 DEF Chain!Malformed, Chain!Rounds
  <2>2. Len(log) + 1 \in 1 .. 3 /\ Len(log') = (Len(log) + 1) + step' - 1
    BY <1>2, <1>3, <1>5, <2>1
  <2>3. FailuresBut(log', Len(log) + 1)
    BY <1>2, <1>3, <1>5
  <2>4. Progresses'
    BY <1>1, <1>3, <1>5, <2>1, <2>2, <2>3 DEF Progresses, Chain!Running
  <2>5. Chain!ResultHasReason' /\ CallType'
    BY <1>1, <1>2, <1>3, <1>4, <2>1 DEF Chain!ResultHasReason, CallType
  <2>6. QED
    BY <2>4, <2>5 DEF CallInv
<1>6. CASE call = "review" /\ round = 2
  <2>1. result' = "flagged" /\ UNCHANGED <<round, step>>
    BY <1>6 DEF Chain!Malformed, Chain!Rounds
  <2>2. PICK k \in 1 .. 3 : FailuresBut(log, k)
    BY <1>3, <1>6
  <2>3. /\ k \in DOMAIN log' /\ Len(log') \in DOMAIN log' /\ k # Len(log')
        /\ \A x \in DOMAIN log' : (log'[x] = "malformed" <=> x \in {k, Len(log')})
    <3>1. k \in 1 .. Len(log) /\ log[k] = "malformed"
          /\ \A i \in 1 .. Len(log) : i # k => log[i] # "malformed"
      BY <2>2 DEF FailuresBut, Chain!Fails
    <3>2. \A x \in DOMAIN log' : x = Len(log') \/ x \in 1 .. Len(log)
      BY <1>2
    <3>3. k \in DOMAIN log' /\ Len(log') \in DOMAIN log' /\ k # Len(log')
      BY <1>2, <3>1
    <3>4. QED
      BY <1>2, <3>1, <3>2, <3>3
  <2>4. Chain!ResultHasReason'
    <3>1. \E i, j \in DOMAIN log' :
            i # j /\ \A x \in DOMAIN log' : (log'[x] = "malformed" <=> x \in {i, j})
      BY <2>3
    <3>2. /\ call' = "review" /\ result' = "flagged"
          /\ Len(log') <= 2 * Chain!Length["review"]
      BY <1>1, <1>3, <1>4, <1>6, <2>1
    <3>3. QED
      BY <3>1, <3>2 DEF Chain!ResultHasReason
  <2>5. CallType' /\ Progresses'
    BY <1>1, <1>2, <1>6, <2>1 DEF CallType, Progresses, Chain!Running, Chain!Results
  <2>6. QED
    BY <2>4, <2>5 DEF CallInv
<1>7. CASE call # "review"
  <2>1. result' = "malformed" /\ UNCHANGED <<round, step>>
    BY <1>7 DEF Chain!Malformed
  <2>2. Chain!ResultHasReason'
    BY <1>1, <1>2, <1>3, <1>4, <1>7, <2>1 DEF Chain!ResultHasReason
  <2>3. CallType' /\ Progresses'
    BY <1>1, <1>2, <1>3, <1>7, <2>1
         DEF CallType, Progresses, Chain!Running, Chain!Results
  <2>4. QED
    BY <2>2, <2>3 DEF CallInv
<1>8. QED
  BY <1>1, <1>5, <1>6, <1>7

\* CallInv is inductive.
LEMMA CallStep ==
  ASSUME CallInv, [Chain!Next]_(Chain!vars)
  PROVE  CallInv'
<1>1. ASSUME NEW action \in Chain!Actions, Chain!Call(action)
      PROVE  CallInv'
  <2>1. /\ call' = action /\ UNCHANGED <<step, round, result, log>>
        /\ result = "none" /\ log = <<>> /\ round = 1 /\ step = 1
        /\ Chain!Length[action] \in {2, 3} /\ Chain!Length["review"] = 3
    BY <1>1, ChainLengths DEF Chain!Call, CallInv, Progresses
  <2>2. Len(log') = 0 /\ OnlyFailures(log')
    BY <2>1 DEF OnlyFailures
  <2>3. CallType' /\ Progresses'
    BY <1>1, <2>1, <2>2, ChainLengths DEF CallInv, CallType, Progresses, Chain!Running
  <2>4. Chain!ResultHasReason'
    BY <2>1, <2>2 DEF Chain!ResultHasReason
  <2>5. QED
    BY <2>3, <2>4 DEF CallInv
<1>2. ASSUME NEW reply \in Chain!Replies, Chain!TryNextProvider(reply)
      PROVE  CallInv'
  BY <1>2, FailedStep DEF Chain!TryNextProvider
<1>3. CASE Chain!TryAgain
  BY <1>3, FailedStep DEF Chain!TryAgain, Chain!Fails, Chain!Replies
<1>4. CASE Chain!Answer
  <2>1. /\ log' = Append(log, "reply") /\ result' = "answer"
        /\ UNCHANGED <<call, step, round>> /\ CallType /\ Progresses /\ Chain!Running
    BY <1>4 DEF Chain!Answer, CallInv
  <2>2. /\ log' \in Seq(Chain!Replies) /\ Len(log') = Len(log) + 1 /\ Len(log) \in Nat
        /\ log'[Len(log')] = "reply"
    BY <2>1, OneMore DEF CallType, Chain!Replies
  <2>3. Len(log') <= 6
    <3>1. call \in Chain!Actions /\ Chain!Length[call] \in {2, 3}
      BY <2>1, ChainLengths DEF CallType, Chain!Running
    <3>2. QED
      BY <2>1, <2>2, <3>1 DEF Progresses, CallType
  <2>4. Chain!ResultHasReason'
    BY <2>1, <2>2, <2>3, ChainLengths DEF Chain!ResultHasReason
  <2>5. CallType' /\ Progresses'
    BY <2>1, <2>2 DEF CallType, Progresses, Chain!Running, Chain!Results
  <2>6. QED
    BY <2>4, <2>5 DEF CallInv
<1>5. ASSUME NEW reply \in Chain!Replies, Chain!Malformed(reply)
      PROVE  CallInv'
  BY <1>5, MalformedStep
<1>6. CASE Chain!Return
  <2>1. call' = "none" /\ step' = 1 /\ round' = 1 /\ result' = "none" /\ log' = <<>>
    BY <1>6 DEF Chain!Return
  <2>2. QED
    BY <2>1, ChainLengths
         DEF CallInv, CallType, Progresses, Chain!ResultHasReason, Chain!Running
<1>7. CASE UNCHANGED Chain!vars
  BY <1>7
       DEF Chain!vars, CallInv, CallType, Progresses, Chain!ResultHasReason,
           Chain!Running
<1>8. QED
  BY <1>1, <1>2, <1>3, <1>4, <1>5, <1>6, <1>7 DEF Chain!Next

\* It holds before the first call.
LEMMA CallInit == Chain!Init => CallInv
<1> SUFFICES ASSUME Chain!Init PROVE CallInv
  OBVIOUS
<1>1. call = "none" /\ step = 1 /\ round = 1 /\ result = "none" /\ log = <<>>
  BY DEF Chain!Init
<1>2. QED
  BY <1>1, ChainLengths
       DEF CallInv, CallType, Progresses, Chain!ResultHasReason, Chain!Running

\* It holds of every behaviour of the calls.
LEMMA CallInvariant == Chain!Spec => []CallInv
<1>1. QED
  BY CallInit, CallStep, PTL DEF Chain!Spec

-----------------------------------------------------------------------------
(* Events and the pages that follow them *)

Publication ==
  [pc : {"idle", "read", "send"}, read : Events!Statuses, left : SUBSET Learners]

EventType ==
  /\ status \in Events!Statuses /\ enrolled \in SUBSET Learners
  /\ missed \in SUBSET Learners /\ silent \in BOOLEAN
  /\ page \in [Learners -> Events!Statuses \cup {Events!Closed}]
  /\ pub \in [Requests -> Publication]

\* Somebody will still send the status to l.
WillHear(l) ==
  \E p \in Requests :
    \/ pub[p].pc = "read"
    \/ pub[p].pc = "send" /\ l \in pub[p].left

\* Whatever is being sent is the status, and a page that shows another one will
\* hear of it.
Follows(l) ==
  /\ \A p \in Requests : pub[p].pc = "send" => pub[p].read = status
  /\ page[l] # Events!Closed /\ page[l] # status => WillHear(l)

\* Outcomes are published, pages are those of enrolled learners, and the pages
\* of those who have missed nothing follow the status, unless the last write was
\* a silent one: then they follow it again after the next publication.
EventInv ==
  /\ EventType
  /\ status \in Events!Outcomes => ~ silent
  /\ \A l \in Learners : page[l] # Events!Closed => l \in enrolled
  /\ ~ silent => \A l \in Learners \ missed : Follows(l)

\* After a silent write nothing is claimed of any page.
LEMMA SilentStep ==
  ASSUME EventInv, Events!Claim \/ Events!PutBack
  PROVE  EventInv'
<1>1. /\ status' \in {"GENERATING", "NOT_GENERATED"} /\ silent' = TRUE
      /\ UNCHANGED <<enrolled, page, pub, missed>>
  BY DEF Events!Claim, Events!PutBack
<1>2. status' \in Events!Statuses /\ status' \notin Events!Outcomes
  BY <1>1 DEF Events!Statuses, Events!Outcomes
<1>3. EventType'
  BY <1>1, <1>2 DEF EventInv, EventType
<1>4. \A l \in Learners : page'[l] # Events!Closed => l \in enrolled'
  BY <1>1 DEF EventInv, Events!Closed
<1>5. QED
  BY <1>1, <1>2, <1>3, <1>4 DEF EventInv

\* A publisher alone when it changes the status, or one of several; in that case
\* everybody may have missed something.
LEMMA ChangeStep ==
  ASSUME EventInv, NEW p \in Requests, Events!Change(p)
  PROVE  EventInv'
<1>1. /\ status' \in Events!Published /\ silent' = FALSE
      /\ pub' = [pub EXCEPT ![p] = [pub[p] EXCEPT !.pc = "read"]]
      /\ UNCHANGED <<enrolled, page>>
      /\ missed' = IF Events!Busy = {} THEN {} ELSE Learners
  BY DEF Events!Change
<1>2. EventType /\ pub[p] \in Publication
  BY DEF EventInv, EventType
<1>3. EventType'
  <2>1. [pub[p] EXCEPT !.pc = "read"] \in Publication
    BY <1>2 DEF Publication
  <2>2. status' \in Events!Statuses
    BY <1>1 DEF Events!Published, Events!Outcomes, Events!Statuses
  <2>3. QED
    BY <1>1, <1>2, <2>1, <2>2 DEF EventType
<1>4. \A l \in Learners : page'[l] # Events!Closed => l \in enrolled'
  BY <1>1 DEF EventInv, Events!Closed
<1>5. ASSUME NEW l \in Learners \ missed'
      PROVE  Follows(l)'
  <2>1. Events!Busy = {}
    BY <1>1, <1>5
  <2>2. \A q \in Requests : pub[q].pc = "idle"
    BY <2>1 DEF Events!Busy, Events!At
  <2>3. pub'[p].pc = "read" /\ \A q \in Requests : q # p => pub'[q] = pub[q]
    BY <1>1, <1>2 DEF EventType, Publication
  <2>4. \A q \in Requests : pub'[q].pc # "send"
    BY <2>2, <2>3
  <2>5. WillHear(l)'
    BY <2>3 DEF WillHear
  <2>6. QED
    BY <2>4, <2>5 DEF Follows
<1>6. QED
  BY <1>1, <1>3, <1>4, <1>5 DEF EventInv

\* What a publisher sends is the status as it reads it, to all who have a page.
LEMMA ReadStatusStep ==
  ASSUME EventInv, NEW p \in Requests, Events!ReadStatus(p)
  PROVE  EventInv'
<1> DEFINE new == [pc |-> "send", read |-> status, left |-> enrolled]
<1>1. pub' = [pub EXCEPT ![p] = new] /\ UNCHANGED <<status, enrolled, page, silent, missed>>
  BY DEF Events!ReadStatus, Events!Current
<1>2. EventType /\ new \in Publication
  BY DEF EventInv, EventType, Publication
<1>3. EventType'
  BY <1>1, <1>2 DEF EventType
<1>4. /\ pub'[p].pc = "send" /\ pub'[p].read = status /\ pub'[p].left = enrolled
      /\ \A q \in Requests : q # p => pub'[q] = pub[q]
  BY <1>1, <1>2 DEF EventType
<1>5. ASSUME ~ silent, NEW l \in Learners \ missed'
      PROVE  Follows(l)'
  <2>1. Follows(l) /\ (page[l] # Events!Closed => l \in enrolled)
    BY <1>1, <1>5 DEF EventInv
  <2>2. \A q \in Requests : pub'[q].pc = "send" => pub'[q].read = status'
    BY <1>1, <1>4, <2>1 DEF Follows
  <2>3. l \in enrolled => WillHear(l)'
    BY <1>4 DEF WillHear
  <2>4. QED
    BY <1>1, <2>1, <2>2, <2>3 DEF Follows
<1>6. QED
  BY <1>1, <1>3, <1>5 DEF EventInv

\* An event arrives and shows the status, or its learner misses it.
LEMMA SendStep ==
  ASSUME EventInv, NEW p \in Requests, NEW l \in Learners, Events!Send(p, l)
  PROVE  EventInv'
<1>1. /\ pub' = [pub EXCEPT ![p] = [pub[p] EXCEPT !.left = pub[p].left \ {l}]]
      /\ pub[p].pc = "send" /\ l \in pub[p].left /\ UNCHANGED <<status, enrolled, silent>>
      /\ \/ /\ page' = IF page[l] = Events!Closed THEN page
                       ELSE [page EXCEPT ![l] = pub[p].read]
            /\ missed' = missed
         \/ missed' = missed \cup {l} /\ page' = page
  BY DEF Events!Send, Events!At
<1>2. EventType /\ pub[p] \in Publication
  BY DEF EventInv, EventType
<1>3. [pub[p] EXCEPT !.left = pub[p].left \ {l}] \in Publication
  BY <1>2 DEF Publication
<1>4. EventType'
  <2>1. pub' \in [Requests -> Publication]
    BY <1>1, <1>2, <1>3 DEF EventType
  <2>2. page' \in [Learners -> Events!Statuses \cup {Events!Closed}]
    BY <1>1, <1>2 DEF EventType, Publication
  <2>3. QED
    BY <1>1, <1>2, <2>1, <2>2 DEF EventType
<1>5. /\ pub'[p].pc = "send" /\ pub'[p].read = pub[p].read
      /\ pub'[p].left = pub[p].left \ {l}
      /\ \A q \in Requests : q # p => pub'[q] = pub[q]
  BY <1>1, <1>2 DEF EventType, Publication
<1>6. \A x \in Learners : /\ x # l => page'[x] = page[x]
                          /\ page[x] = Events!Closed => page'[x] = Events!Closed
  BY <1>1, <1>2 DEF EventType
<1>7. \A x \in Learners : page'[x] # Events!Closed => x \in enrolled'
  BY <1>1, <1>6 DEF EventInv
<1>8. ASSUME ~ silent, NEW x \in Learners \ missed'
      PROVE  Follows(x)'
  <2>1. Follows(x) /\ x \notin missed
    BY <1>1, <1>8 DEF EventInv
  <2>2. \A q \in Requests : pub'[q].pc = "send" => pub'[q].read = status'
    BY <1>1, <1>5, <2>1 DEF Follows
  <2>3. CASE x = l
    <3>1. missed' = missed /\ pub[p].read = status
      BY <1>1, <1>8, <2>1, <2>3 DEF Follows
    <3>2. page'[l] \in {Events!Closed, status'}
      BY <1>1, <1>2, <2>3, <3>1, <1>8 DEF EventType
    <3>3. QED
      BY <2>2, <2>3, <3>2 DEF Follows
  <2>4. CASE x # l
    <3>1. WillHear(x) => WillHear(x)'
      <4>1. ASSUME NEW q \in Requests,
                   pub[q].pc = "read" \/ (pub[q].pc = "send" /\ x \in pub[q].left)
            PROVE  pub'[q].pc = "read" \/ (pub'[q].pc = "send" /\ x \in pub'[q].left)
        <5>1. CASE q = p
          BY <1>1, <1>5, <2>4, <4>1, <5>1
        <5>2. CASE q # p
          BY <1>5, <4>1, <5>2
        <5>3. QED
          BY <5>1, <5>2
      <4>2. QED
        BY <4>1 DEF WillHear
    <3>2. page'[x] = page[x] /\ status' = status
      BY <1>1, <1>6, <2>4
    <3>3. QED
      BY <2>1, <2>2, <3>1, <3>2 DEF Follows
  <2>5. QED
    BY <2>3, <2>4
<1>9. QED
  BY <1>1, <1>4, <1>7, <1>8 DEF EventInv

\* A publisher is done when it has sent to everybody.
LEMMA SentStep ==
  ASSUME EventInv, NEW p \in Requests, Events!Sent(p)
  PROVE  EventInv'
<1>1. /\ pub' = [pub EXCEPT ![p] = Events!Rest] /\ pub[p].left = {}
      /\ pub[p].pc = "send" /\ UNCHANGED <<status, enrolled, page, silent, missed>>
  BY DEF Events!Sent, Events!At
<1>2. EventType /\ Events!Rest \in Publication /\ Events!Rest.pc = "idle"
  BY DEF EventInv, Publication, Events!Rest, Events!Statuses
<1>3. EventType'
  BY <1>1, <1>2 DEF EventType
<1>4. pub'[p].pc = "idle" /\ \A q \in Requests : q # p => pub'[q] = pub[q]
  BY <1>1, <1>2 DEF EventType
<1>5. ASSUME ~ silent, NEW l \in Learners \ missed'
      PROVE  Follows(l)'
  <2>1. Follows(l)
    BY <1>1, <1>5 DEF EventInv
  <2>2. WillHear(l) => WillHear(l)'
    BY <1>1, <1>4 DEF WillHear
  <2>3. \A q \in Requests : pub'[q].pc = "send" => pub'[q].read = status'
    BY <1>1, <1>4, <2>1 DEF Follows
  <2>4. QED
    BY <1>1, <2>1, <2>2, <2>3 DEF Follows
<1>6. QED
  BY <1>1, <1>3, <1>5 DEF EventInv

\* A page that is opened shows the status, unless an older one is on its way.
LEMMA OpenPageStep ==
  ASSUME EventInv, NEW l \in Learners, Events!OpenPage(l)
  PROVE  EventInv'
<1>1. /\ l \in enrolled /\ page' = [page EXCEPT ![l] = status]
      /\ UNCHANGED <<status, enrolled, pub, silent>>
      /\ missed' = IF \E p \in Events!Busy : Events!At(p, "send") /\ pub[p].read # status
                   THEN missed \cup {l} ELSE missed \ {l}
  BY DEF Events!OpenPage
<1>2. EventType
  BY DEF EventInv
<1>3. EventType'
  BY <1>1, <1>2 DEF EventType
<1>4. page'[l] = status /\ \A x \in Learners : x # l => page'[x] = page[x]
  BY <1>1, <1>2 DEF EventType
<1>5. \A x \in Learners : page'[x] # Events!Closed => x \in enrolled'
  BY <1>1, <1>4 DEF EventInv
<1>6. ASSUME ~ silent, NEW x \in Learners \ missed'
      PROVE  Follows(x)'
  <2>1. CASE x = l
    <3>1. ~ \E p \in Events!Busy : Events!At(p, "send") /\ pub[p].read # status
      BY <1>1, <1>6, <2>1
    <3>2. \A p \in Requests : pub[p].pc = "send" => pub[p].read = status
      BY <3>1 DEF Events!Busy, Events!At
    <3>3. QED
      BY <1>1, <1>4, <2>1, <3>2 DEF Follows
  <2>2. CASE x # l
    <3>1. Follows(x)
      BY <1>1, <1>6, <2>2 DEF EventInv
    <3>2. QED
      BY <1>1, <1>4, <1>6, <2>2, <3>1 DEF Follows, WillHear
  <2>3. QED
    BY <2>1, <2>2
<1>7. QED
  BY <1>1, <1>3, <1>5, <1>6 DEF EventInv

\* Who dies leaves those to whom nothing is sent any more without the event.
LEMMA DiesStep ==
  ASSUME EventInv, NEW p \in Requests, Events!Dies(p)
  PROVE  EventInv'
<1>1. /\ pub' = [pub EXCEPT ![p] = Events!Rest] /\ pub[p].pc # "idle"
      /\ UNCHANGED <<status, enrolled, page, silent>>
      /\ missed' = IF pub[p].pc = "read" THEN Learners ELSE missed \cup pub[p].left
  BY DEF Events!Dies, Events!At
<1>2. EventType /\ pub[p] \in Publication
  BY DEF EventInv, EventType
<1>3. Events!Rest \in Publication /\ Events!Rest.pc = "idle"
  BY DEF Publication, Events!Rest, Events!Statuses
<1>4. EventType'
  <2>1. missed' \in SUBSET Learners
    BY <1>1, <1>2 DEF EventType, Publication
  <2>2. QED
    BY <1>1, <1>2, <1>3, <2>1 DEF EventType
<1>5. pub'[p].pc = "idle" /\ \A q \in Requests : q # p => pub'[q] = pub[q]
  BY <1>1, <1>2, <1>3 DEF EventType
<1>6. ASSUME ~ silent, NEW l \in Learners \ missed'
      PROVE  Follows(l)'
  <2>1. pub[p].pc = "send" /\ l \notin missed /\ l \notin pub[p].left
    BY <1>1, <1>2, <1>6 DEF Publication
  <2>2. Follows(l)
    BY <1>6, <2>1 DEF EventInv
  <2>3. WillHear(l) => WillHear(l)'
    BY <1>5, <2>1 DEF WillHear
  <2>4. \A q \in Requests : pub'[q].pc = "send" => pub'[q].read = status'
    BY <1>1, <1>5, <2>2 DEF Follows
  <2>5. QED
    BY <1>1, <2>2, <2>3, <2>4 DEF Follows
<1>7. QED
  BY <1>1, <1>4, <1>6 DEF EventInv

\* EventInv is inductive.
LEMMA EventStep ==
  ASSUME EventInv, [Events!Next]_(Events!vars)
  PROVE  EventInv'
<1>1. ASSUME NEW l \in Learners, Events!Enrol(l)
      PROVE  EventInv'
  <2>1. enrolled' = enrolled \cup {l} /\ UNCHANGED <<status, page, pub, silent, missed>>
    BY <1>1 DEF Events!Enrol
  <2>2. QED
    BY <2>1 DEF EventInv, EventType, Follows, WillHear
<1>2. ASSUME NEW l \in Learners, Events!ClosePage(l)
      PROVE  EventInv'
  <2>1. /\ page' = [page EXCEPT ![l] = Events!Closed]
        /\ UNCHANGED <<status, enrolled, pub, silent, missed>>
    BY <1>2 DEF Events!ClosePage
  <2>2. EventType 
    BY DEF EventInv
  <2>3. \A x \in Learners : page'[x] \in {page[x], Events!Closed}
    BY <2>1, <2>2 DEF EventType
  <2>4. EventType'
    BY <2>1, <2>2 DEF EventType
  <2>5. QED
    BY <2>1, <2>3, <2>4 DEF EventInv, Follows, WillHear
<1>3. CASE UNCHANGED Events!vars
  BY <1>3 DEF Events!vars, EventInv, EventType, Follows, WillHear
<1>4. QED
  BY <1>1, <1>2, <1>3, SilentStep, OpenPageStep, ChangeStep, ReadStatusStep, SentStep,
     SendStep, DiesStep DEF Events!Next

\* Nobody is enrolled and nothing is sent at first.
LEMMA EventInit == Events!Init => EventInv
<1> SUFFICES ASSUME Events!Init PROVE EventInv
  OBVIOUS
<1>1. Events!Rest \in Publication /\ Events!Rest.pc = "idle"
  BY DEF Events!Rest, Publication, Events!Statuses
<1>2. QED
  BY <1>1 DEF Events!Init, EventInv, EventType, Follows, Events!Statuses, Events!Outcomes

\* It holds of every behaviour of the events.
LEMMA EventInvariant == Events!Spec => []EventInv
<1>1. QED
  BY EventInit, EventStep, PTL DEF Events!Spec

\* Nobody is left to send anything once publishers are done.
LEMMA PagesFollow == EventInv => Events!PagesAreCurrent
BY DEF EventInv, Follows, WillHear, Events!PagesAreCurrent, Events!Busy, Events!At

-----------------------------------------------------------------------------
(* Standings *)

\* Whether R orders S: no two elements are equal in it.
Orders(R, S) ==
  /\ \A x \in S : <<x, x>> \notin R
  /\ \A x, y \in S : x # y => <<x, y>> \in R \/ <<y, x>> \in R
  /\ \A x, y, z \in S : <<x, y>> \in R /\ <<y, z>> \in R => <<x, z>> \in R

\* How many are before x.
Place(S, R, x) == Cardinality({y \in S : <<y, x>> \in R})

\* A set that maps one to one onto another one has its size.
LEMMA SameSize ==
  ASSUME NEW S, IsFiniteSet(S), NEW T, NEW f \in [S -> T],
         \A x, y \in S : f[x] = f[y] => x = y,
         \A y \in T : \E x \in S : f[x] = y
  PROVE  IsFiniteSet(T) /\ Cardinality(T) = Cardinality(S)
<1>1. f \in Surjection(S, T) /\ f \in Injection(S, T)
  BY DEF Surjection, Injection, IsInjective
<1>2. QED
  BY <1>1, FS_Surjection

\* The places in an order of n are 0 to n - 1, one each, in the same order.
LEMMA Places ==
  ASSUME NEW S, IsFiniteSet(S), NEW R, Orders(R, S)
  PROVE  /\ Cardinality(S) \in Nat
         /\ \A x \in S : Place(S, R, x) \in 0 .. Cardinality(S) - 1
         /\ \A x, y \in S : <<x, y>> \in R <=> Place(S, R, x) < Place(S, R, y)
         /\ \A x, y \in S : Place(S, R, x) = Place(S, R, y) => x = y
         /\ \A k \in 0 .. Cardinality(S) - 1 : \E x \in S : Place(S, R, x) = k
<1> DEFINE Before(x) == {y \in S : <<y, x>> \in R}
           n == Cardinality(S)
           place == [x \in S |-> Place(S, R, x)]
<1>1. n \in Nat
  BY FS_CardinalityType
<1>2. \A x \in S : /\ IsFiniteSet(Before(x)) /\ Cardinality(Before(x)) \in Nat
                   /\ Place(S, R, x) = Cardinality(Before(x))
  BY FS_Subset, FS_CardinalityType DEF Place
<1>3. ASSUME NEW x \in S PROVE Place(S, R, x) \in 0 .. n - 1
  <2>1. Before(x) \subseteq S \ {x}
    BY DEF Orders
  <2>2. IsFiniteSet(S \ {x}) /\ Cardinality(S \ {x}) = n - 1
    BY FS_RemoveElement
  <2>3. Cardinality(Before(x)) <= n - 1
    BY <2>1, <2>2, FS_Subset
  <2> HIDE DEF Before, n
  <2>4. QED
    BY <1>1, <1>2, <2>3
<1>4. ASSUME NEW x \in S, NEW y \in S, <<x, y>> \in R
      PROVE  Place(S, R, x) < Place(S, R, y)
  <2>1. Before(x) \subseteq Before(y) \ {x} /\ x \in Before(y)
    BY <1>4 DEF Orders
  <2>2. /\ IsFiniteSet(Before(y) \ {x})
        /\ Cardinality(Before(y) \ {x}) = Cardinality(Before(y)) - 1
    BY <1>2, <2>1, FS_RemoveElement
  <2>3. Cardinality(Before(x)) <= Cardinality(Before(y)) - 1
    <3> HIDE DEF Before
    <3>1. QED
      BY <2>1, <2>2, FS_Subset
  <2> HIDE DEF Before
  <2>4. QED
    BY <1>2, <2>3
<1>5. \A x, y \in S : x # y =>
        Place(S, R, x) < Place(S, R, y) \/ Place(S, R, y) < Place(S, R, x)
  BY <1>4 DEF Orders
<1>6. \A x \in S : Place(S, R, x) \in Int
  <2> HIDE DEF Before
  <2>1. QED
    BY <1>2
<1>7. \A x, y \in S : Place(S, R, x) = Place(S, R, y) => x = y
  BY <1>5, <1>6
<1>8. ASSUME NEW x \in S, NEW y \in S, Place(S, R, x) < Place(S, R, y)
      PROVE  <<x, y>> \in R
  <2>1. x # y
    BY <1>6, <1>8
  <2>2. CASE <<y, x>> \in R
    BY <1>4, <1>6, <1>8, <2>2
  <2>3. QED
    BY <2>1, <2>2 DEF Orders
<1>9. \A k \in 0 .. n - 1 : \E x \in S : Place(S, R, x) = k
  <2>1. place \in Injection(S, 0 .. n - 1)
    BY <1>3, <1>7 DEF Injection, IsInjective
  <2>2. IsFiniteSet(0 .. n - 1) /\ Cardinality(0 .. n - 1) = n
    <3> HIDE DEF n
    <3>1. QED
      BY <1>1, FS_Interval
  <2>3. place \in Surjection(S, 0 .. n - 1)
    BY <2>1, <2>2, FS_Injection
  <2>4. QED
    BY <2>3 DEF Surjection
<1>10. QED
  BY <1>1, <1>3, <1>4, <1>7, <1>8, <1>9

\* What is before a cut is as many as the cut, if there are that many.
LEMMA Cut ==
  ASSUME NEW S, IsFiniteSet(S), NEW R, Orders(R, S), NEW m \in Nat,
         NEW x \in S, Place(S, R, x) >= m
  PROVE  LET first == {y \in S : Place(S, R, y) < m}
         IN  Cardinality(first) = m /\ \A y \in first : <<y, x>> \in R
<1> DEFINE first == {y \in S : Place(S, R, y) < m}
           n == Cardinality(S)
           place == [y \in first |-> Place(S, R, y)]
<1>1. /\ n \in Nat /\ Place(S, R, x) \in 0 .. n - 1
      /\ \A y \in S : Place(S, R, y) \in 0 .. n - 1
      /\ \A y, z \in S : Place(S, R, y) = Place(S, R, z) => y = z
      /\ \A k \in 0 .. n - 1 : \E y \in S : Place(S, R, y) = k
  BY Places
<1>2. \A y \in first : <<y, x>> \in R
  <2> SUFFICES ASSUME NEW y \in first PROVE <<y, x>> \in R
    OBVIOUS
  <2>1. Place(S, R, y) < Place(S, R, x)
    <3> HIDE DEF n
    <3>1. QED
      BY <1>1
  <2>2. QED
    BY <2>1, Places
<1>3. IsFiniteSet(first)
  BY FS_Subset
<1>4. place \in [first -> 0 .. m - 1]
  <2> HIDE DEF n
  <2>1. QED
    BY <1>1
<1>5. \A y, z \in first : place[y] = place[z] => y = z
  BY <1>1
<1>6. \A k \in 0 .. m - 1 : \E y \in first : place[y] = k
  <2> SUFFICES ASSUME NEW k \in 0 .. m - 1 PROVE \E y \in first : place[y] = k
    OBVIOUS
  <2>1. k \in 0 .. n - 1 /\ k < m
    <3> HIDE DEF n
    <3>1. QED
      BY <1>1
  <2>2. PICK y \in S : Place(S, R, y) = k
    BY <1>1, <2>1
  <2>3. QED
    BY <2>1, <2>2
<1>7. Cardinality(first) = Cardinality(0 .. m - 1)
  <2> HIDE DEF first, place
  <2>1. QED
    BY <1>3, <1>4, <1>5, <1>6, SameSize, Zenon
<1>8. Cardinality(0 .. m - 1) = m
  BY FS_Interval
<1>9. QED
  BY <1>2, <1>7, <1>8

\* What is in order can be listed in order.
LEMMA Listed ==
  ASSUME NEW S, IsFiniteSet(S), NEW R, Orders(R, S)
  PROVE  \E s \in [1 .. Cardinality(S) -> S] :
           \A i, j \in DOMAIN s : i < j => <<s[i], s[j]>> \in R
<1> DEFINE n == Cardinality(S)
           s == [i \in 1 .. n |-> CHOOSE x \in S : Place(S, R, x) = i - 1]
<1>1. /\ n \in Nat
      /\ \A k \in 0 .. n - 1 : \E x \in S : Place(S, R, x) = k
      /\ \A x, y \in S : <<x, y>> \in R <=> Place(S, R, x) < Place(S, R, y)
  BY Places
<1>2. \A i \in 1 .. n : s[i] \in S /\ Place(S, R, s[i]) = i - 1
  <2> SUFFICES ASSUME NEW i \in 1 .. n PROVE s[i] \in S /\ Place(S, R, s[i]) = i - 1
    OBVIOUS
  <2>1. i - 1 \in 0 .. n - 1
    <3> HIDE DEF n
    <3>1. QED
      BY <1>1
  <2>2. QED
    BY <1>1, <2>1
<1>3. s \in [1 .. n -> S] /\ DOMAIN s = 1 .. n
  BY <1>2
<1>4. \A i, j \in 1 .. n : i < j => <<s[i], s[j]>> \in R
  <2> SUFFICES ASSUME NEW i \in 1 .. n, NEW j \in 1 .. n, i < j
               PROVE  <<s[i], s[j]>> \in R
    OBVIOUS
  <2>1. i - 1 < j - 1
    <3> HIDE DEF n
    <3>1. QED
      BY <1>1
  <2>2. QED
    BY <1>1, <1>2, <2>1
<1>5. QED
  BY <1>3, <1>4

\* A list in order lists everything, each at its place.
LEMMA InPlace ==
  ASSUME NEW S, IsFiniteSet(S), NEW R, Orders(R, S),
         NEW s \in [1 .. Cardinality(S) -> S],
         \A i, j \in DOMAIN s : i < j => <<s[i], s[j]>> \in R
  PROVE  /\ \A i \in DOMAIN s : Place(S, R, s[i]) = i - 1
         /\ \A x \in S : \E i \in DOMAIN s : s[i] = x
<1> DEFINE n == Cardinality(S)
<1>1. /\ n \in Nat /\ DOMAIN s = 1 .. n
      /\ \A x, y \in S : Place(S, R, x) = Place(S, R, y) => x = y
      /\ \A x, y \in S : <<x, y>> \in R <=> Place(S, R, x) < Place(S, R, y)
      /\ \A x \in S : Place(S, R, x) \in 0 .. n - 1
  BY Places
<1>2. \A i, j \in 1 .. n : s[i] = s[j] => i = j
  <2> SUFFICES ASSUME NEW i \in 1 .. n, NEW j \in 1 .. n, s[i] = s[j], i # j PROVE FALSE
    OBVIOUS
  <2>1. i < j \/ j < i
    <3> HIDE DEF n
    <3>1. QED
      BY <1>1
  <2>2. <<s[i], s[i]>> \in R
    BY <1>1, <2>1
  <2>3. s[i] \in S
    BY <1>1
  <2>4. QED
    BY <2>2, <2>3 DEF Orders
<1>3. \A x \in S : \E i \in 1 .. n : s[i] = x
  <2>1. s \in Injection(1 .. n, S)
    BY <1>2 DEF Injection, IsInjective
  <2>2. Cardinality(1 .. n) = n
    <3> HIDE DEF n
    <3>1. QED
      BY <1>1, FS_Interval
  <2>3. s \in Surjection(1 .. n, S)
    BY <2>1, <2>2, FS_Injection
  <2>4. QED
    BY <2>3 DEF Surjection
<1>4. ASSUME NEW i \in 1 .. n PROVE Place(S, R, s[i]) = i - 1
  <2> DEFINE T == {y \in S : <<y, s[i]>> \in R}
             f == [j \in 1 .. i - 1 |-> s[j]]
  <2>1. i \in Nat /\ 1 .. i - 1 \subseteq 1 .. n /\ \A j \in 1 .. n : j < i => j \in 1 .. i - 1
    <3> HIDE DEF n
    <3>1. QED
      BY <1>1
  <2>2. f \in [1 .. i - 1 -> T]
    <3>1. \A j \in 1 .. i - 1 : j < i
      BY <2>1
    <3>2. QED
      BY <1>1, <2>1, <3>1
  <2>3. \A j, k \in 1 .. i - 1 : f[j] = f[k] => j = k
    BY <1>2, <2>1
  <2>4. \A y \in T : \E j \in 1 .. i - 1 : f[j] = y
    <3> SUFFICES ASSUME NEW y \in T PROVE \E j \in 1 .. i - 1 : f[j] = y
      OBVIOUS
    <3>1. PICK j \in 1 .. n : s[j] = y
      BY <1>3
    <3>2. s[i] \in S /\ Place(S, R, y) < Place(S, R, s[i])
      BY <1>1
    <3>3. ~ (i < j) /\ i # j
      <4>1. i < j => Place(S, R, s[i]) < Place(S, R, y)
        BY <1>1, <3>1
      <4>2. Place(S, R, s[i]) \in Int /\ Place(S, R, y) \in Int
        BY <1>1, <3>2
      <4>3. QED
        BY <3>1, <3>2, <4>1, <4>2
    <3>4. j < i
      <4> HIDE DEF n
      <4>1. QED
        BY <1>1, <3>3
    <3>5. QED
      BY <2>1, <3>1, <3>4
  <2>5. Cardinality(T) = Cardinality(1 .. i - 1) /\ Cardinality(1 .. i - 1) = i - 1
    <3>1. IsFiniteSet(1 .. i - 1) /\ Cardinality(1 .. i - 1) = i - 1
      BY <2>1, FS_Interval
    <3> HIDE DEF T, f
    <3>2. QED
      BY <2>2, <2>3, <2>4, <3>1, SameSize, Zenon
  <2>6. QED
    BY <2>5 DEF Place
<1>5. QED
  BY <1>1, <1>3, <1>4

\* The types of the rows that the standings read.
StandingType ==
  /\ points \in [Standings!Users -> Nat]
  /\ learner \in [Standings!Users -> Standings!Situations]

\* The instance counts as the library does.
LEMMA SameCount ==
  ASSUME NEW S
  PROVE  Standings!Cardinality(S) = Cardinality(S)
BY Zenon DEF Standings!Cardinality, Cardinality, Standings!IsFiniteSet, IsFiniteSet

\* What a place of the code's ORDER BY means.
LEMMA AheadOrders ==
  ASSUME StandingType, NEW rows \in SUBSET Standings!Users
  PROVE  /\ IsFiniteSet(rows)
         /\ Orders({p \in Standings!Users \X Standings!Users : Standings!Ahead(p[1], p[2])}, rows)
<1> DEFINE R == {p \in Standings!Users \X Standings!Users : Standings!Ahead(p[1], p[2])}
<1>1. IsFiniteSet(Standings!Users) /\ Standings!Users \subseteq Nat
  BY Boards, FS_Interval DEF Standings!Users
<1>2. IsFiniteSet(rows)
  BY <1>1, FS_Subset
<1>3. \A x, y \in rows : <<x, y>> \in R <=> Standings!Ahead(x, y)
  OBVIOUS
<1>4. \A x \in rows : x \in Nat /\ points[x] \in Nat
  BY <1>1 DEF StandingType
<1>5. Orders(R, rows)
  <2>1. \A x \in rows : ~ Standings!Ahead(x, x)
    BY <1>4 DEF Standings!Ahead
  <2>2. \A x, y \in rows : x # y => Standings!Ahead(x, y) \/ Standings!Ahead(y, x)
    BY <1>4 DEF Standings!Ahead
  <2>3. \A x, y, z \in rows :
          Standings!Ahead(x, y) /\ Standings!Ahead(y, z) => Standings!Ahead(x, z)
    BY <1>4 DEF Standings!Ahead
  <2> HIDE DEF R
  <2>4. QED
    BY <1>3, <2>1, <2>2, <2>3 DEF Orders
<1>6. QED
  BY <1>2, <1>5

\* A leaderboard is the first of the visible entries, and an entry's rank is its
\* user's place among all rows.
LEMMA BoardIsFirst ==
  ASSUME StandingType, NEW minimum \in Nat
  PROVE  LET board == Standings!Leaderboard(minimum)
             rows == {u \in Standings!Users : points[u] >= minimum}
             Better(u) == {v \in rows : Standings!Ahead(v, u)}
             shown == {e.user : e \in board}
         IN  /\ \A e \in board : e.user \in rows /\ e.rank = Cardinality(Better(e.user)) + 1
             /\ \A u \in rows \ (hidden \cup shown) :
                  Cardinality(shown) = BoardLimit /\ \A v \in shown : Standings!Ahead(v, u)
<1> DEFINE rows == {u \in Standings!Users : points[u] >= minimum}
           R == {p \in Standings!Users \X Standings!Users : Standings!Ahead(p[1], p[2])}
           n == Cardinality(rows)
           all == Standings!InOrder(rows, Standings!Ahead)
           Better(u) == {v \in rows : Standings!Ahead(v, u)}
           entries == {e \in Standings!Placed(all) : e.user \notin hidden}
           Q == {p \in entries \X entries : p[1].rank < p[2].rank}
           board == Standings!FirstOf(entries)
           shown == {e.user : e \in board}
<1>1. rows \subseteq Standings!Users
  OBVIOUS
<1>2. IsFiniteSet(rows) /\ Orders(R, rows)
  BY <1>1, AheadOrders
<1>3. \A x, y \in rows : <<x, y>> \in R <=> Standings!Ahead(x, y)
  BY <1>1
<1>4. /\ n \in Nat
      /\ \A x, y \in rows : Place(rows, R, x) = Place(rows, R, y) => x = y
  BY <1>2, Places
<1>5. all \in [1 .. n -> rows] /\ \A i, j \in 1 .. n : i < j => <<all[i], all[j]>> \in R
  <2>1. all = CHOOSE s \in [1 .. n -> rows] :
                \A i, j \in DOMAIN s : i < j => Standings!Ahead(s[i], s[j])
    <3> HIDE DEF rows, all
    <3>1. Standings!InOrder(rows, Standings!Ahead) =
            CHOOSE s \in [1 .. n -> rows] :
              \A i, j \in DOMAIN s : i < j => Standings!Ahead(s[i], s[j])
      BY SameCount, Zenon DEF Standings!InOrder
    <3> USE DEF all
    <3>2. QED
      BY <3>1
  <2>2. PICK s \in [1 .. n -> rows] : \A i, j \in DOMAIN s : i < j => <<s[i], s[j]>> \in R
    <3> HIDE DEF rows, R
    <3>1. QED
      BY <1>2, Listed
  <2>3. \A i, j \in DOMAIN s : i < j => Standings!Ahead(s[i], s[j])
    <3> HIDE DEF rows, R
    <3>1. QED
      BY <1>3, <2>2
  <2>4. all \in [1 .. n -> rows] /\ \A i, j \in DOMAIN all : i < j => Standings!Ahead(all[i], all[j])
    <3> HIDE DEF rows, n, all
    <3>1. QED
      BY <2>1, <2>2, <2>3
  <2> HIDE DEF rows, R, n, all
  <2>5. QED
    BY <1>3, <2>4
<1>6. /\ \A i \in 1 .. n : Place(rows, R, all[i]) = i - 1
      /\ \A x \in rows : \E i \in 1 .. n : all[i] = x
  <2>1. DOMAIN all = 1 .. n
    BY <1>5
  <2> HIDE DEF rows, R, all
  <2>2. \A i, j \in DOMAIN all : i < j => <<all[i], all[j]>> \in R
    BY <1>5, <2>1
  <2>3. /\ \A i \in DOMAIN all : Place(rows, R, all[i]) = i - 1
        /\ \A x \in rows : \E i \in DOMAIN all : all[i] = x
    BY <1>2, <1>5, <2>2, InPlace
  <2>4. QED
    BY <2>1, <2>3
<1>7. \A i, j \in 1 .. n : all[i] = all[j] => i = j
  <2> HIDE DEF rows, R, n, all
  <2>1. QED
    BY <1>4, <1>6
<1>8. \A e : e \in entries <=>
        \E i \in 1 .. n : e = [rank |-> i, user |-> all[i]] /\ all[i] \notin hidden
  <2>1. DOMAIN all = 1 .. n
    BY <1>5
  <2> HIDE DEF rows, R, n, all
  <2>2. QED
    BY <2>1 DEF Standings!Placed
<1>9. \A e \in entries : /\ e.rank \in 1 .. n /\ e.user = all[e.rank] /\ e.user \in rows
                         /\ \A f \in entries : f.rank = e.rank => f = e
  <2> HIDE DEF rows, R, n, all, entries
  <2>1. QED
    BY <1>5, <1>8
<1>10. \A e \in entries : e.rank = Cardinality(Better(e.user)) + 1
  <2> SUFFICES ASSUME NEW e \in entries PROVE e.rank = Cardinality(Better(e.user)) + 1
    OBVIOUS
  <2>1. {v \in rows : <<v, e.user>> \in R} = Better(e.user)
    <3> HIDE DEF rows, R, entries, all, n
    <3>1. QED
      BY <1>3, <1>9
  <2>2. Place(rows, R, e.user) = e.rank - 1 /\ e.rank \in Nat
    <3> HIDE DEF rows, R, entries, all, n
    <3>1. QED
      BY <1>4, <1>6, <1>9
  <2>3. Place(rows, R, e.user) = Cardinality(Better(e.user))
    <3> HIDE DEF rows, R, entries, all, n
    <3>1. QED
      BY <2>1 DEF Place
  <2> HIDE DEF rows, R, entries, all, n, Better
  <2>4. QED
    BY <2>2, <2>3
<1>11. IsFiniteSet(entries) /\ Orders(Q, entries)
  <2>1. IsFiniteSet(entries)
    <3> DEFINE rank == [e \in entries |-> e.rank]
    <3> HIDE DEF rows, R, n, all, entries
    <3>1. rank \in Injection(entries, 1 .. n)
      BY <1>9 DEF Injection, IsInjective
    <3>2. IsFiniteSet(1 .. n)
      BY <1>4, FS_Interval
    <3>3. QED
      BY <3>1, <3>2, FS_Injection
  <2>2. \A e \in entries : e.rank \in Int
    <3> HIDE DEF rows, R, n, all, entries
    <3>1. QED
      BY <1>4, <1>9
  <2>3. \A e, f \in entries : <<e, f>> \in Q <=> e.rank < f.rank
    <3> HIDE DEF entries
    <3>1. QED
      OBVIOUS
  <2>4. \A e, f \in entries : e.rank = f.rank => e = f
    BY <1>9
  <2> HIDE DEF entries, Q
  <2>5. QED
    BY <2>1, <2>2, <2>3, <2>4 DEF Orders
<1>12. board = {e \in entries : Place(entries, Q, e) < BoardLimit}
  <2> HIDE DEF entries
  <2>1. \A e \in entries : {f \in entries : <<f, e>> \in Q} = {f \in entries : f.rank < e.rank}
    OBVIOUS
  <2> HIDE DEF Q
  <2>2. QED
    BY <2>1, SameCount DEF Standings!FirstOf, Place
<1>13. ASSUME NEW u \in rows \ (hidden \cup shown)
       PROVE  Cardinality(shown) = BoardLimit /\ \A v \in shown : Standings!Ahead(v, u)
  <2>1. PICK i \in 1 .. n : all[i] = u
    BY <1>6, <1>13
  <2>2. PICK x : x = [rank |-> i, user |-> all[i]]
    OBVIOUS
  <2>3. x \in entries /\ x.user = u /\ x.rank = i
    <3> HIDE DEF rows, n, all, entries, shown
    <3>1. QED
      BY <1>8, <2>1, <2>2, <1>13
  <2>4. x \notin board
    <3> HIDE DEF entries, board, rows
    <3>1. QED
      BY <2>3, <1>13
  <2>5. Place(entries, Q, x) >= BoardLimit
    <3>1. Place(entries, Q, x) \in Nat
      <4> HIDE DEF entries, Q
      <4>1. QED
        BY <1>11, <2>3, Places
    <3> HIDE DEF entries, Q, board
    <3>2. QED
      BY <1>12, <2>3, <2>4, <3>1, Boards
  <2>6. Cardinality(board) = BoardLimit /\ \A e \in board : <<e, x>> \in Q
    <3> HIDE DEF entries, Q, board
    <3>1. QED
      BY <1>11, <1>12, <2>3, <2>5, Cut, Boards
  <2>7. \A e \in board : e \in entries /\ e.rank < i
    <3> HIDE DEF entries, board
    <3>1. QED
      BY <1>12, <2>3, <2>6
  <2>8. \A v \in shown : Standings!Ahead(v, u)
    <3> SUFFICES ASSUME NEW e \in board PROVE Standings!Ahead(e.user, u)
      OBVIOUS
    <3> HIDE DEF rows, R, n, all, entries, board
    <3>1. e.rank \in 1 .. n /\ e.rank < i /\ e.user = all[e.rank] /\ e.user \in rows
      BY <1>9, <2>7
    <3>2. <<e.user, u>> \in R
      BY <1>5, <2>1, <3>1
    <3>3. QED
      BY <1>3, <1>13, <3>1, <3>2
  <2>9. Cardinality(shown) = Cardinality(board)
    <3> DEFINE f == [e \in board |-> e.user]
    <3>1. IsFiniteSet(board)
      <4> HIDE DEF entries, Q, board
      <4>1. QED
        BY <1>11, <1>12, FS_Subset
    <3>2. \A e, d \in board : e.user = d.user => e = d
      <4> HIDE DEF rows, R, n, all, entries, board
      <4>1. QED
        BY <1>7, <1>9, <2>7
    <3>3. /\ f \in [board -> shown] /\ \A e, d \in board : f[e] = f[d] => e = d
          /\ \A v \in shown : \E e \in board : f[e] = v
      <4> HIDE DEF board
      <4>1. QED
        BY <3>2
    <3> HIDE DEF board, shown, f
    <3>4. QED
      BY <3>1, <3>3, SameSize, Zenon
  <2>10. QED
    BY <2>6, <2>8, <2>9
<1>14. \A e \in board : e \in entries
  <2> HIDE DEF entries, board, Q
  <2>1. QED
    BY <1>12
<1>15. Standings!Leaderboard(minimum) = board
  BY DEF Standings!Leaderboard
<1>16. \A e \in board : e.user \in rows /\ e.rank = Cardinality(Better(e.user)) + 1
  <2> HIDE DEF rows, R, n, all, entries, board, Better
  <2>1. QED
    BY <1>9, <1>10, <1>14
<1> HIDE DEF board
<1>17. QED
  BY <1>13, <1>15, <1>16

\* Learners at work at about the viewer's level come first among the others.
LEMMA OthersInOrder ==
  ASSUME StandingType, NEW viewer \in Standings!Users
  PROVE  LET list == Standings!OthersLearning(viewer)
             Company == {u \in Standings!Users \ (hidden \cup {viewer}) :
                           /\ learner[u].enrolment = "ACTIVE"
                           /\ learner[u].level - Standings!LevelOf(viewer) \in -1 .. 1}
         IN  Company \subseteq list \/ (list \subseteq Company /\ Cardinality(list) = ListLimit)
<1> DEFINE others == {u \in Standings!Users \ (hidden \cup {viewer}) : learner[u].enrolment # "LEFT"}
           entries == {u \in others : Standings!Priority(u, viewer) < 2}
           Before(u, v) ==
             \/ Standings!Priority(u, viewer) < Standings!Priority(v, viewer)
             \/ Standings!Priority(u, viewer) = Standings!Priority(v, viewer) /\ u < v
           R == {p \in entries \X entries : Before(p[1], p[2])}
           n == Cardinality(entries)
           all == Standings!InOrder(entries, Before)
           list == {all[i] : i \in {j \in DOMAIN all : j <= ListLimit}}
           Company == {u \in Standings!Users \ (hidden \cup {viewer}) :
                         /\ learner[u].enrolment = "ACTIVE"
                         /\ learner[u].level - Standings!LevelOf(viewer) \in -1 .. 1}
<1>1. IsFiniteSet(entries) /\ entries \subseteq Nat
  <2>1. IsFiniteSet(Standings!Users) /\ Standings!Users \subseteq Nat
    BY Boards, FS_Interval DEF Standings!Users
  <2>2. entries \subseteq Standings!Users
    OBVIOUS
  <2> HIDE DEF entries
  <2>3. QED
    BY <2>1, <2>2, FS_Subset
<1>2. \A u : Standings!Priority(u, viewer) \in 0 .. 2
  BY DEF Standings!Priority
<1>3. Company = {u \in entries : Standings!Priority(u, viewer) = 0}
  <2>1. ASSUME NEW u \in Standings!Users, learner[u].enrolment = "ACTIVE"
        PROVE  /\ Standings!Similar(u, viewer)
                    <=> learner[u].level - Standings!LevelOf(viewer) \in -1 .. 1
               /\ Standings!Priority(u, viewer) = 0 <=> Standings!Similar(u, viewer)
    <3>1. learner[u].level \in 1 .. 3 /\ learner[viewer].level \in 1 .. 3
      BY DEF StandingType, Standings!Situations, Standings!Levels
    <3>2. Standings!LevelOf(viewer) \in 1 .. 3
      BY <3>1 DEF Standings!LevelOf
    <3>3. Standings!Similar(u, viewer)
            <=> learner[u].level - Standings!LevelOf(viewer) \in -1 .. 1
      BY <3>1, <3>2 DEF Standings!Similar
    <3>4. Standings!Priority(u, viewer) = 0 <=> Standings!Similar(u, viewer)
      BY <2>1 DEF Standings!Priority
    <3>5. QED
      BY <3>3, <3>4
  <2>2. \A u : Standings!Priority(u, viewer) = 0 => learner[u].enrolment = "ACTIVE"
    BY DEF Standings!Priority
  <2>3. QED
    BY <2>1, <2>2
<1>4. /\ \A u, v \in entries : <<u, v>> \in R <=> Before(u, v)
      /\ Orders(R, entries)
  <2>1. \A u, v \in entries : <<u, v>> \in R <=> Before(u, v)
    <3> HIDE DEF entries, Before
    <3>1. QED
      OBVIOUS
  <2>2. \A u \in entries : ~ Before(u, u)
    <3> HIDE DEF entries
    <3>1. QED
      BY <1>1, <1>2
  <2>3. \A u, v \in entries : u # v => Before(u, v) \/ Before(v, u)
    <3> HIDE DEF entries
    <3>1. QED
      BY <1>1, <1>2
  <2>4. \A u, v, w \in entries : Before(u, v) /\ Before(v, w) => Before(u, w)
    <3> HIDE DEF entries
    <3>1. QED
      BY <1>1, <1>2
  <2> HIDE DEF entries, R, Before
  <2>5. QED
    BY <2>1, <2>2, <2>3, <2>4 DEF Orders
<1>5. n \in Nat
  BY <1>1, FS_CardinalityType
<1>6. all \in [1 .. n -> entries] /\ \A i, j \in 1 .. n : i < j => <<all[i], all[j]>> \in R
  <2>1. all = CHOOSE s \in [1 .. n -> entries] : \A i, j \in DOMAIN s : i < j => Before(s[i], s[j])
    <3> HIDE DEF entries, all, Before
    <3>1. Standings!InOrder(entries, Before) =
            CHOOSE s \in [1 .. n -> entries] :
              \A i, j \in DOMAIN s : i < j => Before(s[i], s[j])
      BY SameCount, Zenon DEF Standings!InOrder
    <3> USE DEF all
    <3>2. QED
      BY <3>1
  <2>2. PICK s \in [1 .. n -> entries] : \A i, j \in DOMAIN s : i < j => <<s[i], s[j]>> \in R
    <3> HIDE DEF entries, R
    <3>1. QED
      BY <1>1, <1>4, Listed
  <2>3. \A i, j \in DOMAIN s : i < j => Before(s[i], s[j])
    <3> HIDE DEF entries, R, Before
    <3>1. QED
      BY <1>4, <2>2
  <2>4. all \in [1 .. n -> entries] /\ \A i, j \in DOMAIN all : i < j => Before(all[i], all[j])
    <3> HIDE DEF entries, n, all, Before
    <3>1. QED
      BY <2>1, <2>2, <2>3
  <2> HIDE DEF entries, R, n, all, Before
  <2>5. QED
    BY <1>4, <2>4
<1>7. DOMAIN all = 1 .. n
  BY <1>6
<1>8. \A u \in entries : \E i \in 1 .. n : all[i] = u
  <2> HIDE DEF entries, R, all
  <2>1. \A i, j \in DOMAIN all : i < j => <<all[i], all[j]>> \in R
    BY <1>6, <1>7
  <2>2. \A u \in entries : \E i \in DOMAIN all : all[i] = u
    BY <1>1, <1>4, <1>6, <2>1, InPlace
  <2>3. QED
    BY <1>7, <2>2
<1>9. ASSUME NEW u \in Company, u \notin list
      PROVE  list \subseteq Company /\ Cardinality(list) = ListLimit
  <2> HIDE DEF entries, R, n, all, Before, Company
  <2>1. u \in entries /\ Standings!Priority(u, viewer) = 0
    BY <1>3, <1>9
  <2>2. PICK k \in 1 .. n : all[k] = u
    BY <1>8, <2>1
  <2>3. k > ListLimit
    BY <1>5, <1>7, <1>9, <2>2, Boards
  <2>4. \A i \in 1 .. ListLimit : i \in 1 .. n /\ i < k
    BY <1>5, <2>3, Boards
  <2>5. list = {all[i] : i \in 1 .. ListLimit}
    <3>1. {j \in DOMAIN all : j <= ListLimit} = 1 .. ListLimit
      BY <1>5, <1>7, <2>4, Boards
    <3>2. QED
      BY <3>1
  <2>6. ASSUME NEW i \in 1 .. ListLimit PROVE all[i] \in Company
    <3>1. all[i] \in entries /\ Before(all[i], u)
      BY <1>4, <1>6, <2>1, <2>2, <2>4
    <3>2. Standings!Priority(all[i], viewer) = 0
      BY <1>2, <2>1, <3>1 DEF Before
    <3>3. QED
      BY <1>3, <3>1, <3>2
  <2>7. \A i, j \in 1 .. ListLimit : all[i] = all[j] => i = j
    <3> SUFFICES ASSUME NEW i \in 1 .. ListLimit, NEW j \in 1 .. ListLimit,
                        all[i] = all[j], i # j
                 PROVE  FALSE
      OBVIOUS
    <3>1. i < j \/ j < i
      OBVIOUS
    <3>2. <<all[i], all[i]>> \in R /\ all[i] \in entries
      BY <1>6, <2>4, <3>1
    <3>3. QED
      BY <1>4, <3>2 DEF Orders
  <2>8. Cardinality(list) = Cardinality(1 .. ListLimit)
    <3> DEFINE f == [i \in 1 .. ListLimit |-> all[i]]
    <3>1. IsFiniteSet(1 .. ListLimit)
      BY Boards, FS_Interval
    <3>2. /\ f \in [1 .. ListLimit -> list]
          /\ \A i, j \in 1 .. ListLimit : f[i] = f[j] => i = j
          /\ \A v \in list : \E i \in 1 .. ListLimit : f[i] = v
      <4> HIDE DEF list
      <4>1. QED
        BY <2>5, <2>7
    <3> HIDE DEF list, f
    <3>3. QED
      BY <3>1, <3>2, SameSize, Zenon
  <2>9. Cardinality(1 .. ListLimit) = ListLimit
    BY Boards, FS_Interval
  <2>10. QED
    BY <2>5, <2>6, <2>8, <2>9
<1>10. Standings!OthersLearning(viewer) = list
  BY DEF Standings!OthersLearning
<1> HIDE DEF list, Company
<1>11. QED
  BY <1>9, <1>10 DEF Company

\* The rows are of their types, and no step writes them.
LEMMA StandingTypes == AllSpec => []StandingType
<1>1. AllInit => StandingType
  <2> DEFINE nobody == [level |-> 1, enrolment |-> "LEFT", passed |-> FALSE]
             none == [u \in Standings!Users |-> nobody]
             zero == [u \in Standings!Users |-> 0]
  <2>1. nobody \in Standings!Situations
    BY DEF Standings!Situations, Standings!Levels
  <2>2. none \in [Standings!Users -> Standings!Situations] /\ zero \in [Standings!Users -> Nat]
    <3> HIDE DEF nobody
    <3>1. QED
      BY <2>1
  <2>3. NoStandings => points = zero /\ learner = none
    BY DEF NoStandings
  <2>4. Standings!Init =>
          \/ points \in [Standings!Users -> 0 .. MaxPoints] /\ learner = none
          \/ points = zero /\ learner \in [Standings!Users -> Standings!Situations]
    BY DEF Standings!Init
  <2>5. 0 .. MaxPoints \subseteq Nat
    BY Boards
  <2>6. points \in [Standings!Users -> 0 .. MaxPoints] => points \in [Standings!Users -> Nat]
    BY <2>5
  <2> HIDE DEF none, zero
  <2>7. QED
    BY <2>2, <2>3, <2>4, <2>6 DEF AllInit, StandingType
<1>2. StandingType /\ [AllNext]_allVars => StandingType'
  BY DEF AllNext, allVars, standingVars, StandingType, Standings!Users, Standings!Situations,
         Standings!Levels
<1>3. QED
  BY <1>1, <1>2, PTL DEF AllSpec

-----------------------------------------------------------------------------
(* The services together *)

\* Only one part moves, and each is the part of its own specification.
LEMMA PartsMove ==
  AllSpec => Spec /\ Throttle!Spec /\ Chain!Spec /\ Events!Spec
<1>1. AllInit => Init /\ Throttle!Init /\ Chain!Init /\ Events!Init
  BY DEF AllInit
<1>2. ASSUME [AllNext]_allVars
      PROVE  /\ [Next]_vars /\ [Throttle!Next]_(Throttle!vars)
             /\ [Chain!Next]_(Chain!vars) /\ [Events!Next]_(Events!vars)
  <2>1. /\ Next \/ vars' = vars
        /\ Throttle!Next \/ throttleVars' = throttleVars
        /\ Chain!Next \/ callVars' = callVars
        /\ Events!Next \/ eventVars' = eventVars
    <3>1. CASE AllNext
      BY <3>1, Zenon DEF AllNext
    <3>2. CASE allVars' = allVars
      BY <3>2 DEF allVars
    <3>3. QED
      BY <1>2, <3>1, <3>2
  <2>2. throttleVars' = throttleVars => Throttle!vars' = Throttle!vars
    BY DEF throttleVars, Throttle!vars
  <2>3. callVars' = callVars => Chain!vars' = Chain!vars
    BY DEF callVars, Chain!vars
  <2>4. eventVars' = eventVars => Events!vars' = Events!vars
    BY DEF eventVars, Events!vars
  <2>5. QED
    BY <2>1, <2>2, <2>3, <2>4
<1>3. QED
  BY <1>1, <1>2, PTL DEF AllSpec, Spec, Throttle!Spec, Chain!Spec, Events!Spec

\* The values of the rows, the cookies and what each request has read stay
\* within their types, and whoever uses a user or a link has read one.
THEOREM AccountTypeCorrect == AllSpec => []TypeOK
<1>1. AccountInv => TypeOK
  BY DEF AccountInv
<1>2. QED
  BY <1>1, PartsMove, AccountInvariant, PTL

\* However requests overlap, a cookie proves a password that was entered in its
\* browser: the tokens of a sign-in, a sign-up or a refresh that overlap a change
\* of the password are tokens for the password of before.
THEOREM SessionsAreProofs == AllSpec => []SessionsProvePassword
<1>1. AccountInv => SessionsProvePassword
  BY DEF AccountInv
<1>2. QED
  BY <1>1, PartsMove, AccountInvariant, PTL

\* However many links are out, a new password ends those made for earlier ones,
\* once the request that set it has deleted them.
THEOREM LinksEnd == AllSpec => []LinksEndWithPassword
<1>1. AccountInv => LinksEndWithPassword
  BY DEF AccountInv
<1>2. QED
  BY <1>1, PartsMove, AccountInvariant, PTL

\* A user has preferences, but for the moment of the sign-up, or for ever when
\* that moment is cut short.
THEOREM PreferencesFollow == AllSpec => []PreferencesExist
<1>1. AccountInv => PreferencesExist
  BY DEF AccountInv
<1>2. QED
  BY <1>1, PartsMove, AccountInvariant, PTL

\* Whatever is read and written in whatever order, the clock, the lock, the
\* cached pair and what each request knows of them have their types; a refused
\* request is never told to wait a negative time.
THEOREM ThrottleTypeCorrect == AllSpec => []Throttle!TypeOK
<1>1. LockInv /\ BackoffInv => Throttle!TypeOK
  BY LockTypeIsTypeOK DEF LockInv
<1>2. QED
  BY <1>1, PartsMove, ThrottleInvariant, PTL

\* The lock's promise: as long as no request outlasts it, no two requests are
\* between taking and deleting the lock, however many there are, whoever dies
\* inside, and whenever the backoff is cleared.
THEOREM LockExcludes == AllSpec => []MutualExclusion
<1>1. LockInv /\ BackoffInv => MutualExclusion
  BY DEF LockInv, MutualExclusion
<1>2. QED
  BY <1>1, PartsMove, ThrottleInvariant, PTL

\* The backoff's promise, under the same proviso and for any first and longest
\* wait: what is allowed is as far apart as the doubling wait says, and no
\* interleaving, death or clearing of the backoff loses a request from the count.
THEOREM BackoffIsKept == AllSpec => []BackoffKept
<1>1. LockInv /\ BackoffInv => BackoffKept
  BY BackoffFollows DEF BackoffKept
<1>2. QED
  BY <1>1, PartsMove, ThrottleInvariant, PTL

\* However its requests to the providers turn out, a call of the AI layer ends
\* with a result that has its reason, and asks at most twice round the chain.
THEOREM ResultsHaveReasons == AllSpec => []ResultHasReason
<1>1. CallInv => ResultHasReason
  BY DEF CallInv, ResultHasReason
<1>2. QED
  BY <1>1, PartsMove, CallInvariant, PTL

\* For any number of publishers and learners, and whatever claims and resets come
\* between and whoever dies: once nobody has an event to send, no page that missed
\* none is still waiting for an outcome, or for the topic the cleanup gave back.
THEOREM PagesFollowStatus == AllSpec => []PagesAreCurrent
<1>1. EventInv => PagesAreCurrent
  BY PagesFollow DEF PagesAreCurrent
<1>2. QED
  BY <1>1, PartsMove, EventInvariant, PTL

\* RanksCountEverybody and CompanyComesFirst: on every set of rows, a rank counts
\* everybody who is better, whether shown or not, nobody who is not hidden is
\* passed over, and learners at work come before those who have only passed.
THEOREM StandingsStayFair == AllSpec => []StandingsAreFair
<1>1. ASSUME StandingType PROVE Standings!RanksCountEverybody
  <2> SUFFICES ASSUME NEW minimum \in {0, 1}
               PROVE LET board == Standings!Leaderboard(minimum)
                         Better(u) == {v \in Standings!Users :
                                         points[v] >= minimum /\ Standings!Ahead(v, u)}
                         shown == {e.user : e \in board}
                     IN  /\ \A e \in board : e.rank = Cardinality(Better(e.user)) + 1
                         /\ \A u \in Standings!Users \ (hidden \cup shown) :
                              points[u] >= minimum =>
                                /\ Cardinality(shown) = BoardLimit
                                /\ \A v \in shown : Standings!Ahead(v, u)
    BY SameCount, Zenon DEF Standings!RanksCountEverybody
  <2> DEFINE board == Standings!Leaderboard(minimum)
             rows == {u \in Standings!Users : points[u] >= minimum}
             shown == {e.user : e \in board}
  <2>1. minimum \in Nat
    OBVIOUS
  <2>2. /\ \A e \in board :
             e.rank = Cardinality({v \in rows : Standings!Ahead(v, e.user)}) + 1
        /\ \A u \in rows \ (hidden \cup shown) :
             Cardinality(shown) = BoardLimit /\ \A v \in shown : Standings!Ahead(v, u)
    BY <1>1, <2>1, BoardIsFirst, Zenon
  <2>3. \A u : {v \in rows : Standings!Ahead(v, u)} =
               {v \in Standings!Users : points[v] >= minimum /\ Standings!Ahead(v, u)}
    OBVIOUS
  <2> HIDE DEF board
  <2>4. \A e \in board :
          e.rank = Cardinality({v \in Standings!Users :
                                  points[v] >= minimum /\ Standings!Ahead(v, e.user)}) + 1
    BY <2>2, <2>3
  <2>5. \A u \in Standings!Users \ (hidden \cup shown) : points[u] >= minimum =>
          Cardinality(shown) = BoardLimit /\ \A v \in shown : Standings!Ahead(v, u)
    <3> HIDE DEF shown
    <3>1. QED
      BY <2>2
  <2> USE DEF board
  <2>6. QED
    BY <2>4, <2>5
<1>2. ASSUME StandingType PROVE Standings!CompanyComesFirst
  BY <1>2, OthersInOrder, SameCount, Zenon DEF Standings!CompanyComesFirst
<1>3. StandingType => StandingsAreFair
  BY <1>1, <1>2 DEF StandingsAreFair
<1>4. QED
  BY <1>3, StandingTypes, PTL
=============================================================================
