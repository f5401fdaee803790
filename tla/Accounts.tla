------------------------------ MODULE Accounts -------------------------------
(***************************************************************************)
(* An account (apps/core): signing up, the session cookies and what they   *)
(* prove, resetting the password with a token sent by mail, and updates of *)
(* the profile and the preferences.                                        *)
(*                                                                         *)
(* Requests interleave statement by statement; ATOMIC_REQUESTS is off.     *)
(* Passwords are numbered in the order in which they are set, names in the *)
(* order in which they are saved, so that a value written back from an     *)
(* earlier read shows.  A token of simplejwt carries a hash of the         *)
(* password it was issued for: here, its number.                           *)
(***************************************************************************)
EXTENDS Integers, FiniteSets

CONSTANTS
  Requests,      \* requests of the API, each with a browser of its own
  ResetTokens,   \* rows of PasswordResetToken, and the links that carry them
  MaxPassword,   \* bound: passwords set
  MaxName        \* bound: names saved

ASSUME Bounds == MaxPassword \in Nat \ {0} /\ MaxName \in Nat

NoPassword == 0
Passwords == 1 .. MaxPassword
Claims == 0 .. MaxPassword    \* NoPassword: no cookie, or an expired one

VARIABLES
  password,   \* of the User row; NoPassword before there is one
  name,       \* display_name
  prefs,      \* the UserPreferences row: "none" or its two auto-select columns
  token,      \* token[t]: "unused", "valid", "expired" or "deleted"
  access,     \* access[r]: the claim of the access_token cookie
  refresh,    \* refresh[r]: the claim of the refresh_token cookie
  req,        \* the local variables of each request
  \* Observed, never read by an action of the program:
  presented,  \* presented[r]: the passwords this browser has signed in with
  madeFor,    \* madeFor[t]: the password when the token was made
  halfDone    \* a request has died between two statements that belong together

vars == <<password, name, prefs, token, access, refresh, req, presented, madeFor, halfDone>>
rowVars == <<password, name, prefs, token>>
cookieVars == <<access, refresh>>
seen == <<presented, madeFor, halfDone>>

NoPrefs == [auto |-> FALSE, consent |-> FALSE, exists |-> FALSE]
NewPrefs == [NoPrefs EXCEPT !.exists = TRUE]
Quiet == [pc |-> "idle", user |-> NoPassword, name |-> 0,
          token |-> "none", auto |-> FALSE]

Init ==
  /\ password = NoPassword /\ name = 0 /\ prefs = NoPrefs
  /\ token = [t \in ResetTokens |-> "unused"]
  /\ access = [r \in Requests |-> NoPassword]
  /\ refresh = [r \in Requests |-> NoPassword]
  /\ req = [r \in Requests |-> Quiet]
  /\ presented = [r \in Requests |-> {}]
  /\ madeFor = [t \in ResetTokens |-> NoPassword]
  /\ halfDone = FALSE

Exists == password # NoPassword
At(r, pc) == req[r].pc = pc
Go(r, pc) == req' = [req EXCEPT ![r].pc = pc]
End(r) == req' = [req EXCEPT ![r] = Quiet]
\* The request has read the user's row.
ReadUser(r, pc) ==
  req' = [req EXCEPT ![r] = [Quiet EXCEPT !.pc = pc, !.user = password]]
Present(r, p) == presented' = [presented EXCEPT ![r] = @ \cup {p}]

-----------------------------------------------------------------------------
(* Sign-up *)

\* No user has the address (it is validated first); opting in comes later.
SignUp(r) ==
  /\ At(r, "idle") /\ ~ Exists
  /\ \E auto \in BOOLEAN :
       req' = [req EXCEPT ![r] = [Quiet EXCEPT !.pc = "insert user", !.auto = auto]]
  /\ UNCHANGED <<rowVars, cookieVars, seen>>

\* The unique constraint on the address decides between two sign-ups.
InsertUser(r) ==
  /\ At(r, "insert user")
  /\ IF Exists THEN End(r) /\ UNCHANGED <<password, presented>>
     ELSE /\ password' = 1
          /\ req' = [req EXCEPT ![r].pc = "insert preferences", ![r].user = 1]
          /\ Present(r, 1)
  /\ UNCHANGED <<name, prefs, token, cookieVars, madeFor, halfDone>>

\* Mutant of InsertPreferences: left out for those who do not opt in.
InsertPreferencesIfAsked(r) ==
  /\ At(r, "insert preferences")
  /\ prefs' = IF req[r].auto THEN NewPrefs ELSE prefs
  /\ Go(r, IF req[r].auto THEN "opt in" ELSE "issue")
  /\ UNCHANGED <<password, name, token, cookieVars, seen>>

\* The post_save signal, a statement of its own.
InsertPreferences(r) ==
  /\ At(r, "insert preferences")
  /\ prefs' = NewPrefs
  /\ Go(r, IF req[r].auto THEN "opt in" ELSE "issue")
  /\ UNCHANGED <<password, name, token, cookieVars, seen>>

OptIn(r) ==
  /\ At(r, "opt in")
  /\ prefs' = [prefs EXCEPT !.auto = TRUE, !.consent = TRUE]
  /\ Go(r, "issue")
  /\ UNCHANGED <<password, name, token, cookieVars, seen>>

-----------------------------------------------------------------------------
(* Sessions *)

SignIn(r) ==
  /\ At(r, "idle") /\ Exists
  /\ ReadUser(r, "issue")
  /\ Present(r, password)
  /\ UNCHANGED <<rowVars, cookieVars, madeFor, halfDone>>

\* RefreshTokenView compares the claim with the user it has read.
Refresh(r) ==
  /\ At(r, "idle") /\ refresh[r] # NoPassword /\ refresh[r] = password
  /\ ReadUser(r, "issue")
  /\ UNCHANGED <<rowVars, cookieVars, seen>>

\* Mutant of IssuedFor: the user is read again for the new tokens.
IssuedForNow(r) == password

\* _set_auth_cookies signs for the user object that was checked.
IssuedFor(r) == req[r].user

IssueTokens(r) ==
  /\ At(r, "issue")
  /\ access' = [access EXCEPT ![r] = IssuedFor(r)]
  /\ refresh' = [refresh EXCEPT ![r] = IssuedFor(r)]
  /\ End(r)
  /\ UNCHANGED <<rowVars, seen>>

\* CHECK_REVOKE_TOKEN: the claim must be the hash of the password of now.
Authenticated(r) == access[r] # NoPassword /\ access[r] = password

SignOut(r) ==
  /\ At(r, "idle") /\ Authenticated(r)
  /\ access' = [access EXCEPT ![r] = NoPassword]
  /\ refresh' = [refresh EXCEPT ![r] = NoPassword]
  /\ UNCHANGED <<rowVars, req, seen>>

\* After 15 minutes, or after seven days.
CookieExpires(r) ==
  /\ \/ access' = [access EXCEPT ![r] = NoPassword] /\ UNCHANGED refresh
     \/ refresh' = [refresh EXCEPT ![r] = NoPassword] /\ UNCHANGED access
  /\ cookieVars' # cookieVars
  /\ UNCHANGED <<rowVars, req, seen>>

-----------------------------------------------------------------------------
(* Password reset *)

\* Every request makes a token, whether or not the mail can be sent.
RequestReset(r, t) ==
  /\ At(r, "idle") /\ Exists /\ token[t] = "unused"
  /\ token' = [token EXCEPT ![t] = "valid"]
  /\ madeFor' = [madeFor EXCEPT ![t] = password]
  /\ UNCHANGED <<password, name, prefs, cookieVars, req, presented, halfDone>>

TokenExpires(t) ==
  /\ token[t] = "valid"
  /\ token' = [token EXCEPT ![t] = "expired"]
  /\ UNCHANGED <<password, name, prefs, cookieVars, req, seen>>

\* PasswordResetConfirmSerializer.validate.
ConfirmReset(r, t) ==
  /\ At(r, "idle") /\ token[t] = "valid"
  /\ req' = [req EXCEPT ![r] = [Quiet EXCEPT !.pc = "read token", !.token = t]]
  /\ UNCHANGED <<rowVars, cookieVars, seen>>

\* set_password_with_token reads user and token once more; a token deleted or
\* expired since then ends the request.
ReadToken(r) ==
  /\ At(r, "read token")
  /\ IF token[req[r].token] = "valid"
     THEN req' = [req EXCEPT ![r].pc = "save password", ![r].user = password,
                             ![r].name = name]
     ELSE End(r)
  /\ UNCHANGED <<rowVars, cookieVars, seen>>

SavePassword(r) ==
  /\ At(r, "save password") /\ password < MaxPassword
  /\ password' = password + 1
  /\ Go(r, "delete tokens")
  /\ UNCHANGED <<name, prefs, token, cookieVars, seen>>

\* Mutant of DeleteTokens: only the token used is deleted.
DeleteTokenUsed(r) ==
  /\ At(r, "delete tokens")
  /\ token' = [token EXCEPT ![req[r].token] = "deleted"]
  /\ End(r)
  /\ UNCHANGED <<password, name, prefs, cookieVars, seen>>

\* All tokens of the user; the backoff of its address is forgotten afterwards.
DeleteTokens(r) ==
  /\ At(r, "delete tokens")
  /\ token' = [t \in ResetTokens |-> IF token[t] = "unused" THEN "unused" ELSE "deleted"]
  /\ End(r)
  /\ UNCHANGED <<password, name, prefs, cookieVars, seen>>

-----------------------------------------------------------------------------
(* Profile *)

\* The authenticated user of the request is read once, at its beginning.
PatchProfile(r) ==
  /\ At(r, "idle") /\ Authenticated(r)
  /\ \E pc \in {"save name", "save preferences"} : ReadUser(r, pc)
  /\ UNCHANGED <<rowVars, cookieVars, seen>>

SaveName(r) ==
  /\ At(r, "save name") /\ name < MaxName
  /\ name' = name + 1
  /\ \/ End(r)
     \/ Go(r, "save preferences")
  /\ UNCHANGED <<password, prefs, token, cookieVars, seen>>

\* Opting in stamps the consent; opting out leaves the stamp.
Choice(auto) == [prefs EXCEPT !.auto = auto, !.consent = @ \/ auto]

\* Without a row, request.user.preferences raises.
SavePreferences(r) ==
  /\ At(r, "save preferences")
  /\ IF prefs.exists THEN \E auto \in BOOLEAN : prefs' = Choice(auto)
     ELSE UNCHANGED prefs
  /\ End(r)
  /\ UNCHANGED <<password, name, token, cookieVars, seen>>

\* The process dies, or its client goes away.
Dies(r) ==
  /\ ~ At(r, "idle")
  /\ End(r)
  /\ halfDone' = (halfDone \/ req[r].pc \in {"insert preferences", "delete tokens"})
  /\ UNCHANGED <<rowVars, cookieVars, presented, madeFor>>

-----------------------------------------------------------------------------

Step(r) ==
  \/ SignUp(r) \/ InsertUser(r) \/ InsertPreferences(r) \/ OptIn(r)
  \/ SignIn(r) \/ Refresh(r) \/ IssueTokens(r) \/ SignOut(r) \/ CookieExpires(r)
  \/ \E t \in ResetTokens : RequestReset(r, t) \/ ConfirmReset(r, t)
  \/ ReadToken(r) \/ SavePassword(r) \/ DeleteTokens(r)
  \/ PatchProfile(r) \/ SaveName(r) \/ SavePreferences(r)
  \/ Dies(r)

Next == (\E r \in Requests : Step(r)) \/ (\E t \in ResetTokens : TokenExpires(t))

Spec == Init /\ [][Next]_vars

-----------------------------------------------------------------------------
(* Properties *)

PCs == {"idle", "insert user", "insert preferences", "opt in", "issue",
        "read token", "save password", "delete tokens", "save name",
        "save preferences"}

RequestState ==
  [pc : PCs, user : Claims, name : 0 .. MaxName,
   token : ResetTokens \cup {"none"}, auto : BOOLEAN]

\* The values the state can take; what a request has read of the user is there
\* when it is used.
TypeOK ==
  /\ password \in Claims /\ name \in 0 .. MaxName
  /\ prefs \in [auto : BOOLEAN, consent : BOOLEAN, exists : BOOLEAN]
  /\ token \in [ResetTokens -> {"unused", "valid", "expired", "deleted"}]
  /\ access \in [Requests -> Claims] /\ refresh \in [Requests -> Claims]
  /\ req \in [Requests -> RequestState]
  /\ presented \in [Requests -> SUBSET Passwords]
  /\ madeFor \in [ResetTokens -> Claims]
  /\ halfDone \in BOOLEAN
  /\ \A r \in Requests :
       req[r].pc \in {"issue", "save password", "save name", "save preferences"} =>
         req[r].user \in Passwords
  /\ \A r \in Requests : req[r].pc = "read token" => req[r].token \in ResetTokens

\* "Tokens carry a hash of the password, so changing it revokes all earlier
\* sessions."  A cookie proves that its browser has presented the password it
\* stands for, however often it was refreshed and whatever changed meanwhile:
\* after a new password a session goes on only where that one was entered.
SessionsProvePassword ==
  \A r \in Requests :
    /\ access[r] # NoPassword => access[r] \in presented[r]
    /\ refresh[r] # NoPassword => refresh[r] \in presented[r]

\* A new password ends the links sent for the ones before it: none is valid
\* unless the request that saved the password is about to delete it, or died
\* there.
LinksEndWithPassword ==
  \A t \in ResetTokens :
    token[t] = "valid" /\ madeFor[t] < password =>
      halfDone \/ \E r \in Requests : At(r, "delete tokens")

\* Leaderboards and lists of learners read the preferences of every user and
\* fail without them: every user has them, but for one that is being signed up,
\* and one whose sign-up died in between, for which nothing makes up.
PreferencesExist ==
  Exists /\ ~ prefs.exists =>
    halfDone \/ \E r \in Requests : At(r, "insert preferences")
=============================================================================
