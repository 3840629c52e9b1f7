------------------------------ MODULE Accounts ------------------------------
(***************************************************************************)
(* The users table and everything that changes it: the registration of the *)
(* first administrator, user management, the second factor, and single     *)
(* sign-on, with the in-memory state of its OIDC flow. Sessions themselves *)
(* are in Session.                                                         *)
(*                                                                         *)
(* A handler runs alone up to its first await: the password library, or a  *)
(* call to the identity provider. It then waits in a slot of Requests, with*)
(* what it has read, while others run. Whoever acts holds an access token: *)
(* it names an id and a role, and outlives a change of the row. Time is not*)
(* counted, so a token that could have been issued does not end.           *)
(*                                                                         *)
(* Bounds: Ids, one for each row ever inserted; MaxChanges of the OIDC     *)
(* settings, States of OIDC logins.                                        *)
(***************************************************************************)
EXTENDS Naturals

CONSTANTS
  Ids,         \* ids of rows of users: 1..n, as they are inserted
  Emails,
  Requests,    \* requests that wait for something
  States,      \* states of OIDC logins
  MaxChanges,
  NewRoles,    \* roles given to a new user, or together with a new password
  Redirects,   \* redirect URIs an administrator enters: "env" is the environment's
  EnvSettings  \* the OIDC settings of the environment, or NoSettings

\* An operator is a viewer here: only the administrator's rights are asked for.
Roles == {"admin", "viewer"}
Keep  == "keep"

Settings   == [version : 0..MaxChanges, redirect : {"env", "own"}]
NoSettings == [version |-> 0, redirect |-> "none"]
MaybeSettings == Settings \cup {NoSettings}

ASSUME AccountsAssumption ==
  /\ Ids \subseteq Nat
  /\ MaxChanges \in Nat
  /\ NewRoles \subseteq Roles
  /\ Redirects \subseteq {"env", "own"}
  /\ EnvSettings \in {NoSettings, [version |-> 0, redirect |-> "env"]}

VARIABLES
  rows,      \* database: users
  access,    \* access tokens that could have been issued, as <<id, role>>
  work,      \* requests that wait
  ssoRow,    \* database: sso_config of "oidc", NoSettings if there is none that is enabled
  changes,   \* changes of it so far
  cached,    \* server: cachedOidcConfig, as the settings it was discovered for
  states,    \* server: pendingOidcStates
  confirmed, \* history: the ids of which a code of the stored secret was accepted
  named      \* history: the role a request last named for the row

userVars == <<rows, access, confirmed, named>>
oidcVars == <<ssoRow, changes, cached, states>>
vars     == <<userVars, work, oidcVars>>

Row   == [state : {"none", "row", "deleted"}, email : Emails \cup {"none"}, role : Roles,
          password : BOOLEAN, secret : BOOLEAN, enabled : BOOLEAN]
NoRow == [state |-> "none", email |-> "none", role |-> "viewer", password |-> FALSE,
          secret |-> FALSE, enabled |-> FALSE]

Idle    == [op |-> "idle"]
Pending == {Idle}
  \cup [op : {"register"}, email : Emails]
  \cup [op : {"create"}, email : Emails, role : Roles]
  \cup [op : {"patch"}, id : Ids, role : Roles \cup {Keep}, was : Roles]
  \cup [op : {"disable"}, id : Ids]
  \cup [op : {"discover"}, settings : Settings]                     \* for a login
  \cup [op : {"rediscover"}, settings : Settings, state : States]   \* for a callback
  \cup [op : {"grant"}, settings : Settings, state : States]

\* open: sent to the provider, with the client and the redirect URI of these settings.
\* used: a callback took it. gone: ended, or never sent.
State == [phase : {"new", "open", "used", "gone"}, settings : MaybeSettings]

Init ==
  /\ rows = [u \in Ids |-> NoRow]
  /\ access = {}
  /\ work = [r \in Requests |-> Idle]
  /\ ssoRow = NoSettings
  /\ changes = 0
  /\ cached = NoSettings
  /\ states = [s \in States |-> [phase |-> "new", settings |-> NoSettings]]
  /\ confirmed = {}
  /\ named = [u \in Ids |-> Keep]

Exists(u)  == rows[u].state = "row"
Present    == {u \in Ids : Exists(u)}
HasEmail(e) == \E u \in Present : rows[u].email = e
NextId(u)  == rows[u].state = "none" /\ \A v \in Ids : rows[v].state = "none" => u <= v

Wait(r, pending) == work[r] = Idle /\ work' = [work EXCEPT ![r] = pending]
Done(r)          == work' = [work EXCEPT ![r] = Idle]

-----------------------------------------------------------------------------
(* Rows.                                                                   *)

\* The user may sign in with the role.
Grant(u, role) == named' = [named EXCEPT ![u] = role] /\ access' = access \cup {<<u, role>>}

\* INSERT INTO users: email is unique, a second row is an error.
Insert(e, role, password) ==
  IF HasEmail(e) THEN UNCHANGED <<rows, named, access>>
  ELSE \E u \in Ids :
    /\ NextId(u)
    /\ rows' = [rows EXCEPT ![u] = [NoRow EXCEPT !.state = "row", !.email = e,
                  !.role = role, !.password = password]]
    /\ Grant(u, role)

\* POST /auth/register, as far as hashPassword.
Register(r, e) ==
  /\ Present = {}
  /\ Wait(r, [op |-> "register", email |-> e])
  /\ UNCHANGED <<userVars, oidcVars>>

FinishRegister(r) ==
  /\ work[r].op = "register"
  /\ Insert(work[r].email, "admin", TRUE)
  /\ Done(r)
  /\ UNCHANGED <<confirmed, oidcVars>>

\* requireRole("admin"): the role of the token.
IsAdmin(a) == <<a, "admin">> \in access

\* POST /settings/users, as far as hashPassword.
CreateUser(r, e, role) ==
  /\ \E a \in Ids : IsAdmin(a)
  /\ ~HasEmail(e)
  /\ Wait(r, [op |-> "create", email |-> e, role |-> role])
  /\ UNCHANGED <<userVars, oidcVars>>

FinishCreate(r) ==
  /\ work[r].op = "create"
  /\ Insert(work[r].email, work[r].role, TRUE)
  /\ Done(r)
  /\ UNCHANGED <<confirmed, oidcVars>>

\* UPDATE users SET <what the request names>.
SetRole(u, role) == IF role = Keep THEN UNCHANGED <<named, access>> ELSE Grant(u, role)

\* PATCH /settings/users/:id without a password does not wait.
PatchRole(u, role) ==
  /\ \E a \in Ids : IsAdmin(a)
  /\ Exists(u)
  /\ rows' = [rows EXCEPT ![u].role = role]
  /\ SetRole(u, role)
  /\ UNCHANGED <<work, confirmed, oidcVars>>

\* PATCH /settings/users/:id with a new password, as far as hashPassword.
Patch(r, u, role) ==
  /\ \E a \in Ids : IsAdmin(a)
  /\ Exists(u)
  /\ Wait(r, [op |-> "patch", id |-> u, role |-> role, was |-> rows[u].role])
  /\ UNCHANGED <<userVars, oidcVars>>

FinishWholeRow(r) ==           \* mutant: all columns are written as they were read
  /\ work[r].op = "patch"
  /\ LET u == work[r].id  role == work[r].role IN
     IF Exists(u)
     THEN /\ rows' = [rows EXCEPT ![u].password = TRUE,
                                  ![u].role = IF role = Keep THEN work[r].was ELSE role]
          /\ SetRole(u, role)
     ELSE UNCHANGED <<rows, named, access>>
  /\ Done(r)
  /\ UNCHANGED <<confirmed, oidcVars>>

\* Only the columns the request names are written.
FinishPatch(r) ==
  /\ work[r].op = "patch"
  /\ LET u == work[r].id  role == work[r].role IN
     IF Exists(u)
     THEN /\ rows' = [rows EXCEPT ![u].password = TRUE,
                                  ![u].role = IF role = Keep THEN @ ELSE role]
          /\ SetRole(u, role)
     ELSE UNCHANGED <<rows, named, access>>
  /\ Done(r)
  /\ UNCHANGED <<confirmed, oidcVars>>

DeleteSoftly(u) ==             \* mutant: a state of the row that no reader knows
  /\ \E a \in Ids \ {u} : IsAdmin(a)
  /\ Exists(u)
  /\ rows' = [rows EXCEPT ![u].state = "disabled"]
  /\ UNCHANGED <<access, work, confirmed, named, oidcVars>>

\* DELETE /settings/users/:id: any account but one's own.
DeleteUser(u) ==
  /\ \E a \in Ids \ {u} : IsAdmin(a)
  /\ Exists(u)
  /\ rows' = [rows EXCEPT ![u] = [NoRow EXCEPT !.state = "deleted"]]
  /\ named' = [named EXCEPT ![u] = Keep]
  /\ confirmed' = confirmed \ {u}
  /\ UNCHANGED <<access, work, oidcVars>>

-----------------------------------------------------------------------------
(* The second factor. Each request carries an access token of its user.    *)

HasToken(u) == \E role \in Roles : <<u, role>> \in access

SetupAgain(u) ==               \* mutant: totp_enabled is not looked at
  /\ HasToken(u) /\ Exists(u)
  /\ rows' = [rows EXCEPT ![u].secret = TRUE]
  /\ confirmed' = confirmed \ {u}
  /\ UNCHANGED <<access, work, named, oidcVars>>

\* POST /auth/totp/setup: a new secret, which nobody has seen yet.
SetupTotp(u) ==
  /\ HasToken(u) /\ Exists(u) /\ ~rows[u].enabled
  /\ rows' = [rows EXCEPT ![u].secret = TRUE]
  /\ confirmed' = confirmed \ {u}
  /\ UNCHANGED <<access, work, named, oidcVars>>

\* POST /auth/totp/confirm, with a code of the secret that is stored now.
ConfirmTotp(u) ==
  /\ HasToken(u) /\ Exists(u) /\ rows[u].secret
  /\ rows' = [rows EXCEPT ![u].enabled = TRUE]
  /\ confirmed' = confirmed \cup {u}
  /\ UNCHANGED <<access, work, named, oidcVars>>

\* POST /auth/totp/disable, as far as verifyPassword.
DisableTotp(r, u) ==
  /\ HasToken(u) /\ Exists(u) /\ rows[u].password
  /\ Wait(r, [op |-> "disable", id |-> u])
  /\ UNCHANGED <<userVars, oidcVars>>

FinishDisable(r) ==
  /\ work[r].op = "disable"
  /\ LET u == work[r].id IN
     \/ /\ rows' = IF Exists(u) THEN [rows EXCEPT ![u].enabled = FALSE, ![u].secret = FALSE] ELSE rows
        /\ confirmed' = confirmed \ {u}
     \/ UNCHANGED <<rows, confirmed>>     \* the password is wrong
  /\ Done(r)
  /\ UNCHANGED <<access, named, oidcVars>>

-----------------------------------------------------------------------------
(* Single sign-on.                                                         *)

\* findOrCreateSsoUser: the first row is an administrator's.
FindOrCreate(e) ==
  IF HasEmail(e) THEN UNCHANGED <<rows, named, access>>   \* only sso_provider and sso_id change
  ELSE Insert(e, IF Present = {} THEN "admin" ELSE "viewer", FALSE)

\* POST /auth/sso/ldap/login; the binds and the search are the library's.
LdapLogin(e) ==
  /\ FindOrCreate(e)
  /\ UNCHANGED <<work, confirmed, oidcVars>>

\* resolveOidcSettings: the database first, then the environment.
Resolved == IF ssoRow # NoSettings THEN ssoRow ELSE EnvSettings

\* PUT /settings/sso/oidc: a row that is not enabled counts for none.
PutSettings(redirect, enabled) ==
  /\ \E a \in Ids : IsAdmin(a)
  /\ changes < MaxChanges
  /\ changes' = changes + 1
  /\ ssoRow' = IF enabled THEN [version |-> changes + 1, redirect |-> redirect] ELSE NoSettings
  /\ cached' = NoSettings
  /\ UNCHANGED <<userVars, work, states>>

\* DELETE /settings/sso/oidc leaves the cache as it is.
DeleteSettings ==
  /\ \E a \in Ids : IsAdmin(a)
  /\ ssoRow # NoSettings
  /\ ssoRow' = NoSettings
  /\ UNCHANGED <<userVars, work, changes, cached, states>>

\* The redirect to the provider, with a new state: the client is the cached one's,
\* the redirect URI that of the settings in force. Without any the login fails, its
\* state unknown to everybody.
OpenState(client) ==
  \E s \in States :
    /\ states[s].phase = "new"
    /\ states' = [states EXCEPT ![s] =
         IF Resolved = NoSettings THEN [phase |-> "gone", settings |-> NoSettings]
         ELSE [phase |-> "open", settings |-> [version |-> client.version, redirect |-> Resolved.redirect]]]

\* GET /auth/sso/oidc/login, as far as discovery if nothing is cached.
OidcLogin(r) ==
  /\ Resolved # NoSettings
  /\ IF cached = NoSettings
     THEN Wait(r, [op |-> "discover", settings |-> Resolved]) /\ UNCHANGED states
     ELSE OpenState(cached) /\ UNCHANGED work
  /\ UNCHANGED <<userVars, ssoRow, changes, cached>>

CallbackKeepsState(r, s) ==    \* mutant: the state is left to its timer
  /\ Resolved # NoSettings
  /\ states[s].phase = "open"
  /\ IF cached = NoSettings
     THEN Wait(r, [op |-> "rediscover", settings |-> Resolved, state |-> s])
     ELSE Wait(r, [op |-> "grant", settings |-> cached, state |-> s])
  /\ UNCHANGED <<userVars, ssoRow, changes, cached, states>>

\* GET /auth/sso/oidc/callback, as far as its first await. The state is deleted before it.
OidcCallback(r, s) ==
  /\ Resolved # NoSettings
  /\ states[s].phase = "open"
  /\ states' = [states EXCEPT ![s].phase = "used"]
  /\ IF cached = NoSettings
     THEN Wait(r, [op |-> "rediscover", settings |-> Resolved, state |-> s])
     ELSE Wait(r, [op |-> "grant", settings |-> cached, state |-> s])
  /\ UNCHANGED <<userVars, ssoRow, changes, cached>>

\* discovery() has answered: its result is cached, whatever has been saved since.
FinishDiscovery(r) ==
  /\ work[r].op \in {"discover", "rediscover"}
  /\ cached' = work[r].settings
  /\ IF work[r].op = "discover" THEN Done(r) /\ OpenState(work[r].settings)
     ELSE /\ work' = [work EXCEPT ![r] = [op |-> "grant", settings |-> @.settings, state |-> @.state]]
          /\ UNCHANGED states
  /\ UNCHANGED <<userVars, ssoRow, changes>>

\* discovery() has failed: a callback also clears the cache.
FailDiscovery(r) ==
  /\ work[r].op \in {"discover", "rediscover"}
  /\ IF work[r].op = "discover" THEN UNCHANGED cached ELSE cached' = NoSettings
  /\ Done(r)
  /\ UNCHANGED <<userVars, ssoRow, changes, states>>

\* The code is exchanged: the provider wants the client and the redirect URI the
\* login was sent with, and the callback sends the URI of the environment. Whether
\* these are the settings in force does not matter.
Accepted(w) ==
  /\ w.settings.version = states[w.state].settings.version
  /\ states[w.state].settings.redirect = "env"

\* An answer without an e-mail address is refused, an error also clears the cache.
FinishGrant(r) ==
  LET w == work[r] IN
  /\ w.op = "grant"
  /\ \/ Accepted(w) /\ (\E e \in Emails : FindOrCreate(e)) /\ UNCHANGED cached
     \/ UNCHANGED <<rows, named, access>> /\ (cached' = NoSettings \/ (Accepted(w) /\ UNCHANGED cached))
  /\ Done(r)
  /\ UNCHANGED <<confirmed, ssoRow, changes, states>>

\* Ten minutes.
StateEnds(s) ==
  /\ states[s].phase = "open"
  /\ states' = [states EXCEPT ![s] = [phase |-> "gone", settings |-> NoSettings]]
  /\ UNCHANGED <<userVars, work, ssoRow, changes, cached>>

-----------------------------------------------------------------------------
UserRequests ==
  \/ \E u \in Ids : \/ DeleteUser(u) \/ SetupTotp(u) \/ ConfirmTotp(u)
                    \/ \E role \in Roles : PatchRole(u, role)
  \/ \E r \in Requests, e \in Emails : \/ Register(r, e)
                                       \/ \E role \in NewRoles : CreateUser(r, e, role)
  \/ \E r \in Requests, u \in Ids : \/ DisableTotp(r, u)
                                    \/ \E role \in NewRoles \cup {Keep} : Patch(r, u, role)
  \/ \E r \in Requests : FinishRegister(r) \/ FinishCreate(r) \/ FinishPatch(r) \/ FinishDisable(r)

Oidc ==
  \/ \E redirect \in Redirects, enabled \in BOOLEAN : PutSettings(redirect, enabled)
  \/ DeleteSettings
  \/ \E e \in Emails : LdapLogin(e)
  \/ \E s \in States : \/ StateEnds(s)
                       \/ \E r \in Requests : OidcCallback(r, s)
  \/ \E r \in Requests : OidcLogin(r) \/ FinishDiscovery(r) \/ FailDiscovery(r) \/ FinishGrant(r)

Next == UserRequests \/ Oidc

Spec == Init /\ [][Next]_vars

-----------------------------------------------------------------------------
\* Type correctness of rows, tokens, waiting requests, settings and the OIDC state.
TypeOK ==
  /\ rows \in [Ids -> Row]
  /\ access \subseteq Ids \X Roles
  /\ work \in [Requests -> Pending]
  /\ ssoRow \in MaybeSettings /\ cached \in MaybeSettings
  /\ changes \in 0..MaxChanges
  /\ states \in [States -> State]
  /\ confirmed \subseteq Ids
  /\ named \in [Ids -> Roles \cup {Keep}]

\* A user who must enter a code has shown a code of the very secret that is stored:
\* no order of setups, confirmations and a disable that waits for the password
\* check leaves an enabled secret nobody has confirmed (auth.ts:166-223).
EnabledSecretConfirmed ==
  \A u \in Present : rows[u].enabled => rows[u].secret /\ u \in confirmed

\* A request that waits for a new password, and was read before the role was changed,
\* does not undo that change, nor does a single sign-on (settings.ts:298-312).
RoleAsLastNamed == \A u \in Present : rows[u].role = named[u]

\* A callback that waits, for a discovery or for the exchange of its code.
Answering(r) == work[r].op \in {"rediscover", "grant"}

\* A login is answered once: whatever waits, fails or is changed in between, no two
\* callbacks exchange a code for one state, and none is under way for a state that
\* another could still take (sso.ts:115-128).
OneExchangePerLogin ==
  \A r \in Requests : Answering(r) =>
    /\ states[work[r].state].phase = "used"
    /\ \A q \in Requests : Answering(q) /\ work[q].state = work[r].state => q = r

\* FALSE of the code: "No restart is required — changes take effect immediately"
\* (README.md:335). A discovery that was under way caches the settings before the
\* change, and DELETE leaves the cache to the settings that are gone.
CacheInForce == cached \in {NoSettings, Resolved}
=============================================================================
