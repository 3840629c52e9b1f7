------------------------------ MODULE Session ------------------------------
(***************************************************************************)
(* Sessions of the web UI: the refresh_tokens table, the cookies of one    *)
(* browser and the requests its tabs have under way. A request that is     *)
(* answered 401 asks /auth/refresh for a new pair of cookies and is sent   *)
(* once more (web/src/api/client.ts); every tab does so for itself, with   *)
(* the cookies they all share, and each refresh revokes the token it used. *)
(*                                                                         *)
(* An element of Tabs is a tab with one request under way; several requests*)
(* of one page are several tabs. Cookies are attached when a request is    *)
(* sent and set when its answer arrives. A handler is one step, except for *)
(* the login: it waits for the password check between reading the user and *)
(* issuing the token. The access token is a signed statement that names the*)
(* user and says nothing of the row; it ends by its age alone.             *)
(*                                                                         *)
(* Bounds: MaxTokens rows, MaxLosses requests or answers lost.             *)
(***************************************************************************)
EXTENDS Naturals

CONSTANTS
  Users,     \* ids of rows of users
  NoUser,
  Tabs,
  MaxTokens,
  MaxLosses

ASSUME SessionAssumption ==
  /\ NoUser \notin Users
  /\ MaxTokens \in Nat \ {0}
  /\ MaxLosses \in Nat

VARIABLES
  users,   \* database: rows of users
  totp,    \* database: those with totp_enabled and a secret
  tokens,  \* database: refresh_tokens, numbered as they were inserted
  jar,     \* browser: the cookies access_token and refresh_token
  tabs,    \* browser: AuthContext's user, and the request under way
  losses,  \* requests and answers lost so far
  spoilt   \* history: logins of which an answer with cookies was lost

dbVars      == <<users, totp, tokens>>
sessionVars == <<dbVars, jar, tabs, losses, spoilt>>

NoToken  == 0
TokenIds == 1..MaxTokens
MaybeUser  == Users \cup {NoUser}
MaybeToken == TokenIds \cup {NoToken}

\* login: the token the login was answered with. deleted: gone with its user.
TokenRow == [state : {"unused", "live", "revoked", "expired", "deleted"},
             user : MaybeUser, login : MaybeToken]

\* load: AuthContext asks /auth/me, on a page that knows no user yet. api: any other request.
\* sso: the browser comes back from the identity provider.
Calls   == {"none", "load", "api", "login", "totp", "sso", "logout"}
Stages  == {"first", "refresh", "retry"}
Request == [call : Calls, stage : Stages,
            at : {"idle", "sent", "checking", "answered"},
            access : MaybeUser,     \* the cookies it carries
            refresh : MaybeToken,
            status : {"none", "ok", "401", "totp", "error"},
            set : MaybeToken]       \* the refresh_token cookie of the answer

Tab == [user : MaybeUser,   \* what the page believes
        who : MaybeUser,    \* whom the login form or the totpToken names
        req : Request]

Quiet == [call |-> "none", stage |-> "first", at |-> "idle", access |-> NoUser,
          refresh |-> NoToken, status |-> "none", set |-> NoToken]

SessionInit ==
  /\ users = Users
  /\ totp \in SUBSET Users
  /\ tokens = [t \in TokenIds |-> [state |-> "unused", user |-> NoUser, login |-> NoToken]]
  /\ jar = [access |-> NoUser, refresh |-> NoToken]
  /\ tabs = [p \in Tabs |-> [user |-> NoUser, who |-> NoUser, req |-> Quiet]]
  /\ losses = 0
  /\ spoilt = {}

-----------------------------------------------------------------------------
(* The browser sends.                                                      *)

\* Only /auth/refresh is under the path of the refresh_token cookie.
Sent(call, stage, cookies) ==
  [Quiet EXCEPT !.call = call, !.stage = stage, !.at = "sent",
                !.access = IF stage = "refresh" THEN NoUser ELSE cookies.access,
                !.refresh = IF stage = "refresh" THEN cookies.refresh ELSE NoToken]

Start(p, call) ==
  /\ tabs[p].req = Quiet
  /\ tabs' = [tabs EXCEPT ![p].req = Sent(call, "first", jar)]
  /\ UNCHANGED <<dbVars, jar, losses, spoilt>>

\* The page is loaded: the context knows no user until /auth/me is answered.
Load(p) ==
  /\ tabs[p].req = Quiet
  /\ tabs' = [tabs EXCEPT ![p] = [user |-> NoUser, who |-> NoUser, req |-> Sent("load", "first", jar)]]
  /\ UNCHANGED <<dbVars, jar, losses, spoilt>>

Ask(p)    == tabs[p].user # NoUser /\ Start(p, "api")
Logout(p) == tabs[p].user # NoUser /\ Start(p, "logout")

\* Login.tsx, which is shown as long as the context knows no user.
Login(p, u) ==
  /\ tabs[p].user = NoUser /\ tabs[p].req = Quiet
  /\ tabs' = [tabs EXCEPT ![p].who = u, ![p].req = Sent("login", "first", jar)]
  /\ UNCHANGED <<dbVars, jar, losses, spoilt>>

\* GET /auth/sso/oidc/callback, by way of the identity provider.
SsoReturn(p, u) ==
  /\ tabs[p].user = NoUser /\ tabs[p].req = Quiet
  /\ tabs' = [tabs EXCEPT ![p].who = u, ![p].req = Sent("sso", "first", jar)]
  /\ UNCHANGED <<dbVars, jar, losses, spoilt>>

-----------------------------------------------------------------------------
(* The server handles a request.                                           *)

At(p, at, call, stages) ==
  /\ tabs[p].req.at = at
  /\ tabs[p].req.call = call
  /\ tabs[p].req.stage \in stages

Answer(p, status, set) ==
  tabs' = [tabs EXCEPT ![p].req.at = "answered", ![p].req.status = status, ![p].req.set = set]

Refuse(p) == Answer(p, "401", NoToken) /\ UNCHANGED <<users, totp, tokens>>

Unused == {t \in TokenIds : tokens[t].state = "unused"}

\* INSERT INTO refresh_tokens; the row of the user must exist.
Issue(p, u, login, revoked) ==
  /\ \E new \in Unused :
     /\ \A t \in Unused : new <= t
     /\ tokens' = [t \in TokenIds |->
          IF t = new THEN [state |-> "live", user |-> u,
                           login |-> IF login = NoToken THEN new ELSE login]
          ELSE IF t = revoked THEN [tokens[t] EXCEPT !.state = "revoked"] ELSE tokens[t]]
     /\ Answer(p, "ok", new)
  /\ UNCHANGED <<users, totp>>

\* requireAuth: the token in the cookie, not the row. /auth/me reads the row.
HandleCall(p) ==
  /\ \E call \in {"load", "api"} : At(p, "sent", call, {"first", "retry"})
  /\ LET u == tabs[p].req.access IN
     IF u = NoUser THEN Refuse(p)
     ELSE /\ Answer(p, IF tabs[p].req.call = "api" \/ u \in users THEN "ok" ELSE "error", NoToken)
          /\ UNCHANGED <<users, totp, tokens>>
  /\ UNCHANGED <<jar, losses, spoilt>>

\* POST /auth/logout. The refresh_token cookie is not sent to this path.
HandleLogout(p) ==
  /\ At(p, "sent", "logout", {"first", "retry"})
  /\ IF tabs[p].req.access = NoUser THEN Refuse(p)
     ELSE /\ tokens' = [t \in TokenIds |-> IF t = tabs[p].req.refresh
                          THEN [tokens[t] EXCEPT !.state = "revoked"] ELSE tokens[t]]
          /\ Answer(p, "ok", NoToken)
          /\ UNCHANGED <<users, totp>>
  /\ UNCHANGED <<jar, losses, spoilt>>

\* POST /auth/login reads the row and starts to verify the password.
HandleLogin(p) ==
  /\ At(p, "sent", "login", {"first", "retry"})
  /\ IF tabs[p].who \notin users THEN Refuse(p)
     ELSE \* req.status keeps what the row said of the second factor
          /\ tabs' = [tabs EXCEPT ![p].req.at = "checking",
                        ![p].req.status = IF tabs[p].who \in totp THEN "totp" ELSE "none"]
          /\ UNCHANGED <<users, totp, tokens>>
  /\ UNCHANGED <<jar, losses, spoilt>>

IssueUnowned(p) ==             \* mutant: no foreign key
  /\ At(p, "checking", "login", {"first", "retry"})
  /\ Issue(p, tabs[p].who, NoToken, NoToken)
  /\ UNCHANGED <<jar, losses, spoilt>>

\* The password has been verified. A row deleted meanwhile makes the INSERT fail.
FinishLogin(p) ==
  /\ At(p, "checking", "login", {"first", "retry"})
  /\ LET u == tabs[p].who IN
     \/ Refuse(p)
     \/ /\ tabs[p].req.status = "totp"
        /\ Answer(p, "totp", NoToken) /\ UNCHANGED <<users, totp, tokens>>
     \/ /\ tabs[p].req.status = "none"
        /\ IF u \in users THEN Issue(p, u, NoToken, NoToken)
           ELSE Answer(p, "error", NoToken) /\ UNCHANGED <<users, totp, tokens>>
  /\ UNCHANGED <<jar, losses, spoilt>>

\* POST /auth/totp/verify: the code, or the five minutes of the token, may be wrong.
HandleTotp(p) ==
  /\ At(p, "sent", "totp", {"first", "retry"})
  /\ \/ Refuse(p)
     \/ tabs[p].who \in users \cap totp /\ Issue(p, tabs[p].who, NoToken, NoToken)
  /\ UNCHANGED <<jar, losses, spoilt>>

\* issueSessionAndRedirect, or the callback fails. Accounts has the user and the state.
HandleSso(p) ==
  /\ At(p, "sent", "sso", {"first"})
  /\ \/ Answer(p, "error", NoToken) /\ UNCHANGED <<users, totp, tokens>>
     \/ tabs[p].who \in users /\ Issue(p, tabs[p].who, NoToken, NoToken)
  /\ UNCHANGED <<jar, losses, spoilt>>

RefreshUsed(p) ==              \* mutant: revoked_at is not looked at
  LET t == tabs[p].req.refresh IN
  /\ tabs[p].req.at = "sent" /\ tabs[p].req.stage = "refresh"
  /\ IF t = NoToken THEN Refuse(p)
     ELSE IF tokens[t].state \notin {"live", "revoked"} THEN Refuse(p)
     ELSE Issue(p, tokens[t].user, tokens[t].login, t)
  /\ UNCHANGED <<jar, losses, spoilt>>

RefreshSilently(p) ==          \* mutant: the new refresh token is not sent
  LET t == tabs[p].req.refresh IN
  /\ tabs[p].req.at = "sent" /\ tabs[p].req.stage = "refresh"
  /\ IF t = NoToken THEN Refuse(p)
     ELSE IF tokens[t].state # "live" THEN Refuse(p)
     ELSE /\ tokens' = [tokens EXCEPT ![t].state = "revoked"]
          /\ Answer(p, "ok", NoToken)
          /\ UNCHANGED <<users, totp>>
  /\ UNCHANGED <<jar, losses, spoilt>>

\* POST /auth/refresh: the check, the revocation and the successor in one step.
HandleRefresh(p) ==
  LET t == tabs[p].req.refresh IN
  /\ tabs[p].req.at = "sent" /\ tabs[p].req.stage = "refresh"
  /\ IF t = NoToken THEN Refuse(p)
     ELSE IF tokens[t].state # "live" \/ tokens[t].user \notin users THEN Refuse(p)
     ELSE Issue(p, tokens[t].user, tokens[t].login, t)
  /\ UNCHANGED <<jar, losses, spoilt>>

-----------------------------------------------------------------------------
(* The answer arrives.                                                     *)

\* setTokenCookies, or clearCookie of both.
JarAfter(req) ==
  IF req.set # NoToken THEN [access |-> tokens[req.set].user, refresh |-> req.set]
  ELSE IF req.call = "logout" /\ req.stage # "refresh" /\ req.status = "ok"
       THEN [access |-> NoUser, refresh |-> NoToken]
  ELSE jar

\* What the caller makes of the answer that request() returns or throws.
Ended(tab, status) ==
  CASE tab.req.call = "load" ->
         [tab EXCEPT !.user = IF status = "ok" THEN tab.req.access ELSE NoUser, !.req = Quiet]
    [] tab.req.call = "login" /\ status = "ok" ->
         [tab EXCEPT !.user = tab.who, !.who = NoUser, !.req = Quiet]
    [] tab.req.call = "login" /\ status = "totp" ->      \* the form asks for the code
         [tab EXCEPT !.req = Sent("totp", "first", jar)]
    [] tab.req.call \in {"totp", "sso"} /\ status = "ok" -> \* the page is loaded
         [tab EXCEPT !.who = NoUser, !.req = Sent("load", "first", JarAfter(tab.req))]
    [] tab.req.call = "logout" -> [tab EXCEPT !.user = NoUser, !.req = Quiet]
    [] OTHER -> [tab EXCEPT !.who = NoUser, !.req = Quiet]

\* request(): a first 401 asks for a refresh, a refresh that went well sends again.
Receive(p) ==
  LET req == tabs[p].req IN
  /\ req.at = "answered"
  /\ jar' = JarAfter(req)
  /\ tabs' = [tabs EXCEPT ![p] =
       IF req.stage = "first" /\ req.status = "401"
         THEN [@ EXCEPT !.req = Sent(req.call, "refresh", jar)]
       ELSE IF req.stage = "refresh" /\ req.status = "ok"
         THEN [@ EXCEPT !.req = Sent(req.call, "retry", JarAfter(req))]
       ELSE Ended(@, IF req.stage = "refresh" THEN "401" ELSE req.status)]
  /\ UNCHANGED <<dbVars, losses, spoilt>>

\* fetch() rejects: the request or its answer was lost.
Lose(p) ==
  /\ losses < MaxLosses
  /\ tabs[p].req.at \in {"sent", "answered"}
  /\ losses' = losses + 1
  /\ spoilt' = IF tabs[p].req.set = NoToken THEN spoilt
               ELSE spoilt \cup {tokens[tabs[p].req.set].login}
  /\ tabs' = [tabs EXCEPT ![p] = Ended(@, "error")]
  /\ UNCHANGED <<dbVars, jar>>

-----------------------------------------------------------------------------
(* Time, and other handlers of the server.                                 *)

\* Fifteen minutes: the cookie and the token it holds end together.
AccessEnds ==
  /\ jar.access # NoUser
  /\ jar' = [jar EXCEPT !.access = NoUser]
  /\ UNCHANGED <<dbVars, tabs, losses, spoilt>>

\* Seven days without a refresh.
RefreshEnds(t) ==
  /\ tokens[t].state = "live"
  /\ tokens' = [tokens EXCEPT ![t].state = "expired"]
  /\ UNCHANGED <<users, totp, jar, tabs, losses, spoilt>>

\* POST /auth/totp/confirm and /auth/totp/disable.
ChangeTotp(u) ==
  /\ u \in users
  /\ totp' = IF u \in totp THEN totp \ {u} ELSE totp \cup {u}
  /\ UNCHANGED <<users, tokens, jar, tabs, losses, spoilt>>

DeleteRowOnly(u) ==            \* mutant: what refers to the row stays
  /\ u \in users
  /\ users' = users \ {u}
  /\ UNCHANGED <<totp, tokens, jar, tabs, losses, spoilt>>

\* DELETE /settings/users/:id; the tokens go with the row.
DeleteWithTokens(u) ==
  /\ u \in users
  /\ users' = users \ {u}
  /\ totp' = totp \ {u}
  /\ tokens' = [t \in TokenIds |-> IF tokens[t].user = u
                  THEN [tokens[t] EXCEPT !.state = "deleted"] ELSE tokens[t]]
  /\ UNCHANGED <<jar, tabs, losses, spoilt>>

Browser(p) == Load(p) \/ Ask(p) \/ Logout(p) \/ \E u \in Users : Login(p, u) \/ SsoReturn(p, u)

Server(p) == \/ HandleCall(p) \/ HandleLogout(p) \/ HandleLogin(p)
             \/ FinishLogin(p) \/ HandleTotp(p) \/ HandleSso(p)
             \/ HandleRefresh(p)

SessionNext ==
  \/ \E p \in Tabs : Browser(p) \/ Server(p) \/ Receive(p) \/ Lose(p)
  \/ AccessEnds
  \/ \E t \in TokenIds : RefreshEnds(t)
  \/ \E u \in Users : ChangeTotp(u) \/ DeleteWithTokens(u)

SessionSpec == SessionInit /\ [][SessionNext]_sessionVars

-----------------------------------------------------------------------------
\* Type correctness of the rows, the cookies and the tabs; tokens only of users.
SessionTypeOK ==
  /\ users \subseteq Users
  /\ totp \subseteq users
  /\ tokens \in [TokenIds -> TokenRow]
  /\ jar \in [access : MaybeUser, refresh : MaybeToken]
  /\ tabs \in [Tabs -> Tab]
  /\ losses \in 0..MaxLosses
  /\ spoilt \subseteq TokenIds

Live(t) == t \in TokenIds /\ tokens[t].state = "live"

\* However many tabs use one refresh token at once, and whatever is lost or sent
\* again: a login has at most one token that can be refreshed (auth.ts:258-297).
OneLiveTokenPerLogin ==
  \A s, t \in TokenIds : Live(s) /\ Live(t) /\ tokens[s].login = tokens[t].login => s = t

\* A login that was waiting for the password check while its user was deleted
\* leaves no session behind: every live token has its user (auth.ts:64-95).
LiveTokensOwned == \A t \in TokenIds : Live(t) => tokens[t].user \in users

\* The refresh_token cookie of the browser can be used, or its successor is on
\* the way, as long as no answer of its login was lost, the user was not deleted
\* and it was used within seven days: no order in which the tabs refresh, log in,
\* log out and get their answers strands the browser (client.ts:10-24).
JarRenewable ==
  LET t == jar.refresh IN
  t # NoToken =>
    \/ tokens[t].state \in {"live", "expired", "deleted"}
    \/ tokens[t].login \in spoilt
    \/ \E p \in Tabs : LET new == tabs[p].req.set IN
         new # NoToken /\ tokens[new].login = tokens[t].login
                       /\ tokens[new].state \in {"live", "expired", "deleted"}
=============================================================================
