----------------------------- MODULE Auth_proofs -----------------------------
(* Proofs about the two halves of login and users: Session, for every      *)
(* number of users, tabs, tokens and losses, and Accounts, for every number*)
(* of accounts, requests, OIDC logins and changes of the settings; and,    *)
(* after them, about an agent's credentials and what it does with them:    *)
(* K8sAgent, for every number of jobs, destinations, backups and failures. *)
EXTENDS Session, Accounts, K8sAgent, SequenceTheorems, TLAPS

-----------------------------------------------------------------------------
(* Session.                                                                *)

LEMMA TokenFacts ==
  /\ NoToken \notin TokenIds
  /\ TokenIds \subseteq Nat
  BY SessionAssumption DEF NoToken, TokenIds

-----------------------------------------------------------------------------
\* Inductive. A row that was inserted names its user and its login, whose own row
\* was inserted, so that a new login starts with a number of its own; the cookie of
\* an answer is such a row; a request that is not a refresh carries no refresh_token.
Issued(t) == tokens[t].state # "unused"

RowsFormed ==
  \A t \in TokenIds : Issued(t) => /\ tokens[t].user \in Users
                                   /\ tokens[t].login \in TokenIds
                                   /\ Issued(tokens[t].login)

NoRowNoUser == \A t \in TokenIds : ~Issued(t) => tokens[t].user = NoUser

AnswersIssued == \A p \in Tabs : tabs[p].req.set # NoToken => Issued(tabs[p].req.set)

CookieOnlyRefreshes ==
  \A p \in Tabs : tabs[p].req.stage # "refresh" => tabs[p].req.refresh = NoToken

RowInv     == RowsFormed /\ NoRowNoUser /\ OneLiveTokenPerLogin /\ LiveTokensOwned
RequestInv == AnswersIssued /\ CookieOnlyRefreshes
SessionInv == SessionTypeOK /\ RowInv /\ RequestInv

LEMMA InitSessionInv == ASSUME SessionInit PROVE SessionInv
<1>1. Quiet \in Request
  BY DEF Quiet, Request, Calls, Stages, MaybeUser, MaybeToken
<1>2. SessionTypeOK
  BY <1>1, SessionAssumption DEF SessionInit, SessionTypeOK, TokenRow, Tab, MaybeUser, MaybeToken
<1>3. RowInv
  BY DEF SessionInit, RowInv, RowsFormed, NoRowNoUser, OneLiveTokenPerLogin, LiveTokensOwned, Live, Issued
<1>4. RequestInv
  BY DEF SessionInit, RequestInv, AnswersIssued, CookieOnlyRefreshes, Quiet
<1>5. QED
  BY <1>2, <1>3, <1>4 DEF SessionInv

-----------------------------------------------------------------------------
(* Requests.                                                               *)

Jars == [access : MaybeUser, refresh : MaybeToken]

\* A request as it is sent: of its type, without an answer, and with the
\* refresh_token only if it is a refresh.
LEMMA SentFacts ==
  ASSUME NEW call \in Calls, NEW stage \in Stages, NEW cookies \in Jars
  PROVE  /\ Sent(call, stage, cookies) \in Request
         /\ Sent(call, stage, cookies).set = NoToken
         /\ stage # "refresh" => Sent(call, stage, cookies).refresh = NoToken
         /\ Sent(call, stage, cookies).stage = stage
  BY DEF Sent, Quiet, Request, Calls, Stages, MaybeUser, MaybeToken, Jars

LEMMA QuietFacts ==
  /\ Quiet \in Request /\ Quiet.set = NoToken /\ Quiet.refresh = NoToken
  BY DEF Quiet, Request, Calls, Stages, MaybeUser, MaybeToken

\* What a request may be, given the rows as they are or as they will be.
Fit(req) ==
  /\ req \in Request
  /\ req.set # NoToken => Issued(req.set)
  /\ req.stage # "refresh" => req.refresh = NoToken

LEMMA SentFits ==
  ASSUME NEW call \in Calls, NEW stage \in Stages, NEW cookies \in Jars
  PROVE  Fit(Sent(call, stage, cookies))
  BY SentFacts DEF Fit

LEMMA QuietFits == Fit(Quiet)
  BY QuietFacts DEF Fit

LEMMA TabFits ==
  ASSUME SessionInv, NEW p \in Tabs
  PROVE  tabs[p] \in Tab /\ Fit(tabs[p].req)
  BY DEF SessionInv, SessionTypeOK, RequestInv, AnswersIssued, CookieOnlyRefreshes, Fit, Tab

\* A step that replaces one tab, of rows that stay as they are.
LEMMA TabStep ==
  ASSUME SessionInv, NEW p \in Tabs, NEW tab \in Tab, Fit(tab.req),
         tabs' = [tabs EXCEPT ![p] = tab], UNCHANGED tokens
  PROVE  tabs' \in [Tabs -> Tab] /\ RequestInv'
<1>1. tabs \in [Tabs -> Tab]
  BY DEF SessionInv, SessionTypeOK
<1>2. tabs' \in [Tabs -> Tab]
  BY <1>1
<1>3. ASSUME NEW q \in Tabs
      PROVE  /\ tabs'[q].req.set # NoToken => tokens'[tabs'[q].req.set].state # "unused"
             /\ tabs'[q].req.stage # "refresh" => tabs'[q].req.refresh = NoToken
  <2>1. CASE q = p
    BY <1>1, <2>1 DEF Fit, Issued
  <2>2. CASE q # p
    <3>1. tabs'[q] = tabs[q]
      BY <1>1, <2>2
    <3>2. QED
      BY <3>1, TabFits DEF Fit, Issued
  <2>3. QED
    BY <2>1, <2>2
<1>4. QED
  BY <1>2, <1>3 DEF RequestInv, AnswersIssued, CookieOnlyRefreshes, Issued

\* A tab, field by field.
LEMMA TabFields ==
  ASSUME NEW tab \in Tab, NEW who, NEW req
  PROVE  /\ [tab EXCEPT !.req = req] = [user |-> tab.user, who |-> tab.who, req |-> req]
         /\ [tab EXCEPT !.who = who, !.req = req] = [user |-> tab.user, who |-> who, req |-> req]
<1>1. tab = [user |-> tab.user, who |-> tab.who, req |-> tab.req]
  BY DEF Tab
<1>2. [tab EXCEPT !.req = req] = [user |-> tab.user, who |-> tab.who, req |-> req]
  BY <1>1
<1>3. [tab EXCEPT !.who = who] = [user |-> tab.user, who |-> who, req |-> tab.req]
  BY <1>1
<1>4. [tab EXCEPT !.who = who, !.req = req] = [[tab EXCEPT !.who = who] EXCEPT !.req = req]
  OBVIOUS
<1>5. [[user |-> tab.user, who |-> who, req |-> tab.req] EXCEPT !.req = req]
        = [user |-> tab.user, who |-> who, req |-> req]
  OBVIOUS
<1>6. QED
  BY <1>2, <1>3, <1>4, <1>5

\* Nothing about the rows depends on the tabs.
LEMMA RowsStay ==
  ASSUME SessionInv, UNCHANGED <<users, tokens>> PROVE RowInv'
  BY DEF SessionInv, RowInv, RowsFormed, NoRowNoUser, OneLiveTokenPerLogin, LiveTokensOwned, Live, Issued

LEMMA StartInv ==
  ASSUME SessionInv, NEW p \in Tabs, NEW call \in Calls, NEW who \in MaybeUser, NEW user \in MaybeUser,
         tabs' = [tabs EXCEPT ![p] = [user |-> user, who |-> who, req |-> Sent(call, "first", jar)]],
         UNCHANGED <<dbVars, jar, losses, spoilt>>
  PROVE  SessionInv'
<1> DEFINE tab == [user |-> user, who |-> who, req |-> Sent(call, "first", jar)]
<1>1. jar \in Jars /\ "first" \in Stages
  BY DEF SessionInv, SessionTypeOK, Jars, Stages
<1>2. Fit(Sent(call, "first", jar))
  BY <1>1, SentFits
<1>3. tab \in Tab /\ Fit(tab.req)
  BY <1>2 DEF Tab, Fit
<1>4. tabs' \in [Tabs -> Tab] /\ RequestInv'
  <2>1. tabs' = [tabs EXCEPT ![p] = tab] /\ UNCHANGED tokens
    BY DEF dbVars
  <2> HIDE DEF tab
  <2>2. QED
    BY <1>3, <2>1, TabStep
<1>5. RowInv'
  BY RowsStay DEF dbVars
<1>6. SessionTypeOK'
  BY <1>4 DEF SessionInv, SessionTypeOK, dbVars
<1>7. QED
  BY <1>4, <1>5, <1>6 DEF SessionInv

LEMMA BrowserInv ==
  ASSUME SessionInv, NEW p \in Tabs, Browser(p) PROVE SessionInv'
<1>1. tabs \in [Tabs -> Tab] /\ tabs[p] \in Tab
  BY TabFits DEF SessionInv, SessionTypeOK
<1>2. NoUser \in MaybeUser /\ Users \subseteq MaybeUser
  BY DEF MaybeUser
<1>3. ASSUME NEW call \in {"api", "logout"}, Start(p, call) PROVE SessionInv'
  <2>1. tabs' = [tabs EXCEPT ![p] = [user |-> tabs[p].user, who |-> tabs[p].who,
                                     req |-> Sent(call, "first", jar)]]
    <3>1. tabs' = [tabs EXCEPT ![p] = [tabs[p] EXCEPT !.req = Sent(call, "first", jar)]]
      BY <1>1, <1>3 DEF Start
    <3>2. QED
      BY <1>1, <3>1, TabFields
  <2>2. call \in Calls
    BY DEF Calls
  <2>3. QED
    <3>1. tabs[p].user \in MaybeUser /\ tabs[p].who \in MaybeUser
      BY <1>1 DEF Tab
    <3>2. UNCHANGED <<dbVars, jar, losses, spoilt>>
      BY <1>3 DEF Start
    <3>3. QED
      BY <2>1, <2>2, <3>1, <3>2, StartInv
<1>4. CASE Load(p)
  <2>1. "load" \in Calls
    BY DEF Calls
  <2>2. QED
    BY <1>2, <1>4, <2>1, StartInv DEF Load
<1>5. ASSUME NEW call \in {"login", "sso"}, NEW u \in Users,
             tabs' = [tabs EXCEPT ![p].who = u, ![p].req = Sent(call, "first", jar)],
             UNCHANGED <<dbVars, jar, losses, spoilt>>
      PROVE  SessionInv'
  <2>1. tabs' = [tabs EXCEPT ![p] = [user |-> tabs[p].user, who |-> u,
                                     req |-> Sent(call, "first", jar)]]
    <3>1. tabs' = [tabs EXCEPT ![p] = [tabs[p] EXCEPT !.who = u, !.req = Sent(call, "first", jar)]]
      BY <1>1, <1>5
    <3>2. [tabs[p] EXCEPT !.who = u, !.req = Sent(call, "first", jar)]
            = [user |-> tabs[p].user, who |-> u, req |-> Sent(call, "first", jar)]
      BY <1>1, TabFields
    <3>3. QED
      BY <3>1, <3>2
  <2>2. call \in Calls
    BY DEF Calls
  <2>3. QED
    <3>1. tabs[p].user \in MaybeUser /\ u \in MaybeUser
      BY <1>1, <1>2 DEF Tab
    <3>2. UNCHANGED <<dbVars, jar, losses, spoilt>>
      BY <1>5
    <3>3. QED
      BY <2>1, <2>2, <3>1, <3>2, StartInv
<1>6. QED
  BY <1>3, <1>4, <1>5 DEF Browser, Ask, Logout, Login, SsoReturn

-----------------------------------------------------------------------------
(* Answers.                                                                *)

Statuses == {"none", "ok", "401", "totp", "error"}

LEMMA AnswerTypes ==
  ASSUME SessionInv, NEW p \in Tabs, NEW status \in Statuses, NEW set \in MaybeToken,
         Answer(p, status, set)
  PROVE  tabs' \in [Tabs -> Tab]
<1>1. tabs[p] \in Tab /\ tabs \in [Tabs -> Tab]
  BY TabFits DEF SessionInv, SessionTypeOK
<1> DEFINE req == [tabs[p].req EXCEPT !.at = "answered", !.status = status, !.set = set]
<1>2. req \in Request
  BY <1>1 DEF Tab, Request, Statuses
<1>3. [tabs[p] EXCEPT !.req = req] \in Tab
  BY <1>1, <1>2 DEF Tab
<1>4. tabs' = [tabs EXCEPT ![p] = [tabs[p] EXCEPT !.req = req]]
  BY <1>1 DEF Answer, Tab, Request
<1>5. QED
  BY <1>1, <1>3, <1>4

\* An answer without a cookie.
LEMMA PlainAnswer ==
  ASSUME SessionInv, NEW p \in Tabs, NEW status \in Statuses,
         Answer(p, status, NoToken), UNCHANGED <<users, totp, tokens, jar, losses, spoilt>>
  PROVE  SessionInv'
<1>1. tabs[p] \in Tab /\ tabs \in [Tabs -> Tab] /\ Fit(tabs[p].req)
  BY TabFits DEF SessionInv, SessionTypeOK
<1> DEFINE tab == [tabs[p] EXCEPT !.req = [tabs[p].req EXCEPT !.at = "answered", !.status = status,
                                                             !.set = NoToken]]
<1>2. tab \in Tab /\ Fit(tab.req)
  BY <1>1 DEF Tab, Request, Statuses, Fit, MaybeToken
<1>3. tabs' = [tabs EXCEPT ![p] = tab]
  BY <1>1 DEF Answer, Tab, Request
<1>4. tabs' \in [Tabs -> Tab] /\ RequestInv'
  <2> HIDE DEF tab
  <2>1. QED
    BY <1>2, <1>3, TabStep
<1>5. SessionTypeOK' /\ RowInv'
  BY <1>4, RowsStay DEF SessionInv, SessionTypeOK
<1>6. QED
  BY <1>4, <1>5 DEF SessionInv

\* Any answer, of rows that were changed without taking back an insertion.
LEMMA AnswerRequests ==
  ASSUME SessionInv, NEW p \in Tabs, NEW status \in Statuses, NEW set \in MaybeToken,
         Answer(p, status, set), set # NoToken => Issued(set)',
         \A t \in TokenIds : Issued(t) => Issued(t)'
  PROVE  RequestInv'
<1>1. tabs \in [Tabs -> Tab]
  BY DEF SessionInv, SessionTypeOK
<1>2. ASSUME NEW q \in Tabs
      PROVE  /\ tabs'[q].req.set # NoToken => tokens'[tabs'[q].req.set].state # "unused"
             /\ tabs'[q].req.stage # "refresh" => tabs'[q].req.refresh = NoToken
  <2>1. tabs[q] \in Tab /\ Fit(tabs[q].req)
    BY TabFits
  <2>2. CASE q = p
    <3>1. /\ tabs'[p].req.set = set
          /\ tabs'[p].req.stage = tabs[p].req.stage /\ tabs'[p].req.refresh = tabs[p].req.refresh
      BY <1>1, <2>1, <2>2 DEF Answer, Tab, Request
    <3>2. QED
      BY <2>1, <2>2, <3>1 DEF Fit, Issued
  <2>3. CASE q # p
    <3>1. tabs'[q] = tabs[q]
      BY <1>1, <2>3 DEF Answer
    <3>2. tabs[q].req.set # NoToken => tabs[q].req.set \in TokenIds
      BY <2>1 DEF Fit, Request, MaybeToken
    <3>3. QED
      BY <2>1, <3>1, <3>2 DEF Fit, Issued
  <2>4. QED
    BY <2>2, <2>3
<1>3. QED
  BY <1>2 DEF Issued, RequestInv, AnswersIssued, CookieOnlyRefreshes

\* The insertion, with the token a refresh revokes or with a login of its own.
LEMMA IssueInv ==
  ASSUME SessionInv, NEW p \in Tabs, NEW u \in users, NEW login, NEW revoked,
         \/ login = NoToken /\ revoked = NoToken
         \/ revoked \in TokenIds /\ Live(revoked) /\ login = tokens[revoked].login,
         Issue(p, u, login, revoked), UNCHANGED <<jar, losses, spoilt>>
  PROVE  SessionInv'
<1>1. tokens \in [TokenIds -> TokenRow] /\ u \in Users
  BY DEF SessionInv, SessionTypeOK
<1>2. PICK new \in Unused :
        /\ tokens' = [t \in TokenIds |->
             IF t = new THEN [state |-> "live", user |-> u,
                              login |-> IF login = NoToken THEN new ELSE login]
             ELSE IF t = revoked THEN [tokens[t] EXCEPT !.state = "revoked"] ELSE tokens[t]]
        /\ Answer(p, "ok", new)
  BY DEF Issue
<1> DEFINE own == IF login = NoToken THEN new ELSE login
<1>3. new \in TokenIds /\ ~Issued(new) /\ new # revoked /\ new # NoToken
  BY TokenFacts, <1>2 DEF Unused, Issued, Live
<1>4. revoked \in TokenIds => /\ login \in TokenIds /\ Issued(login) /\ login # new
                              /\ tokens[revoked].state = "live" /\ login # NoToken
                              /\ tokens[revoked].login = login
  BY <1>3, TokenFacts DEF SessionInv, RowInv, RowsFormed, Issued, Live
<1>5. own \in TokenIds /\ (own = new \/ Issued(own)) /\ (own # new => revoked \in TokenIds /\ own = login)
  BY <1>3, <1>4, TokenFacts
<1>6. tokens'[new] = [state |-> "live", user |-> u, login |-> own]
  BY <1>2, <1>3
<1>7. ASSUME NEW t \in TokenIds, t # new
      PROVE  /\ tokens'[t].user = tokens[t].user /\ tokens'[t].login = tokens[t].login
             /\ tokens'[t].state = IF t = revoked THEN "revoked" ELSE tokens[t].state
             /\ tokens'[t] \in TokenRow
  <2>1. tokens[t] \in TokenRow
    BY <1>1
  <2>2. QED
    BY <1>2, <1>7, <2>1 DEF TokenRow
<1> HIDE DEF own
<1>8. \A t \in TokenIds : (t # new => (Issued(t)' <=> Issued(t))) /\ (t = new => Issued(t)')
  BY <1>4, <1>6, <1>7 DEF Issued
<1>9. tokens' \in [TokenIds -> TokenRow]
  <2>1. tokens'[new] \in TokenRow
    BY <1>1, <1>5, <1>6 DEF TokenRow, MaybeUser, MaybeToken
  <2>2. \A t \in TokenIds : tokens'[t] \in TokenRow
    BY <1>7, <2>1
  <2>3. QED
    BY <1>2, <2>2
<1>10. users' = users /\ totp' = totp
  BY DEF Issue
<1>11. RowsFormed' /\ NoRowNoUser'
  <2>1. ASSUME NEW t \in TokenIds
        PROVE  /\ Issued(t)' => /\ tokens'[t].user \in Users /\ tokens'[t].login \in TokenIds
                                /\ tokens'[tokens'[t].login].state # "unused"
               /\ ~Issued(t)' => tokens'[t].user = NoUser
    <3>1. CASE t = new
      BY <1>1, <1>5, <1>6, <1>8, <3>1 DEF Issued
    <3>2. CASE t # new
      <4>1. /\ Issued(t) => /\ tokens[t].user \in Users /\ tokens[t].login \in TokenIds
                            /\ Issued(tokens[t].login)
            /\ ~Issued(t) => tokens[t].user = NoUser
        BY DEF SessionInv, RowInv, RowsFormed, NoRowNoUser
      <4>2. QED
        BY <1>7, <1>8, <3>2, <4>1 DEF Issued
    <3>3. QED
      BY <3>1, <3>2
  <2>2. QED
    BY <2>1 DEF Issued, RowsFormed, NoRowNoUser
<1>12. OneLiveTokenPerLogin'
  <2>1. ASSUME NEW t \in TokenIds, t # new, Live(t)', tokens'[t].login = own PROVE FALSE
    <3>1. t # revoked /\ Live(t) /\ tokens[t].login = own
      BY <1>7, <2>1 DEF Live
    <3>2. Issued(own)
      BY <3>1 DEF SessionInv, RowInv, RowsFormed, Live, Issued
    <3>3. revoked \in TokenIds /\ own = login
      BY <1>3, <1>5, <3>2
    <3>4. Live(revoked) /\ tokens[revoked].login = own
      BY <1>4, <3>3 DEF Live
    <3>5. QED
      BY <3>1, <3>3, <3>4 DEF SessionInv, RowInv, OneLiveTokenPerLogin
  <2>2. ASSUME NEW s \in TokenIds, NEW t \in TokenIds, Live(s)', Live(t)',
               tokens'[s].login = tokens'[t].login
        PROVE  s = t
    <3>1. CASE s = new \/ t = new
      BY <1>6, <2>1, <2>2, <3>1
    <3>2. CASE s # new /\ t # new
      <4>1. Live(s) /\ Live(t) /\ tokens[s].login = tokens[t].login
        BY <1>7, <2>2, <3>2 DEF Live
      <4>2. QED
        BY <4>1 DEF SessionInv, RowInv, OneLiveTokenPerLogin
    <3>3. QED
      BY <3>1, <3>2
  <2>3. QED
    BY <2>2 DEF OneLiveTokenPerLogin
<1>13. LiveTokensOwned'
  <2>1. ASSUME NEW t \in TokenIds, Live(t)' PROVE tokens'[t].user \in users'
    <3>1. CASE t = new
      BY <1>6, <1>10, <3>1
    <3>2. CASE t # new
      BY <1>7, <1>10, <2>1, <3>2 DEF SessionInv, RowInv, LiveTokensOwned, Live
    <3>3. QED
      BY <3>1, <3>2
  <2>2. QED
    BY <2>1 DEF LiveTokensOwned
<1>14. RequestInv' /\ tabs' \in [Tabs -> Tab]
  BY <1>2, <1>3, <1>8, AnswerRequests, AnswerTypes DEF Statuses, MaybeToken
<1>15. SessionTypeOK'
  BY <1>9, <1>10, <1>14 DEF SessionInv, SessionTypeOK
<1>16. QED
  BY <1>11, <1>12, <1>13, <1>14, <1>15 DEF SessionInv, RowInv

LEMMA ServerInv ==
  ASSUME SessionInv, NEW p \in Tabs, Server(p) PROVE SessionInv'
<1>1. tabs \in [Tabs -> Tab] /\ tabs[p] \in Tab /\ Fit(tabs[p].req)
  BY TabFits DEF SessionInv, SessionTypeOK
<1>2. ASSUME NEW status \in Statuses, Answer(p, status, NoToken),
             UNCHANGED <<users, totp, tokens, jar, losses, spoilt>>
      PROVE  SessionInv'
  BY <1>2, PlainAnswer
<1>3. Statuses = {"none", "ok", "401", "totp", "error"}
  BY DEF Statuses
<1>4. CASE HandleCall(p)
  BY <1>2, <1>3, <1>4 DEF HandleCall, Refuse
<1>5. CASE HandleLogout(p)
  <2>1. tabs[p].req.refresh = NoToken
    BY <1>1, <1>5 DEF HandleLogout, At, Fit
  <2>2. CASE tabs[p].req.access = NoUser
    BY <1>2, <1>3, <1>5, <2>2 DEF HandleLogout, Refuse
  <2>3. CASE tabs[p].req.access # NoUser
    <3>1. tokens' = [t \in TokenIds |-> tokens[t]]
      BY <1>5, <2>1, <2>3, TokenFacts DEF HandleLogout
    <3>2. tokens' = tokens
      BY <3>1 DEF SessionInv, SessionTypeOK
    <3>3. QED
      BY <1>2, <1>3, <1>5, <2>3, <3>2 DEF HandleLogout
  <2>4. QED
    BY <2>2, <2>3
<1>6. CASE HandleLogin(p)
  <2>1. CASE tabs[p].who \notin users
    BY <1>2, <1>3, <1>6, <2>1 DEF HandleLogin, Refuse
  <2>2. CASE tabs[p].who \in users
    <3> DEFINE tab == [tabs[p] EXCEPT !.req = [tabs[p].req EXCEPT !.at = "checking",
                         !.status = IF tabs[p].who \in totp THEN "totp" ELSE "none"]]
    <3>1. tab \in Tab /\ Fit(tab.req)
      BY <1>1 DEF Tab, Request, Fit
    <3>2. tabs' = [tabs EXCEPT ![p] = tab] /\ UNCHANGED <<users, totp, tokens, jar, losses, spoilt>>
      BY <1>1, <1>6, <2>2 DEF HandleLogin, Tab, Request
    <3> HIDE DEF tab
    <3>3. tabs' \in [Tabs -> Tab] /\ RequestInv'
      BY <3>1, <3>2, TabStep
    <3>4. SessionTypeOK' /\ RowInv'
      BY <3>2, <3>3, RowsStay DEF SessionInv, SessionTypeOK
    <3>5. QED
      BY <3>3, <3>4 DEF SessionInv
  <2>3. QED
    BY <2>1, <2>2
<1>7. ASSUME NEW u \in users, Issue(p, u, NoToken, NoToken), UNCHANGED <<jar, losses, spoilt>>
      PROVE  SessionInv'
  BY <1>7, IssueInv
<1>8. CASE FinishLogin(p)
  BY <1>2, <1>3, <1>7, <1>8 DEF FinishLogin, Refuse
<1>9. CASE HandleTotp(p)
  BY <1>2, <1>3, <1>7, <1>9 DEF HandleTotp, Refuse
<1>10. CASE HandleSso(p)
  BY <1>2, <1>3, <1>7, <1>10 DEF HandleSso
<1>11. CASE HandleRefresh(p)
  <2> DEFINE t == tabs[p].req.refresh
  <2>1. t \in MaybeToken
    BY <1>1 DEF Tab, Request
  <2>2. CASE Refuse(p)
    BY <1>2, <1>3, <1>11, <2>2 DEF HandleRefresh, Refuse
  <2>3. CASE ~Refuse(p)
    <3>1. t # NoToken /\ tokens[t].state = "live" /\ tokens[t].user \in users
      BY <1>11, <2>3 DEF HandleRefresh
    <3>2. t \in TokenIds /\ Live(t)
      BY <2>1, <3>1 DEF MaybeToken, Live
    <3>3. Issue(p, tokens[t].user, tokens[t].login, t) /\ UNCHANGED <<jar, losses, spoilt>>
      BY <1>11, <2>3 DEF HandleRefresh
    <3> HIDE DEF t
    <3>4. QED
      BY <3>1, <3>2, <3>3, IssueInv
  <2>4. QED
    BY <2>2, <2>3
<1>12. QED
  BY <1>4, <1>5, <1>6, <1>8, <1>9, <1>10, <1>11 DEF Server

-----------------------------------------------------------------------------
(* The answer arrives, or does not.                                        *)

LEMMA JarAfterTypes ==
  ASSUME SessionInv, NEW req \in Request PROVE JarAfter(req) \in Jars
<1>1. jar \in Jars /\ tokens \in [TokenIds -> TokenRow]
  BY DEF SessionInv, SessionTypeOK, Jars
<1>2. CASE req.set # NoToken
  <2>1. req.set \in TokenIds
    BY <1>2 DEF Request, MaybeToken
  <2>2. QED
    BY <1>1, <1>2, <2>1 DEF JarAfter, Jars, TokenRow, MaybeToken
<1>3. CASE req.set = NoToken
  BY <1>1, <1>3 DEF JarAfter, Jars, MaybeUser, MaybeToken
<1>4. QED
  BY <1>2, <1>3

LEMMA EndedFits ==
  ASSUME SessionInv, NEW tab \in Tab, Fit(tab.req), NEW status
  PROVE  Ended(tab, status) \in Tab /\ Fit(Ended(tab, status).req)
<1>1. NoUser \in MaybeUser /\ {"totp", "load"} \subseteq Calls /\ "first" \in Stages
  BY DEF MaybeUser, Calls, Stages
<1>2. tab.user \in MaybeUser /\ tab.who \in MaybeUser /\ tab.req \in Request
      /\ tab.req.access \in MaybeUser
  BY DEF Tab, Request
<1>3. jar \in Jars /\ JarAfter(tab.req) \in Jars
  BY <1>2, JarAfterTypes DEF SessionInv, SessionTypeOK, Jars
<1>4. Fit(Quiet) /\ Fit(Sent("totp", "first", jar)) /\ Fit(Sent("load", "first", JarAfter(tab.req)))
  BY <1>1, <1>3, SentFits, QuietFits
<1>5. ASSUME NEW user \in MaybeUser, NEW who \in MaybeUser, NEW req, Fit(req)
      PROVE  /\ [user |-> user, who |-> who, req |-> req] \in Tab
             /\ Fit([user |-> user, who |-> who, req |-> req].req)
  BY <1>5 DEF Tab, Fit
<1>6. tab = [user |-> tab.user, who |-> tab.who, req |-> tab.req]
  BY DEF Tab
<1>7. \E user \in MaybeUser, who \in MaybeUser,
         req \in {Quiet, Sent("totp", "first", jar), Sent("load", "first", JarAfter(tab.req))} :
        Ended(tab, status) = [user |-> user, who |-> who, req |-> req]
  <2>1. CASE tab.req.call = "load"
    <3>1. Ended(tab, status) = [user |-> IF status = "ok" THEN tab.req.access ELSE NoUser,
                                who |-> tab.who, req |-> Quiet]
      BY <1>6, <2>1 DEF Ended
    <3>2. QED
      BY <1>1, <1>2, <3>1
  <2>2. CASE tab.req.call = "login" /\ status = "ok"
    <3>1. Ended(tab, status) = [user |-> tab.who, who |-> NoUser, req |-> Quiet]
      BY <1>6, <2>2 DEF Ended
    <3>2. QED
      BY <1>1, <1>2, <3>1
  <2>3. CASE tab.req.call = "login" /\ status = "totp"
    <3>1. Ended(tab, status) = [user |-> tab.user, who |-> tab.who, req |-> Sent("totp", "first", jar)]
      BY <1>6, <2>3 DEF Ended
    <3>2. QED
      BY <1>2, <3>1
  <2>4. CASE tab.req.call \in {"totp", "sso"} /\ status = "ok"
    <3>1. Ended(tab, status) = [user |-> tab.user, who |-> NoUser,
                                req |-> Sent("load", "first", JarAfter(tab.req))]
      BY <1>6, <2>4 DEF Ended
    <3>2. QED
      BY <1>1, <1>2, <3>1
  <2>5. CASE tab.req.call = "logout"
    <3>1. Ended(tab, status) = [user |-> NoUser, who |-> tab.who, req |-> Quiet]
      BY <1>6, <2>5 DEF Ended
    <3>2. QED
      BY <1>1, <1>2, <3>1
  <2>6. CASE /\ tab.req.call # "load" /\ tab.req.call # "logout"
             /\ ~(tab.req.call = "login" /\ status = "ok")
             /\ ~(tab.req.call = "login" /\ status = "totp")
             /\ ~(tab.req.call \in {"totp", "sso"} /\ status = "ok")
    <3>1. Ended(tab, status) = [user |-> tab.user, who |-> NoUser, req |-> Quiet]
      BY <1>6, <2>6 DEF Ended
    <3>2. QED
      BY <1>1, <1>2, <3>1
  <2>7. QED
    BY <2>1, <2>2, <2>3, <2>4, <2>5, <2>6
<1>8. QED
  BY <1>4, <1>5, <1>7

LEMMA ReceiveInv ==
  ASSUME SessionInv, NEW p \in Tabs, Receive(p) PROVE SessionInv'
<1> DEFINE req == tabs[p].req
           tab == IF req.stage = "first" /\ req.status = "401"
                    THEN [tabs[p] EXCEPT !.req = Sent(req.call, "refresh", jar)]
                  ELSE IF req.stage = "refresh" /\ req.status = "ok"
                    THEN [tabs[p] EXCEPT !.req = Sent(req.call, "retry", JarAfter(req))]
                  ELSE Ended(tabs[p], IF req.stage = "refresh" THEN "401" ELSE req.status)
<1>1. tabs \in [Tabs -> Tab] /\ tabs[p] \in Tab /\ Fit(req) /\ req \in Request
  BY TabFits DEF SessionInv, SessionTypeOK, Fit
<1>2. jar \in Jars /\ JarAfter(req) \in Jars
  BY <1>1, JarAfterTypes DEF SessionInv, SessionTypeOK, Jars
<1>3. req.call \in Calls /\ {"refresh", "retry"} \subseteq Stages
  BY <1>1 DEF Request, Stages
<1>4. Fit(Sent(req.call, "refresh", jar)) /\ Fit(Sent(req.call, "retry", JarAfter(req)))
  BY <1>2, <1>3, SentFits
<1>5. tab \in Tab /\ Fit(tab.req)
  <2>1. CASE req.stage = "first" /\ req.status = "401"
    <3>1. tab = [tabs[p] EXCEPT !.req = Sent(req.call, "refresh", jar)]
      BY <2>1
    <3> HIDE DEF tab, req
    <3>2. QED
      BY <1>1, <1>4, <3>1 DEF Tab, Fit
  <2>2. CASE req.stage = "refresh" /\ req.status = "ok"
    <3>1. tab = [tabs[p] EXCEPT !.req = Sent(req.call, "retry", JarAfter(req))]
      BY <2>2
    <3> HIDE DEF tab, req
    <3>2. QED
      BY <1>1, <1>4, <3>1 DEF Tab, Fit
  <2>3. CASE /\ ~(req.stage = "first" /\ req.status = "401")
             /\ ~(req.stage = "refresh" /\ req.status = "ok")
    <3>1. tab = Ended(tabs[p], IF req.stage = "refresh" THEN "401" ELSE req.status)
      BY <2>3
    <3>2. QED
      BY <1>1, <3>1, EndedFits
  <2>4. QED
    BY <2>1, <2>2, <2>3
<1>6. /\ tabs' = [tabs EXCEPT ![p] = tab] /\ jar' = JarAfter(req)
      /\ UNCHANGED <<users, totp, tokens, losses, spoilt>>
  BY <1>1 DEF Receive, dbVars
<1> HIDE DEF tab
<1>7. tabs' \in [Tabs -> Tab] /\ RequestInv'
  BY <1>5, <1>6, TabStep
<1>8. SessionTypeOK' /\ RowInv'
  BY <1>2, <1>6, <1>7, RowsStay DEF SessionInv, SessionTypeOK, Jars
<1>9. QED
  BY <1>7, <1>8 DEF SessionInv

LEMMA LoseInv ==
  ASSUME SessionInv, NEW p \in Tabs, Lose(p) PROVE SessionInv'
<1>1. tabs \in [Tabs -> Tab] /\ tabs[p] \in Tab /\ Fit(tabs[p].req)
  BY TabFits DEF SessionInv, SessionTypeOK
<1>2. Ended(tabs[p], "error") \in Tab /\ Fit(Ended(tabs[p], "error").req)
  BY <1>1, EndedFits
<1>3. /\ tabs' = [tabs EXCEPT ![p] = Ended(tabs[p], "error")]
      /\ UNCHANGED <<users, totp, tokens, jar>>
  BY DEF Lose, dbVars
<1>4. tabs' \in [Tabs -> Tab] /\ RequestInv'
  BY <1>2, <1>3, TabStep
<1>5. spoilt' \subseteq TokenIds
  <2>1. tabs[p].req.set # NoToken => tokens[tabs[p].req.set].login \in TokenIds
    <3>1. tabs[p].req.set # NoToken => tabs[p].req.set \in TokenIds /\ Issued(tabs[p].req.set)
      BY <1>1 DEF Fit, Request, MaybeToken
    <3>2. QED
      BY <3>1 DEF SessionInv, RowInv, RowsFormed
  <2>2. QED
    BY <2>1 DEF Lose, SessionInv, SessionTypeOK
<1>6. losses' \in 0..MaxLosses
  BY SessionAssumption DEF Lose, SessionInv, SessionTypeOK
<1>7. SessionTypeOK' /\ RowInv'
  BY <1>3, <1>4, <1>5, <1>6, RowsStay DEF SessionInv, SessionTypeOK
<1>8. QED
  BY <1>4, <1>7 DEF SessionInv

-----------------------------------------------------------------------------
(* Time, and other handlers.                                               *)

\* Rows that end: they keep their user and login, none becomes live again.
LEMMA RowsEnd ==
  ASSUME SessionInv, users' \subseteq users, tokens' \in [TokenIds -> TokenRow],
         UNCHANGED <<tabs, jar, losses, spoilt>>, totp' \subseteq users',
         \A t \in TokenIds :
           /\ tokens'[t].user = tokens[t].user /\ tokens'[t].login = tokens[t].login
           /\ Issued(t)' <=> Issued(t)
           /\ Live(t)' => Live(t) /\ tokens[t].user \in users'
  PROVE  SessionInv'
<1>1. SessionTypeOK'
  BY DEF SessionInv, SessionTypeOK
<1>2. RowsFormed' /\ NoRowNoUser'
  <2>1. ASSUME NEW t \in TokenIds, Issued(t)'
        PROVE  tokens'[t].user \in Users /\ tokens'[t].login \in TokenIds /\ tokens'[tokens'[t].login].state # "unused"
    <3>1. tokens[t].user \in Users /\ tokens[t].login \in TokenIds /\ Issued(tokens[t].login)
      BY <2>1 DEF SessionInv, RowInv, RowsFormed
    <3>2. QED
      BY <3>1 DEF Issued
  <2>2. QED
    BY <2>1 DEF SessionInv, RowInv, RowsFormed, NoRowNoUser
<1>3. OneLiveTokenPerLogin' /\ LiveTokensOwned'
  BY DEF SessionInv, RowInv, OneLiveTokenPerLogin, LiveTokensOwned
<1>4. RequestInv'
  <2>1. ASSUME NEW p \in Tabs, tabs[p].req.set # NoToken PROVE tokens'[tabs[p].req.set].state # "unused"
    <3>1. Issued(tabs[p].req.set) /\ tabs[p].req.set \in TokenIds
      BY <2>1, TabFits DEF Fit, Request, MaybeToken
    <3>2. QED
      BY <3>1 DEF Issued
  <2>2. QED
    BY <2>1 DEF Issued, SessionInv, RequestInv, AnswersIssued, CookieOnlyRefreshes
<1>5. QED
  BY <1>1, <1>2, <1>3, <1>4 DEF SessionInv, RowInv

LEMMA RefreshEndsInv ==
  ASSUME SessionInv, NEW t \in TokenIds, RefreshEnds(t) PROVE SessionInv'
<1>1. tokens \in [TokenIds -> TokenRow] /\ totp \subseteq users
  BY DEF SessionInv, SessionTypeOK
<1>2. ASSUME NEW s \in TokenIds
      PROVE  /\ tokens'[s].user = tokens[s].user /\ tokens'[s].login = tokens[s].login
             /\ tokens'[s].state = IF s = t THEN "expired" ELSE tokens[s].state
             /\ tokens'[s] \in TokenRow
  <2>1. tokens[s] \in TokenRow
    BY <1>1
  <2>2. QED
    BY <1>1, <2>1 DEF RefreshEnds, TokenRow
<1>3. tokens' \in [TokenIds -> TokenRow]
  BY <1>1, <1>2 DEF RefreshEnds
<1>4. \A s \in TokenIds : (Issued(s)' <=> Issued(s)) /\ (Live(s)' => Live(s))
  BY <1>2 DEF Issued, Live, RefreshEnds
<1>5. \A s \in TokenIds : Live(s)' => tokens[s].user \in users'
  BY <1>4 DEF SessionInv, RowInv, LiveTokensOwned, RefreshEnds
<1>6. QED
  BY <1>1, <1>2, <1>3, <1>4, <1>5, RowsEnd DEF RefreshEnds

LEMMA DeleteWithTokensInv ==
  ASSUME SessionInv, NEW u \in Users, DeleteWithTokens(u) PROVE SessionInv'
<1>1. tokens \in [TokenIds -> TokenRow] /\ totp \subseteq users
  BY DEF SessionInv, SessionTypeOK
<1>2. ASSUME NEW t \in TokenIds
      PROVE  /\ tokens'[t].user = tokens[t].user /\ tokens'[t].login = tokens[t].login
             /\ tokens'[t].state = IF tokens[t].user = u THEN "deleted" ELSE tokens[t].state
             /\ tokens'[t] \in TokenRow
  <2>1. tokens[t] \in TokenRow
    BY <1>1
  <2>2. QED
    BY <2>1 DEF DeleteWithTokens, TokenRow
<1>3. tokens' \in [TokenIds -> TokenRow]
  BY <1>2 DEF DeleteWithTokens
<1>4. ASSUME NEW t \in TokenIds PROVE (Issued(t)' <=> Issued(t)) /\ (Live(t)' => Live(t))
  <2>1. ~Issued(t) => tokens[t].user # u
    BY SessionAssumption DEF SessionInv, RowInv, NoRowNoUser
  <2>2. QED
    BY <1>2, <2>1 DEF Issued, Live
<1>5. \A t \in TokenIds : Live(t)' => tokens[t].user \in users'
  <2>1. ASSUME NEW t \in TokenIds, Live(t)' PROVE tokens[t].user \in users'
    <3>1. tokens[t].user # u
      BY <1>2, <2>1 DEF Live
    <3>2. tokens[t].user \in users
      BY <1>4, <2>1 DEF SessionInv, RowInv, LiveTokensOwned
    <3>3. QED
      BY <3>1, <3>2 DEF DeleteWithTokens
  <2>2. QED
    BY <2>1
<1>6. users' \subseteq users /\ totp' \subseteq users'
  BY <1>1 DEF DeleteWithTokens
<1>7. QED
  BY <1>2, <1>3, <1>4, <1>5, <1>6, RowsEnd DEF DeleteWithTokens

LEMMA NextSessionInv ==
  ASSUME SessionInv, [SessionNext]_sessionVars PROVE SessionInv'
<1>1. CASE UNCHANGED sessionVars
  <2>1. SessionTypeOK' /\ RequestInv'
    BY <1>1 DEF sessionVars, dbVars, SessionInv, SessionTypeOK, RequestInv, AnswersIssued, CookieOnlyRefreshes, Issued
  <2>2. QED
    BY <1>1, <2>1, RowsStay DEF sessionVars, dbVars, SessionInv
<1>2. CASE AccessEnds
  <2>1. SessionTypeOK' /\ RequestInv'
    BY <1>2 DEF AccessEnds, dbVars, SessionInv, SessionTypeOK, MaybeUser, RequestInv, AnswersIssued,
                CookieOnlyRefreshes, Issued
  <2>2. QED
    BY <1>2, <2>1, RowsStay DEF AccessEnds, dbVars, SessionInv
<1>3. ASSUME NEW u \in Users, ChangeTotp(u) PROVE SessionInv'
  <2>1. SessionTypeOK' /\ RequestInv'
    BY <1>3 DEF ChangeTotp, SessionInv, SessionTypeOK, RequestInv, AnswersIssued, CookieOnlyRefreshes, Issued
  <2>2. QED
    BY <1>3, <2>1, RowsStay DEF ChangeTotp, SessionInv
<1>4. QED
  BY <1>1, <1>2, <1>3, BrowserInv, ServerInv, ReceiveInv, LoseInv, RefreshEndsInv, DeleteWithTokensInv
  DEF SessionNext

-----------------------------------------------------------------------------
(* The cookie of the browser can be used.                                  *)

\* Inductive, beside SessionInv. A token on its way to the browser is in no other
\* place: no request carries it, so no refresh has revoked it, and no second answer
\* brings it back once the browser's cookie has been replaced.
Whole(t) == tokens[t].state \in {"live", "expired", "deleted"}

OnlyAnswersSet == \A p \in Tabs : tabs[p].req.at # "answered" => tabs[p].req.set = NoToken

CookiesIssued ==
  /\ jar.refresh # NoToken => Issued(jar.refresh)
  /\ \A p \in Tabs : tabs[p].req.refresh # NoToken => Issued(tabs[p].req.refresh)

OnItsWay(p) == tabs[p].req.set # NoToken

InFlightFresh ==
  \A p \in Tabs : OnItsWay(p) =>
    /\ Whole(tabs[p].req.set)
    /\ tabs[p].req.set # jar.refresh
    /\ \A q \in Tabs : /\ tabs[q].req.refresh # tabs[p].req.set
                       /\ q # p => tabs[q].req.set # tabs[p].req.set

Renewable(t) ==
  \/ Whole(t)
  \/ tokens[t].login \in spoilt
  \/ \E p \in Tabs : /\ OnItsWay(p)
                     /\ tokens[tabs[p].req.set].login = tokens[t].login
                     /\ Whole(tabs[p].req.set)

CarryInv ==
  /\ OnlyAnswersSet /\ CookiesIssued /\ InFlightFresh
  /\ jar.refresh # NoToken => Renewable(jar.refresh)

JarInv == SessionInv /\ CarryInv

LEMMA InitCarry == ASSUME SessionInit PROVE CarryInv
  BY DEF SessionInit, CarryInv, OnlyAnswersSet, CookiesIssued, InFlightFresh, OnItsWay, Quiet

\* A step of one tab after which it waits for an answer or is quiet: the cookie it
\* was answered with is in the jar, or lost, or there was none.
LEMMA CarryTab ==
  ASSUME JarInv, NEW p \in Tabs, UNCHANGED tokens,
         \A q \in Tabs : q # p => tabs'[q] = tabs[q],
         tabs'[p].req.set = NoToken,
         tabs'[p].req.refresh \in {NoToken, tabs[p].req.refresh, jar.refresh},
         \/ ~OnItsWay(p) /\ spoilt' = spoilt /\ jar'.refresh \in {NoToken, jar.refresh}
         \/ OnItsWay(p) /\ spoilt' = spoilt /\ jar'.refresh = tabs[p].req.set
         \/ /\ OnItsWay(p) /\ spoilt' = spoilt \cup {tokens[tabs[p].req.set].login}
            /\ jar'.refresh = jar.refresh
  PROVE  CarryInv'
<1>1. ASSUME NEW q \in Tabs PROVE /\ q # p => tabs'[q] = tabs[q]
                                  /\ tabs'[q].req.set \in {NoToken, tabs[q].req.set}
                                  /\ tabs'[q].req.refresh \in {NoToken, tabs[q].req.refresh, jar.refresh}
  OBVIOUS
<1>2. OnlyAnswersSet'
  BY DEF JarInv, CarryInv, OnlyAnswersSet
<1>3. CookiesIssued'
  <2>1. jar'.refresh # NoToken => tokens'[jar'.refresh].state # "unused"
    BY DEF JarInv, CarryInv, CookiesIssued, SessionInv, RequestInv, AnswersIssued, OnItsWay, Issued
  <2>2. \A q \in Tabs : tabs'[q].req.refresh # NoToken
                          => tokens'[tabs'[q].req.refresh].state # "unused"
    BY <1>1 DEF JarInv, CarryInv, CookiesIssued, Issued
  <2>3. QED
    BY <2>1, <2>2 DEF CookiesIssued, Issued
<1>4. InFlightFresh'
  <2>1. ASSUME NEW q \in Tabs, tabs'[q].req.set # NoToken
        PROVE  /\ tokens'[tabs'[q].req.set].state \in {"live", "expired", "deleted"}
               /\ tabs'[q].req.set # jar'.refresh
               /\ \A r \in Tabs : /\ tabs'[r].req.refresh # tabs'[q].req.set
                                  /\ r # q => tabs'[r].req.set # tabs'[q].req.set
    <3>1. q # p /\ tabs'[q] = tabs[q] /\ OnItsWay(q)
      BY <2>1 DEF OnItsWay
    <3>2. /\ Whole(tabs[q].req.set) /\ tabs[q].req.set # jar.refresh
          /\ \A r \in Tabs : /\ tabs[r].req.refresh # tabs[q].req.set
                             /\ r # q => tabs[r].req.set # tabs[q].req.set
      BY <3>1 DEF JarInv, CarryInv, InFlightFresh
    <3>3. tabs[q].req.set # jar'.refresh
      BY <2>1, <3>1, <3>2
    <3>4. ASSUME NEW r \in Tabs
          PROVE  /\ tabs'[r].req.refresh # tabs[q].req.set
                 /\ r # q => tabs'[r].req.set # tabs[q].req.set
      BY <1>1, <2>1, <3>1, <3>2
    <3>5. QED
      BY <3>1, <3>2, <3>3, <3>4 DEF Whole
  <2>2. QED
    BY <2>1 DEF InFlightFresh, OnItsWay, Whole
<1>5. (jar.refresh # NoToken => Renewable(jar.refresh))'
  <2>1. CASE jar'.refresh = NoToken
    BY <2>1
  <2>2. CASE jar'.refresh # NoToken /\ OnItsWay(p) /\ jar'.refresh = tabs[p].req.set
    BY <2>2 DEF JarInv, CarryInv, InFlightFresh, Renewable, Whole
  <2>3. CASE jar'.refresh # NoToken /\ jar'.refresh = jar.refresh
    <3>1. Renewable(jar.refresh)
      BY <2>3 DEF JarInv, CarryInv
    <3>2. CASE Whole(jar.refresh)
      BY <2>3, <3>2 DEF Renewable, Whole
    <3>3. CASE tokens[jar.refresh].login \in spoilt
      BY <2>3, <3>3 DEF Renewable
    <3>4. ASSUME NEW q \in Tabs, OnItsWay(q), Whole(tabs[q].req.set),
                 tokens[tabs[q].req.set].login = tokens[jar.refresh].login
          PROVE  Renewable(jar.refresh)'
      <4>1. CASE q = p /\ spoilt' = spoilt \cup {tokens[tabs[p].req.set].login}
        BY <2>3, <3>4, <4>1 DEF Renewable
      <4>2. CASE q = p /\ jar'.refresh = tabs[p].req.set
        BY <3>4, <4>2 DEF Renewable, Whole
      <4>3. CASE q # p
        BY <2>3, <3>4, <4>3 DEF Renewable, Whole, OnItsWay
      <4>4. QED
        BY <3>4, <4>1, <4>2, <4>3
    <3>5. QED
      BY <3>1, <3>2, <3>3, <3>4 DEF Renewable
  <2>4. QED
    BY <2>1, <2>2, <2>3
<1>6. QED
  BY <1>2, <1>3, <1>4, <1>5 DEF CarryInv

\* Rows that end while nothing else happens; none of them is revoked.
LEMMA CarryRows ==
  ASSUME JarInv, UNCHANGED <<tabs, spoilt>>, jar'.refresh = jar.refresh,
         \A t \in TokenIds : /\ tokens'[t].login = tokens[t].login
                             /\ Issued(t) => tokens'[t].state # "unused"
                             /\ Whole(t) => tokens'[t].state \in {"live", "expired", "deleted"}
  PROVE  CarryInv'
<1>1. /\ jar.refresh # NoToken => jar.refresh \in TokenIds
      /\ \A p \in Tabs : /\ tabs[p].req.refresh # NoToken => tabs[p].req.refresh \in TokenIds
                         /\ tabs[p].req.set # NoToken => tabs[p].req.set \in TokenIds
  <2>1. ASSUME NEW p \in Tabs
        PROVE  /\ tabs[p].req.refresh # NoToken => tabs[p].req.refresh \in TokenIds
               /\ tabs[p].req.set # NoToken => tabs[p].req.set \in TokenIds
    BY TabFits DEF JarInv, Tab, Request, MaybeToken
  <2>2. QED
    BY <2>1 DEF JarInv, SessionInv, SessionTypeOK, MaybeToken
<1>2. OnlyAnswersSet' /\ CookiesIssued'
  BY <1>1 DEF JarInv, CarryInv, OnlyAnswersSet, CookiesIssued, Issued
<1>3. InFlightFresh'
  BY <1>1 DEF JarInv, CarryInv, InFlightFresh, OnItsWay, Whole
<1>4. (jar.refresh # NoToken => Renewable(jar.refresh))'
  BY <1>1 DEF JarInv, CarryInv, Renewable, OnItsWay, Whole
<1>5. QED
  BY <1>2, <1>3, <1>4 DEF CarryInv

\* The insertion: its token is on its way, with the login of the one it revokes.
LEMMA CarryIssue ==
  ASSUME JarInv, NEW p \in Tabs, NEW u, NEW login, NEW revoked, tabs[p].req.at # "answered",
         \/ login = NoToken /\ revoked = NoToken
         \/ /\ revoked \in TokenIds /\ revoked = tabs[p].req.refresh
            /\ login = tokens[revoked].login /\ login # NoToken,
         Issue(p, u, login, revoked), UNCHANGED <<jar, losses, spoilt>>
  PROVE  CarryInv'
<1>1. PICK new \in Unused :
        /\ tokens' = [t \in TokenIds |->
             IF t = new THEN [state |-> "live", user |-> u,
                              login |-> IF login = NoToken THEN new ELSE login]
             ELSE IF t = revoked THEN [tokens[t] EXCEPT !.state = "revoked"] ELSE tokens[t]]
        /\ Answer(p, "ok", new)
  BY DEF Issue
<1>2. new \in TokenIds /\ ~Issued(new) /\ new # NoToken
  BY TokenFacts, <1>1 DEF Unused, Issued
<1>3. tabs[p].req.set = NoToken
  BY DEF JarInv, CarryInv, OnlyAnswersSet
<1>4. /\ tokens'[new].state = "live"
      /\ revoked # NoToken => tokens'[new].login = login
  BY <1>1, <1>2
<1>5. ASSUME NEW t \in TokenIds, t # new
      PROVE  /\ tokens'[t].login = tokens[t].login
             /\ tokens'[t].state = IF t = revoked THEN "revoked" ELSE tokens[t].state
  <2>1. tokens[t] \in TokenRow
    BY DEF JarInv, SessionInv, SessionTypeOK
  <2>2. QED
    BY <1>1, <1>5, <2>1 DEF TokenRow
<1>6. /\ tabs'[p].req.set = new /\ tabs'[p].req.at = "answered"
      /\ tabs'[p].req.refresh = tabs[p].req.refresh
      /\ \A q \in Tabs : q # p => tabs'[q] = tabs[q]
  <2>1. tabs[p] \in Tab /\ tabs \in [Tabs -> Tab]
    BY TabFits DEF JarInv, SessionInv, SessionTypeOK
  <2>2. QED
    BY <1>1, <2>1 DEF Answer, Tab, Request
<1>7. /\ jar.refresh # NoToken => jar.refresh \in TokenIds /\ Issued(jar.refresh)
      /\ \A q \in Tabs : /\ tabs[q].req.refresh # NoToken
                              => tabs[q].req.refresh \in TokenIds /\ Issued(tabs[q].req.refresh)
                         /\ tabs[q].req.set # NoToken
                              => tabs[q].req.set \in TokenIds /\ Issued(tabs[q].req.set)
  <2>1. ASSUME NEW q \in Tabs
        PROVE  /\ tabs[q].req.refresh # NoToken
                    => tabs[q].req.refresh \in TokenIds /\ Issued(tabs[q].req.refresh)
               /\ tabs[q].req.set # NoToken => tabs[q].req.set \in TokenIds /\ Issued(tabs[q].req.set)
    BY TabFits DEF JarInv, CarryInv, CookiesIssued, Fit, Tab, Request, MaybeToken
  <2>2. QED
    BY <2>1 DEF JarInv, CarryInv, CookiesIssued, SessionInv, SessionTypeOK, MaybeToken
<1>8. \A t \in TokenIds : Issued(t) => t # new /\ tokens'[t].state # "unused"
  BY <1>2, <1>5 DEF Issued
<1>9. OnlyAnswersSet'
  BY <1>6 DEF JarInv, CarryInv, OnlyAnswersSet
<1>10. CookiesIssued'
  <2>1. \A q \in Tabs : tabs'[q].req.refresh = tabs[q].req.refresh
    BY <1>6
  <2>2. QED
    BY <1>7, <1>8, <2>1 DEF CookiesIssued, Issued
\* A token on its way elsewhere is carried by no request: it is not the one revoked.
<1>11. ASSUME NEW q \in Tabs, q # p, OnItsWay(q)
       PROVE  /\ tabs[q].req.set \in TokenIds \ {new, revoked}
              /\ tokens'[tabs[q].req.set].state \in {"live", "expired", "deleted"}
              /\ tokens'[tabs[q].req.set].login = tokens[tabs[q].req.set].login
  <2>1. tabs[q].req.set \in TokenIds \ {new}
    BY <1>7, <1>8, <1>11 DEF OnItsWay
  <2>2. tabs[q].req.set # revoked /\ Whole(tabs[q].req.set)
    BY <1>11 DEF JarInv, CarryInv, InFlightFresh, OnItsWay
  <2>3. QED
    BY <1>5, <2>1, <2>2 DEF Whole
<1>12. InFlightFresh'
  <2>1. ASSUME NEW q \in Tabs, tabs'[q].req.set # NoToken
        PROVE  /\ tokens'[tabs'[q].req.set].state \in {"live", "expired", "deleted"}
               /\ tabs'[q].req.set # jar.refresh
               /\ \A r \in Tabs : /\ tabs'[r].req.refresh # tabs'[q].req.set
                                  /\ r # q => tabs'[r].req.set # tabs'[q].req.set
    <3>1. CASE q = p
      <4>1. ASSUME NEW r \in Tabs
            PROVE  /\ tabs'[r].req.refresh # new
                   /\ r # p => tabs'[r].req.set # new
        BY <1>2, <1>6, <1>7, <1>8
      <4>2. QED
        BY <1>2, <1>4, <1>6, <1>7, <1>8, <3>1, <4>1
    <3>2. CASE q # p
      <4>1. tabs'[q] = tabs[q] /\ OnItsWay(q)
        BY <1>6, <2>1, <3>2 DEF OnItsWay
      <4>2. tabs[q].req.set # new /\ tokens'[tabs[q].req.set].state \in {"live", "expired", "deleted"}
        BY <1>11, <3>2, <4>1
      <4>3. /\ tabs[q].req.set # jar.refresh
            /\ \A r \in Tabs : /\ tabs[r].req.refresh # tabs[q].req.set
                               /\ r # q => tabs[r].req.set # tabs[q].req.set
        BY <4>1 DEF JarInv, CarryInv, InFlightFresh
      <4>4. ASSUME NEW r \in Tabs
            PROVE  /\ tabs'[r].req.refresh # tabs[q].req.set
                   /\ r # q => tabs'[r].req.set # tabs[q].req.set
        BY <1>6, <4>2, <4>3
      <4>5. QED
        BY <4>1, <4>2, <4>3, <4>4
    <3>3. QED
      BY <3>1, <3>2
  <2>2. QED
    BY <2>1 DEF InFlightFresh, OnItsWay, Whole
<1>13. ASSUME jar.refresh # NoToken PROVE Renewable(jar.refresh)'
  <2>1. jar.refresh \in TokenIds /\ jar.refresh # new /\ Renewable(jar.refresh)
    BY <1>7, <1>8, <1>13 DEF JarInv, CarryInv
  <2>2. tokens'[jar.refresh].login = tokens[jar.refresh].login
    BY <1>5, <2>1
  <2>3. CASE jar.refresh = revoked
    BY <1>2, <1>4, <1>6, <1>13, <2>2, <2>3 DEF Renewable, OnItsWay, Whole
  <2>4. CASE jar.refresh # revoked /\ Whole(jar.refresh)
    BY <1>5, <2>1, <2>4 DEF Renewable, Whole
  <2>5. CASE tokens[jar.refresh].login \in spoilt
    BY <2>2, <2>5 DEF Renewable
  <2>6. ASSUME NEW q \in Tabs, OnItsWay(q),
               tokens[tabs[q].req.set].login = tokens[jar.refresh].login
        PROVE  Renewable(jar.refresh)'
    <3>1. q # p
      BY <1>3, <2>6 DEF OnItsWay
    <3>2. tabs'[q] = tabs[q]
      BY <1>6, <3>1
    <3>3. QED
      BY <1>11, <2>2, <2>6, <3>1, <3>2 DEF Renewable, OnItsWay, Whole
  <2>7. QED
    BY <2>1, <2>3, <2>4, <2>5, <2>6 DEF Renewable
<1>14. QED
  BY <1>9, <1>10, <1>12, <1>13 DEF CarryInv

\* A tab that waits for no answer starts or changes its request.
LEMMA CarryWait ==
  ASSUME JarInv, NEW p \in Tabs, tabs[p].req.at # "answered", UNCHANGED <<tokens, jar, spoilt>>,
         \A q \in Tabs : q # p => tabs'[q] = tabs[q],
         tabs'[p].req.set = NoToken,
         tabs'[p].req.refresh \in {NoToken, tabs[p].req.refresh}
  PROVE  CarryInv'
<1>1. ~OnItsWay(p)
  BY DEF JarInv, CarryInv, OnlyAnswersSet, OnItsWay
<1>2. QED
  BY <1>1, CarryTab

LEMMA CarryBrowser ==
  ASSUME JarInv, NEW p \in Tabs, Browser(p) PROVE CarryInv'
<1>1. tabs \in [Tabs -> Tab] /\ tabs[p] \in Tab
  BY TabFits DEF JarInv, SessionInv, SessionTypeOK
<1>2. jar \in Jars /\ "first" \in Stages /\ {"api", "logout", "load", "login", "sso"} \subseteq Calls
  BY DEF JarInv, SessionInv, SessionTypeOK, Jars, Stages, Calls
<1>3. \A call \in Calls : /\ Sent(call, "first", jar).set = NoToken
                          /\ Sent(call, "first", jar).refresh = NoToken
  BY <1>2, SentFacts
<1>4. ASSUME NEW call \in Calls, tabs'[p].req = Sent(call, "first", jar), tabs[p].req = Quiet,
             \A q \in Tabs : q # p => tabs'[q] = tabs[q], UNCHANGED <<dbVars, jar, losses, spoilt>>
      PROVE  CarryInv'
  <2>1. tabs[p].req.at # "answered" /\ UNCHANGED <<tokens, jar, spoilt>>
    BY <1>4 DEF Quiet, dbVars
  <2>2. QED
    BY <1>3, <1>4, <2>1, CarryWait
<1>5. ASSUME NEW call \in {"api", "logout"}, Start(p, call) PROVE CarryInv'
  <2>1. tabs'[p].req = Sent(call, "first", jar) /\ (\A q \in Tabs : q # p => tabs'[q] = tabs[q])
    BY <1>1, <1>5 DEF Start, Tab
  <2>2. QED
    BY <1>2, <1>4, <1>5, <2>1 DEF Start
<1>6. CASE Load(p)
  <2>1. tabs'[p].req = Sent("load", "first", jar) /\ (\A q \in Tabs : q # p => tabs'[q] = tabs[q])
    BY <1>1, <1>6 DEF Load
  <2>2. QED
    BY <1>2, <1>4, <1>6, <2>1 DEF Load
<1>7. ASSUME NEW u \in Users, NEW call \in {"login", "sso"}, tabs[p].req = Quiet,
             tabs' = [tabs EXCEPT ![p].who = u, ![p].req = Sent(call, "first", jar)],
             UNCHANGED <<dbVars, jar, losses, spoilt>>
      PROVE  CarryInv'
  <2>1. tabs'[p].req = Sent(call, "first", jar) /\ (\A q \in Tabs : q # p => tabs'[q] = tabs[q])
    BY <1>1, <1>7 DEF Tab
  <2>2. QED
    BY <1>2, <1>4, <1>7, <2>1
<1>8. QED
  BY <1>5, <1>6, <1>7 DEF Browser, Ask, Logout, Login, SsoReturn

LEMMA CarryServer ==
  ASSUME JarInv, NEW p \in Tabs, Server(p) PROVE CarryInv'
<1>1. tabs \in [Tabs -> Tab] /\ tabs[p] \in Tab /\ Fit(tabs[p].req)
  BY TabFits DEF JarInv, SessionInv, SessionTypeOK
<1>2. ASSUME NEW status, Answer(p, status, NoToken), tabs[p].req.at # "answered",
             UNCHANGED <<tokens, jar, losses, spoilt>>
      PROVE  CarryInv'
  <2>1. /\ tabs'[p].req.set = NoToken /\ tabs'[p].req.refresh = tabs[p].req.refresh
        /\ \A q \in Tabs : q # p => tabs'[q] = tabs[q]
    BY <1>1, <1>2 DEF Answer, Tab, Request
  <2>2. QED
    BY <1>2, <2>1, CarryWait
<1>3. ASSUME NEW u, Issue(p, u, NoToken, NoToken), tabs[p].req.at # "answered",
             UNCHANGED <<jar, losses, spoilt>>
      PROVE  CarryInv'
  BY <1>3, CarryIssue
<1>4. CASE HandleCall(p)
  BY <1>2, <1>4 DEF HandleCall, At, Refuse
<1>5. CASE HandleLogout(p)
  <2>1. tabs[p].req.refresh = NoToken
    BY <1>1, <1>5 DEF HandleLogout, At, Fit
  <2>2. tokens' = tokens
    <3>1. CASE tabs[p].req.access = NoUser
      BY <1>5, <3>1 DEF HandleLogout, Refuse
    <3>2. CASE tabs[p].req.access # NoUser
      <4>1. tokens' = [t \in TokenIds |-> tokens[t]]
        BY <1>5, <2>1, <3>2, TokenFacts DEF HandleLogout
      <4>2. QED
        BY <4>1 DEF JarInv, SessionInv, SessionTypeOK
    <3>3. QED
      BY <3>1, <3>2
  <2>3. QED
    BY <1>2, <1>5, <2>2 DEF HandleLogout, At, Refuse
<1>6. CASE HandleLogin(p)
  <2>1. CASE tabs[p].who \notin users
    BY <1>2, <1>6, <2>1 DEF HandleLogin, At, Refuse
  <2>2. CASE tabs[p].who \in users
    <3>1. tabs[p].req.at # "answered" /\ UNCHANGED <<tokens, jar, spoilt>>
      BY <1>6, <2>2 DEF HandleLogin, At
    <3>2. tabs[p].req.set = NoToken
      BY <3>1 DEF JarInv, CarryInv, OnlyAnswersSet
    <3>3. /\ tabs'[p].req.set = NoToken /\ tabs'[p].req.refresh = tabs[p].req.refresh
          /\ \A q \in Tabs : q # p => tabs'[q] = tabs[q]
      BY <1>1, <1>6, <2>2, <3>2 DEF HandleLogin, Tab, Request
    <3>4. QED
      BY <3>1, <3>3, CarryWait
  <2>3. QED
    BY <2>1, <2>2
<1>7. CASE FinishLogin(p)
  BY <1>2, <1>3, <1>7 DEF FinishLogin, At, Refuse
<1>8. CASE HandleTotp(p)
  BY <1>2, <1>3, <1>8 DEF HandleTotp, At, Refuse
<1>9. CASE HandleSso(p)
  BY <1>2, <1>3, <1>9 DEF HandleSso, At
<1>10. CASE HandleRefresh(p)
  <2> DEFINE t == tabs[p].req.refresh
  <2>1. CASE Refuse(p)
    BY <1>2, <1>10, <2>1 DEF HandleRefresh, Refuse
  <2>2. CASE ~Refuse(p)
    <3>1. t # NoToken /\ tokens[t].state = "live" /\ tabs[p].req.at # "answered"
      BY <1>10, <2>2 DEF HandleRefresh
    <3>2. t \in TokenIds
      BY <1>1, <3>1 DEF Tab, Request, MaybeToken
    <3>3. tokens[t].login # NoToken
      BY <3>1, <3>2, TokenFacts DEF JarInv, SessionInv, RowInv, RowsFormed, Issued
    <3>4. Issue(p, tokens[t].user, tokens[t].login, t) /\ UNCHANGED <<jar, losses, spoilt>>
      BY <1>10, <2>2 DEF HandleRefresh
    <3>5. t = tabs[p].req.refresh
      OBVIOUS
    <3> HIDE DEF t
    <3>6. QED
      BY <3>1, <3>2, <3>3, <3>4, <3>5, CarryIssue
  <2>3. QED
    BY <2>1, <2>2
<1>11. QED
  BY <1>4, <1>5, <1>6, <1>7, <1>8, <1>9, <1>10 DEF Server

\* What the caller starts next carries no refresh_token.
LEMMA EndedCarries ==
  ASSUME SessionInv, NEW tab \in Tab, NEW status
  PROVE  /\ Ended(tab, status).req.set = NoToken
         /\ Ended(tab, status).req.refresh = NoToken
<1>1. {"totp", "load"} \subseteq Calls /\ "first" \in Stages /\ tab.req \in Request
  BY DEF Calls, Stages, Tab
<1>2. jar \in Jars /\ JarAfter(tab.req) \in Jars
  BY <1>1, JarAfterTypes DEF SessionInv, SessionTypeOK, Jars
<1>3. \A req \in {Quiet, Sent("totp", "first", jar), Sent("load", "first", JarAfter(tab.req))} :
        req.set = NoToken /\ req.refresh = NoToken
  BY <1>1, <1>2, SentFacts, QuietFacts
<1>4. Ended(tab, status).req
        \in {Quiet, Sent("totp", "first", jar), Sent("load", "first", JarAfter(tab.req))}
  BY DEF Ended, Tab
<1>5. QED
  BY <1>3, <1>4

LEMMA CarryReceive ==
  ASSUME JarInv, NEW p \in Tabs, Receive(p) PROVE CarryInv'
<1> DEFINE req == tabs[p].req
<1>1. tabs \in [Tabs -> Tab] /\ tabs[p] \in Tab /\ req \in Request /\ SessionInv
  BY TabFits DEF JarInv, SessionInv, SessionTypeOK, Fit
<1>2. jar \in Jars /\ JarAfter(req) \in Jars /\ req.call \in Calls /\ {"refresh", "retry"} \subseteq Stages
  BY <1>1, JarAfterTypes DEF SessionInv, SessionTypeOK, Jars, Request, Stages
<1>3. /\ Sent(req.call, "refresh", jar).set = NoToken
      /\ Sent(req.call, "refresh", jar).refresh = jar.refresh
      /\ Sent(req.call, "retry", JarAfter(req)).set = NoToken
      /\ Sent(req.call, "retry", JarAfter(req)).refresh = NoToken
  BY <1>2, SentFacts DEF Sent, Quiet
<1>4. \A status : /\ Ended(tabs[p], status).req.set = NoToken
                  /\ Ended(tabs[p], status).req.refresh = NoToken
  BY <1>1, EndedCarries
<1>5. tabs'[p].req.set = NoToken /\ tabs'[p].req.refresh \in {NoToken, jar.refresh}
  <2>1. CASE req.stage = "first" /\ req.status = "401"
    <3>1. tabs'[p].req = Sent(req.call, "refresh", jar)
      BY <1>1, <2>1 DEF Receive, Tab
    <3>2. QED
      BY <1>3, <3>1
  <2>2. CASE req.stage = "refresh" /\ req.status = "ok"
    <3>1. tabs'[p].req = Sent(req.call, "retry", JarAfter(req))
      BY <1>1, <2>2 DEF Receive, Tab
    <3>2. QED
      BY <1>3, <3>1
  <2>3. CASE /\ ~(req.stage = "first" /\ req.status = "401")
             /\ ~(req.stage = "refresh" /\ req.status = "ok")
    <3>1. tabs'[p] = Ended(tabs[p], IF req.stage = "refresh" THEN "401" ELSE req.status)
      BY <1>1, <2>3 DEF Receive
    <3>2. QED
      BY <1>4, <3>1
  <2>4. QED
    BY <2>1, <2>2, <2>3
<1>6. /\ jar' = JarAfter(req) /\ UNCHANGED <<tokens, spoilt>>
      /\ \A q \in Tabs : q # p => tabs'[q] = tabs[q]
  BY <1>1 DEF Receive, dbVars
<1>7. /\ OnItsWay(p) => jar'.refresh = tabs[p].req.set
      /\ ~OnItsWay(p) => jar'.refresh \in {NoToken, jar.refresh}
  BY <1>6 DEF JarAfter, OnItsWay
<1> HIDE DEF req
<1>8. QED
  BY <1>5, <1>6, <1>7, CarryTab

LEMMA CarryLose ==
  ASSUME JarInv, NEW p \in Tabs, Lose(p) PROVE CarryInv'
<1>1. tabs \in [Tabs -> Tab] /\ tabs[p] \in Tab /\ SessionInv
  BY TabFits DEF JarInv, SessionInv, SessionTypeOK
<1>2. /\ tabs'[p] = Ended(tabs[p], "error") /\ UNCHANGED <<tokens, jar>>
      /\ \A q \in Tabs : q # p => tabs'[q] = tabs[q]
  BY <1>1 DEF Lose, dbVars
<1>3. tabs'[p].req.set = NoToken /\ tabs'[p].req.refresh = NoToken
  BY <1>1, <1>2, EndedCarries
<1>4. spoilt' = IF ~OnItsWay(p) THEN spoilt ELSE spoilt \cup {tokens[tabs[p].req.set].login}
  BY DEF Lose, OnItsWay
<1>5. QED
  BY <1>2, <1>3, <1>4, CarryTab

LEMMA NextCarry ==
  ASSUME JarInv, [SessionNext]_sessionVars PROVE JarInv'
<1>1. SessionInv'
  BY NextSessionInv DEF JarInv
<1>2. tokens \in [TokenIds -> TokenRow]
  BY DEF JarInv, SessionInv, SessionTypeOK
<1>3. ASSUME UNCHANGED <<tokens, tabs, spoilt>>, jar'.refresh = jar.refresh PROVE CarryInv'
  BY <1>3, CarryRows DEF Issued, Whole
<1>4. CASE UNCHANGED sessionVars
  BY <1>1, <1>3, <1>4 DEF sessionVars, dbVars, JarInv
<1>5. CASE AccessEnds
  <2>1. jar'.refresh = jar.refresh
    BY <1>5 DEF AccessEnds, JarInv, SessionInv, SessionTypeOK
  <2>2. QED
    BY <1>1, <1>3, <1>5, <2>1 DEF AccessEnds, dbVars, JarInv
<1>6. ASSUME NEW u \in Users, ChangeTotp(u) PROVE CarryInv'
  BY <1>3, <1>6 DEF ChangeTotp
<1>7. ASSUME NEW t \in TokenIds, RefreshEnds(t) PROVE CarryInv'
  <2>1. ASSUME NEW s \in TokenIds
        PROVE  /\ tokens'[s].login = tokens[s].login
               /\ tokens'[s].state \in {tokens[s].state, "expired"}
    <3>1. tokens[s] \in TokenRow
      BY <1>2
    <3>2. QED
      BY <1>2, <1>7, <3>1 DEF RefreshEnds, TokenRow
  <2>2. QED
    BY <1>7, <2>1, CarryRows DEF RefreshEnds, Issued, Whole
<1>8. ASSUME NEW u \in Users, DeleteWithTokens(u) PROVE CarryInv'
  <2>1. ASSUME NEW s \in TokenIds
        PROVE  /\ tokens'[s].login = tokens[s].login
               /\ tokens'[s].state \in {tokens[s].state, "deleted"}
    <3>1. tokens[s] \in TokenRow
      BY <1>2
    <3>2. QED
      BY <1>8, <3>1 DEF DeleteWithTokens, TokenRow
  <2>2. QED
    BY <1>8, <2>1, CarryRows DEF DeleteWithTokens, Issued, Whole
<1>9. QED
  BY <1>1, <1>4, <1>5, <1>6, <1>7, <1>8, CarryBrowser, CarryServer, CarryReceive, CarryLose
  DEF SessionNext, JarInv

-----------------------------------------------------------------------------
\* The rows, cookies and tabs keep their types: the refresh tokens of auth.ts and
\* the requests of client.ts.
THEOREM SessionTypeCorrect == SessionSpec => []SessionTypeOK
<1>1. SessionInv => SessionTypeOK
  BY DEF SessionInv
<1>2. QED
  BY <1>1, InitSessionInv, NextSessionInv, PTL DEF SessionSpec

\* A login never has two tokens that can be refreshed, however the tabs interleave
\* (auth.ts:258-297).
THEOREM OneLiveToken == SessionSpec => []OneLiveTokenPerLogin
<1>1. SessionInv => OneLiveTokenPerLogin
  BY DEF SessionInv, RowInv
<1>2. QED
  BY <1>1, InitSessionInv, NextSessionInv, PTL DEF SessionSpec

\* Every live token has its user: a login that waited for the password check while
\* its user was deleted leaves none behind (auth.ts:64-95).
THEOREM LiveTokensHaveUsers == SessionSpec => []LiveTokensOwned
<1>1. SessionInv => LiveTokensOwned
  BY DEF SessionInv, RowInv
<1>2. QED
  BY <1>1, InitSessionInv, NextSessionInv, PTL DEF SessionSpec

\* However the tabs refresh, log in, log out and get their answers, the cookie of
\* the browser, or its successor on the way, can be used, unless an answer of its
\* login was lost (client.ts:10-24).
THEOREM JarStaysRenewable == SessionSpec => []JarRenewable
<1>1. JarInv => JarRenewable
  BY DEF JarInv, CarryInv, Renewable, Whole, OnItsWay, JarRenewable
<1>2. SessionInit => JarInv
  BY InitSessionInv, InitCarry DEF JarInv
<1>3. QED
  BY <1>1, <1>2, NextCarry, PTL DEF SessionSpec

-----------------------------------------------------------------------------
(* Accounts.                                                               *)

(* The parts of the types, and what is inductive.                          *)

UserTypes ==
  /\ rows \in [Ids -> Row]
  /\ access \subseteq Ids \X Roles
  /\ confirmed \subseteq Ids
  /\ named \in [Ids -> Roles \cup {Keep}]

WorkTypes == work \in [Requests -> Pending]

OidcTypes ==
  /\ ssoRow \in MaybeSettings /\ cached \in MaybeSettings
  /\ changes \in 0..MaxChanges
  /\ states \in [States -> State]

LEMMA TypeParts == TypeOK <=> UserTypes /\ WorkTypes /\ OidcTypes
  BY DEF TypeOK, UserTypes, WorkTypes, OidcTypes

UserInv == UserTypes /\ EnabledSecretConfirmed /\ RoleAsLastNamed

Inv == UserInv /\ WorkTypes /\ OidcTypes /\ OneExchangePerLogin

LEMMA StayFacts ==
  /\ UserInv /\ UNCHANGED userVars => UserInv'
  /\ WorkTypes /\ UNCHANGED work => WorkTypes'
  /\ OidcTypes /\ UNCHANGED oidcVars => OidcTypes'
  /\ OneExchangePerLogin /\ UNCHANGED <<work, states>> => OneExchangePerLogin'
<1>1. ASSUME UserInv, UNCHANGED userVars PROVE UserInv'
  BY <1>1 DEF UserInv, UserTypes, userVars, EnabledSecretConfirmed, RoleAsLastNamed, Present, Exists
<1>2. OidcTypes /\ UNCHANGED oidcVars => OidcTypes'
  BY DEF OidcTypes, oidcVars
<1>3. OneExchangePerLogin /\ UNCHANGED <<work, states>> => OneExchangePerLogin'
  BY DEF OneExchangePerLogin, Answering
<1>4. QED
  BY <1>1, <1>2, <1>3 DEF WorkTypes

LEMMA RowFacts ==
  /\ NoRow \in Row
  /\ [NoRow EXCEPT !.state = "deleted"] \in Row
  /\ [NoRow EXCEPT !.state = "deleted"].state = "deleted"
  /\ Keep \notin Roles
  BY DEF NoRow, Row, Roles, Keep

LEMMA SettingsFacts ==
  /\ NoSettings \in MaybeSettings /\ NoSettings \notin Settings
  /\ EnvSettings \in MaybeSettings
  /\ \A s \in MaybeSettings : s # NoSettings => s \in Settings
<1>1. 0 \in 0..MaxChanges
  BY AccountsAssumption
<1>2. QED
  BY <1>1, AccountsAssumption DEF NoSettings, MaybeSettings, Settings

LEMMA ResolvedType == ASSUME OidcTypes PROVE Resolved \in MaybeSettings
  BY SettingsFacts DEF OidcTypes, Resolved

LEMMA InitInv == ASSUME Init PROVE Inv
<1>1. UserInv
  BY RowFacts DEF Init, UserInv, UserTypes, EnabledSecretConfirmed, RoleAsLastNamed, Present, Exists, NoRow
<1>2. WorkTypes
  BY DEF Init, WorkTypes, Pending
<1>3. OidcTypes
  <2>1. 0 \in 0..MaxChanges
    BY AccountsAssumption
  <2>2. QED
    BY <2>1, SettingsFacts DEF Init, OidcTypes, State
<1>4. OneExchangePerLogin
  BY DEF Init, OneExchangePerLogin, Answering, Idle
<1>5. QED
  BY <1>1, <1>2, <1>3, <1>4 DEF Inv

-----------------------------------------------------------------------------
(* Requests that wait.                                                     *)

LEMMA WaitTypes ==
  ASSUME WorkTypes, NEW r \in Requests, NEW pending \in Pending, Wait(r, pending) PROVE WorkTypes'
  BY DEF WorkTypes, Wait

LEMMA DoneTypes == ASSUME WorkTypes, NEW r \in Requests, Done(r) PROVE WorkTypes'
  BY DEF WorkTypes, Done, Pending

\* What a request that waits has read.
LEMMA PendingFacts ==
  ASSUME WorkTypes, NEW r \in Requests
  PROVE  /\ work[r].op = "register" => work[r].email \in Emails
         /\ work[r].op = "create" => work[r].email \in Emails /\ work[r].role \in Roles
         /\ work[r].op = "patch" => work[r].id \in Ids /\ work[r].role \in Roles \cup {Keep}
         /\ work[r].op = "disable" => work[r].id \in Ids
         /\ work[r].op \in {"discover", "rediscover"} => work[r].settings \in Settings
         /\ work[r].op \in {"rediscover", "grant"} => work[r].state \in States
<1>1. work[r] \in Pending
  BY DEF WorkTypes
<1>2. QED
  BY <1>1 DEF Pending, Idle

\* Nobody begins to answer a login, and no state that was taken comes back.
LEMMA OnceStays ==
  ASSUME WorkTypes, OneExchangePerLogin,
         \A r \in Requests : Answering(r)' => Answering(r) /\ work'[r].state = work[r].state,
         \A s \in States : states[s].phase = "used" => states'[s].phase = "used"
  PROVE  OneExchangePerLogin'
<1>1. \A r \in Requests : Answering(r) => work[r].state \in States
  BY PendingFacts DEF Answering
<1>2. QED
  BY <1>1 DEF OneExchangePerLogin

LEMMA WaitOnce ==
  ASSUME WorkTypes, OneExchangePerLogin, NEW r \in Requests, NEW pending, Wait(r, pending),
         pending.op \notin {"rediscover", "grant"}, UNCHANGED states
  PROVE  OneExchangePerLogin'
<1>1. \A q \in Requests : Answering(q)' => Answering(q) /\ work'[q].state = work[q].state
  BY DEF Wait, Answering, WorkTypes
<1>2. QED
  BY <1>1, OnceStays

LEMMA DoneOnce ==
  ASSUME WorkTypes, OneExchangePerLogin, NEW r \in Requests, Done(r),
         \A s \in States : states[s].phase = "used" => states'[s].phase = "used"
  PROVE  OneExchangePerLogin'
<1>1. \A q \in Requests : Answering(q)' => Answering(q) /\ work'[q].state = work[q].state
  BY DEF Done, Answering, WorkTypes, Idle
<1>2. QED
  BY <1>1, OnceStays

-----------------------------------------------------------------------------
(* Rows.                                                                   *)

\* A change of one row, of a user who may already be there.
LEMMA RowStep ==
  ASSUME UserInv, NEW u \in Ids, NEW new \in Row, rows' = [rows EXCEPT ![u] = new], UserTypes',
         \A v \in Ids : v # u => (v \in confirmed => v \in confirmed') /\ named'[v] = named[v],
         new.state = "row" => (new.enabled => new.secret /\ u \in confirmed') /\ new.role = named'[u]
  PROVE  UserInv'
<1>1. rows \in [Ids -> Row]
  BY DEF UserInv, UserTypes
<1>2. rows'[u] = new /\ \A v \in Ids : v # u => rows'[v] = rows[v]
  BY <1>1
<1>3. EnabledSecretConfirmed'
  <2>1. ASSUME NEW v \in Ids, rows'[v].state = "row", rows'[v].enabled
        PROVE  rows'[v].secret /\ v \in confirmed'
    <3>1. CASE v = u
      BY <1>2, <2>1, <3>1
    <3>2. CASE v # u
      BY <1>2, <2>1, <3>2 DEF UserInv, EnabledSecretConfirmed, Present, Exists
    <3>3. QED
      BY <3>1, <3>2
  <2>2. QED
    BY <2>1 DEF EnabledSecretConfirmed, Present, Exists
<1>4. RoleAsLastNamed'
  BY <1>2 DEF UserInv, RoleAsLastNamed, Present, Exists
<1>5. QED
  BY <1>3, <1>4 DEF UserInv

LEMMA GrantTypes ==
  ASSUME UserTypes, NEW u \in Ids, NEW role \in Roles, Grant(u, role)
  PROVE  /\ named' \in [Ids -> Roles \cup {Keep}] /\ access' \subseteq Ids \X Roles
         /\ named'[u] = role /\ \A v \in Ids : v # u => named'[v] = named[v]
  BY DEF UserTypes, Grant

LEMMA InsertInv ==
  ASSUME UserInv, NEW e \in Emails, NEW role \in Roles, NEW password \in BOOLEAN,
         Insert(e, role, password), UNCHANGED confirmed
  PROVE  UserInv'
<1>1. CASE HasEmail(e)
  BY <1>1, StayFacts DEF Insert, userVars
<1>2. CASE ~HasEmail(e)
  <2> DEFINE new == [NoRow EXCEPT !.state = "row", !.email = e, !.role = role, !.password = password]
  <2>1. PICK u \in Ids : rows' = [rows EXCEPT ![u] = new] /\ Grant(u, role)
    BY <1>2 DEF Insert
  <2>2. new \in Row /\ new.role = role /\ new.enabled = FALSE
    BY DEF NoRow, Row
  <2> HIDE DEF new
  <2>3. /\ named' \in [Ids -> Roles \cup {Keep}] /\ access' \subseteq Ids \X Roles
        /\ named'[u] = role /\ \A v \in Ids : v # u => named'[v] = named[v]
    BY <2>1, GrantTypes DEF UserInv
  <2>4. UserTypes'
    BY <2>1, <2>2, <2>3 DEF UserInv, UserTypes
  <2>5. new.enabled => new.secret /\ u \in confirmed'
    BY <2>2
  <2>6. QED
    BY <2>1, <2>2, <2>3, <2>4, <2>5, RowStep
<1>3. QED
  BY <1>1, <1>2

LEMMA FindOrCreateInv ==
  ASSUME UserInv, NEW e \in Emails, FindOrCreate(e), UNCHANGED confirmed PROVE UserInv'
<1>1. CASE HasEmail(e)
  BY <1>1, StayFacts DEF FindOrCreate, userVars
<1>2. CASE ~HasEmail(e)
  <2>1. (IF Present = {} THEN "admin" ELSE "viewer") \in Roles
    BY DEF Roles
  <2>2. Insert(e, IF Present = {} THEN "admin" ELSE "viewer", FALSE)
    BY <1>2 DEF FindOrCreate
  <2>3. QED
    BY <2>1, <2>2, InsertInv
<1>3. QED
  BY <1>1, <1>2

\* A row that is there takes the role the request names, or keeps the one it has now.
LEMMA RoleInv ==
  ASSUME UserInv, NEW u \in Ids, Exists(u), NEW role \in Roles \cup {Keep}, SetRole(u, role),
         NEW new \in Row, rows' = [rows EXCEPT ![u] = new],
         new.role = IF role = Keep THEN rows[u].role ELSE role,
         new.enabled = rows[u].enabled, new.secret = rows[u].secret,
         UNCHANGED confirmed
  PROVE  UserInv'
<1>1. /\ named' \in [Ids -> Roles \cup {Keep}] /\ access' \subseteq Ids \X Roles
      /\ \A v \in Ids : v # u => named'[v] = named[v]
      /\ named'[u] = IF role = Keep THEN named[u] ELSE role
  <2>1. CASE role = Keep
    BY <2>1 DEF SetRole, UserInv, UserTypes
  <2>2. CASE role # Keep
    BY <2>2, GrantTypes DEF SetRole, UserInv
  <2>3. QED
    BY <2>1, <2>2
<1>2. UserTypes'
  BY <1>1 DEF UserInv, UserTypes
<1>3. rows[u].role = named[u] /\ (rows[u].enabled => rows[u].secret /\ u \in confirmed)
  BY DEF UserInv, RoleAsLastNamed, EnabledSecretConfirmed, Present, Exists
<1>4. new.role = named'[u]
  BY <1>1, <1>3
<1>5. new.enabled => new.secret /\ u \in confirmed'
  BY <1>3
<1>6. QED
  BY <1>1, <1>2, <1>4, <1>5, RowStep

LEMMA PatchRoleInv ==
  ASSUME UserInv, NEW u \in Ids, NEW role \in Roles, PatchRole(u, role) PROVE UserInv'
<1>1. rows[u] \in Row
  BY DEF UserInv, UserTypes
<1>2. [rows[u] EXCEPT !.role = role] \in Row
  BY <1>1 DEF Row
<1>3. /\ [rows[u] EXCEPT !.role = role].role = role
      /\ [rows[u] EXCEPT !.role = role].enabled = rows[u].enabled
      /\ [rows[u] EXCEPT !.role = role].secret = rows[u].secret
  BY <1>1 DEF Row
<1>4. rows' = [rows EXCEPT ![u] = [rows[u] EXCEPT !.role = role]]
  BY DEF PatchRole
<1>5. role # Keep /\ Exists(u) /\ SetRole(u, role) /\ UNCHANGED confirmed
  BY RowFacts DEF PatchRole
<1>6. QED
  BY <1>2, <1>3, <1>4, <1>5, RoleInv

LEMMA FinishPatchInv ==
  ASSUME UserInv, WorkTypes, NEW r \in Requests, FinishPatch(r) PROVE UserInv'
<1> DEFINE u == work[r].id
           role == work[r].role
           new == [rows[u] EXCEPT !.password = TRUE, !.role = IF role = Keep THEN @ ELSE role]
<1>1. u \in Ids /\ role \in Roles \cup {Keep}
  BY PendingFacts DEF FinishPatch
<1>2. CASE ~Exists(u)
  BY <1>2, StayFacts DEF FinishPatch, userVars
<1>3. CASE Exists(u)
  <2>1. rows[u] \in Row
    BY <1>1 DEF UserInv, UserTypes
  <2>2. new \in Row
    BY <1>1, <2>1 DEF Row
  <2>3. /\ new.role = IF role = Keep THEN rows[u].role ELSE role
        /\ new.enabled = rows[u].enabled /\ new.secret = rows[u].secret
    BY <2>1 DEF Row
  <2>4. /\ rows' = [rows EXCEPT ![u] = new] /\ SetRole(u, role) /\ UNCHANGED confirmed
    BY <1>1, <1>3, <2>1 DEF FinishPatch, UserInv, UserTypes, Row
  <2> HIDE DEF new, u, role
  <2>5. QED
    BY <1>1, <1>3, <2>2, <2>3, <2>4, RoleInv
<1>4. QED
  BY <1>2, <1>3

LEMMA DeleteUserInv == ASSUME UserInv, NEW u \in Ids, DeleteUser(u) PROVE UserInv'
<1>1. /\ rows' = [rows EXCEPT ![u] = [NoRow EXCEPT !.state = "deleted"]]
      /\ named' = [named EXCEPT ![u] = Keep] /\ confirmed' = confirmed \ {u} /\ access' = access
  BY DEF DeleteUser
<1>2. UserTypes'
  BY <1>1, RowFacts DEF UserInv, UserTypes
<1>3. \A v \in Ids : v # u => (v \in confirmed => v \in confirmed') /\ named'[v] = named[v]
  BY <1>1 DEF UserInv, UserTypes
<1>4. QED
  BY <1>1, <1>2, <1>3, RowFacts, RowStep

-----------------------------------------------------------------------------
(* The second factor.                                                      *)

\* A change of the two columns of the second factor.
LEMMA TotpStep ==
  ASSUME UserInv, NEW u \in Ids, NEW secret \in BOOLEAN, NEW enabled \in BOOLEAN,
         rows' = [rows EXCEPT ![u] = [rows[u] EXCEPT !.secret = secret, !.enabled = enabled]],
         UNCHANGED <<access, named>>,
         \/ confirmed' = confirmed \cup {u} /\ secret
         \/ confirmed' = confirmed \ {u} /\ ~enabled
  PROVE  UserInv'
<1> DEFINE new == [rows[u] EXCEPT !.secret = secret, !.enabled = enabled]
<1>1. rows[u] \in Row
  BY DEF UserInv, UserTypes
<1>2. /\ new \in Row /\ new.secret = secret /\ new.enabled = enabled
      /\ new.role = rows[u].role /\ new.state = rows[u].state
  BY <1>1 DEF Row
<1> HIDE DEF new
<1>3. UserTypes'
  BY <1>2 DEF UserInv, UserTypes, new
<1>4. new.state = "row" => new.role = named'[u]
  BY <1>2 DEF UserInv, RoleAsLastNamed, Present, Exists
<1>5. new.enabled => new.secret /\ u \in confirmed'
  BY <1>2
<1>6. \A v \in Ids : v # u => (v \in confirmed => v \in confirmed') /\ named'[v] = named[v]
  OBVIOUS
<1>7. QED
  BY <1>2, <1>3, <1>4, <1>5, <1>6, RowStep DEF new

LEMMA TotpInv ==
  ASSUME UserInv, NEW u \in Ids, SetupTotp(u) \/ ConfirmTotp(u) PROVE UserInv'
<1>1. rows[u] \in Row /\ rows \in [Ids -> Row]
  BY DEF UserInv, UserTypes
<1>2. rows[u].enabled \in BOOLEAN /\ rows[u].secret \in BOOLEAN
  BY <1>1 DEF Row
<1>3. CASE SetupTotp(u)
  <2>1. rows[u].enabled = FALSE
    BY <1>2, <1>3 DEF SetupTotp
  <2>2. [rows[u] EXCEPT !.secret = TRUE] = [rows[u] EXCEPT !.secret = TRUE, !.enabled = FALSE]
    BY <1>1, <2>1 DEF Row
  <2>3. rows' = [rows EXCEPT ![u] = [rows[u] EXCEPT !.secret = TRUE, !.enabled = FALSE]]
    BY <1>3, <2>2 DEF SetupTotp
  <2>4. confirmed' = confirmed \ {u} /\ UNCHANGED <<access, named>>
    BY <1>3 DEF SetupTotp
  <2>5. QED
    BY <2>3, <2>4, TotpStep
<1>4. CASE ConfirmTotp(u)
  <2>1. rows[u].secret = TRUE
    BY <1>2, <1>4 DEF ConfirmTotp
  <2>2. [rows[u] EXCEPT !.enabled = TRUE] = [rows[u] EXCEPT !.secret = TRUE, !.enabled = TRUE]
    BY <1>1, <2>1 DEF Row
  <2>3. rows' = [rows EXCEPT ![u] = [rows[u] EXCEPT !.secret = TRUE, !.enabled = TRUE]]
    BY <1>4, <2>2 DEF ConfirmTotp
  <2>4. confirmed' = confirmed \cup {u} /\ UNCHANGED <<access, named>>
    BY <1>4 DEF ConfirmTotp
  <2>5. QED
    BY <2>3, <2>4, TotpStep
<1>5. QED
  BY <1>3, <1>4

LEMMA FinishDisableInv ==
  ASSUME UserInv, WorkTypes, NEW r \in Requests, FinishDisable(r) PROVE UserInv'
<1> DEFINE u == work[r].id
<1>1. u \in Ids
  BY PendingFacts DEF FinishDisable
<1>2. UNCHANGED <<access, named>>
  BY DEF FinishDisable
<1>3. CASE UNCHANGED <<rows, confirmed>>
  BY <1>2, <1>3, StayFacts DEF userVars
<1>4. CASE ~Exists(u) /\ rows' = rows /\ confirmed' = confirmed \ {u}
  BY <1>1, <1>2, <1>4 DEF UserInv, UserTypes, EnabledSecretConfirmed, RoleAsLastNamed, Present, Exists
<1>5. CASE /\ rows' = [rows EXCEPT ![u].enabled = FALSE, ![u].secret = FALSE]
           /\ confirmed' = confirmed \ {u}
  <2>1. rows[u] \in Row /\ rows \in [Ids -> Row]
    BY <1>1 DEF UserInv, UserTypes
  <2>2. rows' = [rows EXCEPT ![u] = [rows[u] EXCEPT !.secret = FALSE, !.enabled = FALSE]]
    BY <1>1, <1>5, <2>1 DEF Row
  <2> HIDE DEF u
  <2>3. QED
    BY <1>1, <1>2, <1>5, <2>2, TotpStep
<1>6. QED
  BY <1>3, <1>4, <1>5 DEF FinishDisable

-----------------------------------------------------------------------------
(* Single sign-on.                                                         *)

LEMMA OpenStateFacts ==
  ASSUME OidcTypes, NEW client \in Settings, OpenState(client)
  PROVE  /\ states' \in [States -> State]
         /\ \A s \in States : states[s].phase = "used" => states'[s].phase = "used"
<1>1. PICK s \in States :
        /\ states[s].phase = "new"
        /\ states' = [states EXCEPT ![s] =
             IF Resolved = NoSettings THEN [phase |-> "gone", settings |-> NoSettings]
             ELSE [phase |-> "open",
                   settings |-> [version |-> client.version, redirect |-> Resolved.redirect]]]
  BY DEF OpenState
<1>2. Resolved # NoSettings => [version |-> client.version, redirect |-> Resolved.redirect] \in Settings
  BY ResolvedType, SettingsFacts DEF Settings
<1>3. states' \in [States -> State]
  BY <1>1, <1>2, SettingsFacts DEF OidcTypes, State, MaybeSettings
<1>4. \A t \in States : t # s => states'[t] = states[t]
  BY <1>1 DEF OidcTypes
<1>5. QED
  BY <1>1, <1>3, <1>4

LEMMA SettingsInv ==
  ASSUME OidcTypes,
         DeleteSettings \/ \E redirect \in Redirects, enabled \in BOOLEAN : PutSettings(redirect, enabled)
  PROVE  OidcTypes'
<1>1. CASE DeleteSettings
  BY <1>1, SettingsFacts DEF OidcTypes, DeleteSettings
<1>2. ASSUME NEW redirect \in Redirects, NEW enabled \in BOOLEAN, PutSettings(redirect, enabled)
      PROVE  OidcTypes'
  <2>1. changes + 1 \in 0..MaxChanges
    BY <1>2, AccountsAssumption DEF OidcTypes, PutSettings
  <2>2. [version |-> changes + 1, redirect |-> redirect] \in MaybeSettings
    BY <2>1, AccountsAssumption DEF MaybeSettings, Settings
  <2>3. QED
    BY <1>2, <2>1, <2>2, SettingsFacts DEF OidcTypes, PutSettings
<1>3. QED
  BY <1>1, <1>2

LEMMA OidcLoginInv ==
  ASSUME WorkTypes, OidcTypes, OneExchangePerLogin, NEW r \in Requests, OidcLogin(r)
  PROVE  WorkTypes' /\ OidcTypes' /\ OneExchangePerLogin'
<1>1. Resolved \in Settings
  BY ResolvedType, SettingsFacts DEF OidcLogin
<1>2. [op |-> "discover", settings |-> Resolved] \in Pending
  BY <1>1 DEF Pending
<1>3. CASE cached = NoSettings
  <2>1. OneExchangePerLogin'
    BY <1>3, WaitOnce DEF OidcLogin
  <2>2. QED
    BY <1>2, <1>3, <2>1, WaitTypes DEF OidcLogin, OidcTypes
<1>4. CASE cached # NoSettings
  <2>1. cached \in Settings /\ OpenState(cached) /\ UNCHANGED <<work, ssoRow, changes, cached>>
    BY <1>4, SettingsFacts DEF OidcLogin, OidcTypes
  <2>2. OneExchangePerLogin'
    BY <2>1, OpenStateFacts, OnceStays DEF Answering
  <2>3. QED
    BY <2>1, <2>2, OpenStateFacts DEF OidcTypes, WorkTypes
<1>5. QED
  BY <1>3, <1>4

\* The state was open, so nobody answers this login yet.
LEMMA OidcCallbackInv ==
  ASSUME WorkTypes, OidcTypes, OneExchangePerLogin, NEW r \in Requests, NEW s \in States, OidcCallback(r, s)
  PROVE  WorkTypes' /\ OidcTypes' /\ OneExchangePerLogin'
<1>1. Resolved \in Settings /\ (cached # NoSettings => cached \in Settings)
  BY ResolvedType, SettingsFacts DEF OidcCallback, OidcTypes
<1>2. PICK pending \in Pending : pending.state = s /\ Wait(r, pending)
  <2>1. CASE cached = NoSettings
    <3>1. [op |-> "rediscover", settings |-> Resolved, state |-> s] \in Pending
      BY <1>1 DEF Pending
    <3>2. QED
      BY <2>1, <3>1 DEF OidcCallback
  <2>2. CASE cached # NoSettings
    <3>1. [op |-> "grant", settings |-> cached, state |-> s] \in Pending
      BY <1>1, <2>2 DEF Pending
    <3>2. QED
      BY <2>2, <3>1 DEF OidcCallback
  <2>3. QED
    BY <2>1, <2>2
<1>3. WorkTypes'
  BY <1>2, WaitTypes
<1>4. states' \in [States -> State]
  <2>1. states[s] \in State
    BY DEF OidcTypes
  <2>2. [states[s] EXCEPT !.phase = "used"] \in State
    BY <2>1 DEF State
  <2>3. QED
    BY <2>2 DEF OidcCallback, OidcTypes
<1>5. OneExchangePerLogin'
  <2>1. /\ states[s].phase = "open" /\ states'[s].phase = "used"
        /\ \A t \in States : t # s => states'[t] = states[t]
    BY DEF OidcCallback, OidcTypes, State
  <2>2. work'[r].state = s /\ \A q \in Requests : q # r => work'[q] = work[q]
    BY <1>2 DEF Wait, WorkTypes
  <2>3. \A q \in Requests : Answering(q) => work[q].state \in States /\ work[q].state # s
    BY <2>1, PendingFacts DEF OneExchangePerLogin, Answering
  <2>4. \A q \in Requests : q # r => (Answering(q)' <=> Answering(q))
    BY <2>2 DEF Answering
  <2>5. QED
    BY <2>1, <2>2, <2>3, <2>4 DEF OneExchangePerLogin
<1>6. QED
  BY <1>3, <1>4, <1>5 DEF OidcCallback, OidcTypes

LEMMA FinishDiscoveryInv ==
  ASSUME WorkTypes, OidcTypes, OneExchangePerLogin, NEW r \in Requests, FinishDiscovery(r)
  PROVE  WorkTypes' /\ OidcTypes' /\ OneExchangePerLogin'
<1>1. work[r].settings \in Settings /\ (work[r].op = "rediscover" => work[r].state \in States)
  BY PendingFacts DEF FinishDiscovery
<1>2. cached' = work[r].settings /\ UNCHANGED <<ssoRow, changes>>
  BY DEF FinishDiscovery
<1>3. cached' \in MaybeSettings
  BY <1>1, <1>2 DEF MaybeSettings
<1>4. CASE work[r].op = "discover"
  <2>1. Done(r) /\ OpenState(work[r].settings)
    BY <1>4 DEF FinishDiscovery
  <2>2. states' \in [States -> State] /\ OneExchangePerLogin'
    BY <1>1, <2>1, OpenStateFacts, DoneOnce
  <2>3. QED
    BY <1>2, <1>3, <2>1, <2>2, DoneTypes DEF OidcTypes
<1>5. CASE work[r].op = "rediscover"
  <2>1. /\ work' = [work EXCEPT ![r] = [op |-> "grant", settings |-> work[r].settings,
                                        state |-> work[r].state]]
        /\ UNCHANGED states
    BY <1>5 DEF FinishDiscovery
  <2>2. [op |-> "grant", settings |-> work[r].settings, state |-> work[r].state] \in Pending
    BY <1>1, <1>5 DEF Pending
  <2>3. WorkTypes'
    BY <2>1, <2>2 DEF WorkTypes
  <2>4. \A q \in Requests : Answering(q)' => Answering(q) /\ work'[q].state = work[q].state
    BY <1>5, <2>1 DEF Answering, WorkTypes
  <2>5. OneExchangePerLogin'
    BY <2>1, <2>4, OnceStays
  <2>6. QED
    BY <1>2, <1>3, <2>1, <2>3, <2>5 DEF OidcTypes
<1>6. QED
  BY <1>4, <1>5 DEF FinishDiscovery

LEMMA FailDiscoveryInv ==
  ASSUME WorkTypes, OidcTypes, OneExchangePerLogin, NEW r \in Requests, FailDiscovery(r)
  PROVE  WorkTypes' /\ OidcTypes' /\ OneExchangePerLogin'
<1>1. WorkTypes' /\ OidcTypes'
  BY DoneTypes, SettingsFacts DEF FailDiscovery, OidcTypes
<1>2. QED
  BY <1>1, DoneOnce DEF FailDiscovery

LEMMA FinishGrantInv ==
  ASSUME Inv, NEW r \in Requests, FinishGrant(r) PROVE Inv'
<1>1. WorkTypes' /\ OneExchangePerLogin' /\ UNCHANGED <<confirmed, ssoRow, changes, states>>
  BY DoneTypes, DoneOnce DEF FinishGrant, Inv
<1>2. OidcTypes'
  BY <1>1, SettingsFacts DEF FinishGrant, OidcTypes, Inv
<1>3. ASSUME NEW e \in Emails, FindOrCreate(e) PROVE UserInv'
  BY <1>1, <1>3, FindOrCreateInv DEF Inv
<1>4. ASSUME UNCHANGED <<rows, named, access>> PROVE UserInv'
  BY <1>1, <1>4, StayFacts DEF userVars, Inv
<1>5. UserInv'
  BY <1>3, <1>4 DEF FinishGrant
<1>6. QED
  BY <1>1, <1>2, <1>5 DEF Inv

\* What a callback took does not end.
LEMMA StateEndsInv ==
  ASSUME WorkTypes, OidcTypes, OneExchangePerLogin, NEW s \in States, StateEnds(s)
  PROVE  OidcTypes' /\ OneExchangePerLogin'
<1>1. [phase |-> "gone", settings |-> NoSettings] \in State
  BY SettingsFacts DEF State
<1>2. \A t \in States : states[t].phase = "used" => states'[t].phase = "used"
  BY DEF StateEnds, OidcTypes
<1>3. OneExchangePerLogin'
  BY <1>2, OnceStays DEF StateEnds, Answering
<1>4. QED
  BY <1>1, <1>3 DEF StateEnds, OidcTypes

-----------------------------------------------------------------------------
LEMMA OidcInv == ASSUME Inv, Oidc PROVE Inv'
<1>1. ASSUME NEW e \in Emails, LdapLogin(e) PROVE Inv'
  BY <1>1, FindOrCreateInv, StayFacts DEF LdapLogin, oidcVars, Inv
<1>2. CASE DeleteSettings \/ \E redirect \in Redirects, enabled \in BOOLEAN : PutSettings(redirect, enabled)
  <2>1. UNCHANGED <<userVars, work, states>>
    BY <1>2 DEF DeleteSettings, PutSettings
  <2>2. QED
    BY <1>2, <2>1, SettingsInv, StayFacts DEF Inv
<1>3. ASSUME NEW s \in States, StateEnds(s) PROVE Inv'
  BY <1>3, StateEndsInv, StayFacts DEF StateEnds, Inv
<1>4. ASSUME NEW r \in Requests, NEW s \in States, OidcCallback(r, s) PROVE Inv'
  BY <1>4, OidcCallbackInv, StayFacts DEF OidcCallback, Inv
<1>5. ASSUME NEW r \in Requests, OidcLogin(r) PROVE Inv'
  BY <1>5, OidcLoginInv, StayFacts DEF OidcLogin, Inv
<1>6. ASSUME NEW r \in Requests, FinishDiscovery(r) PROVE Inv'
  BY <1>6, FinishDiscoveryInv, StayFacts DEF FinishDiscovery, Inv
<1>7. ASSUME NEW r \in Requests, FailDiscovery(r) PROVE Inv'
  BY <1>7, FailDiscoveryInv, StayFacts DEF FailDiscovery, Inv
<1>8. QED
  BY <1>1, <1>2, <1>3, <1>4, <1>5, <1>6, <1>7, FinishGrantInv DEF Oidc

LEMMA UsersInv == ASSUME Inv, UserRequests PROVE Inv'
<1>1. ASSUME UserInv', UNCHANGED <<work, oidcVars>> PROVE Inv'
  BY <1>1, StayFacts DEF Inv, oidcVars
<1>2. ASSUME NEW r \in Requests, NEW pending \in Pending, Wait(r, pending),
             pending.op \notin {"rediscover", "grant"}, UNCHANGED <<userVars, oidcVars>>
      PROVE  Inv'
  BY <1>2, StayFacts, WaitTypes, WaitOnce DEF Inv, oidcVars
<1>3. ASSUME NEW r \in Requests, Done(r), UserInv', UNCHANGED oidcVars PROVE Inv'
  BY <1>3, StayFacts, DoneTypes, DoneOnce DEF Inv, oidcVars
<1>4. ASSUME NEW u \in Ids, \/ DeleteUser(u) \/ SetupTotp(u) \/ ConfirmTotp(u)
                            \/ \E role \in Roles : PatchRole(u, role)
      PROVE  Inv'
  <2>1. UNCHANGED <<work, oidcVars>>
    BY <1>4 DEF DeleteUser, SetupTotp, ConfirmTotp, PatchRole
  <2>2. UserInv'
    BY <1>4, DeleteUserInv, TotpInv, PatchRoleInv DEF Inv
  <2>3. QED
    BY <1>1, <2>1, <2>2
<1>5. ASSUME NEW r \in Requests, NEW e \in Emails, Register(r, e) PROVE Inv'
  <2>1. [op |-> "register", email |-> e] \in Pending
    BY DEF Pending
  <2>2. QED
    BY <1>2, <1>5, <2>1 DEF Register
<1>6. ASSUME NEW r \in Requests, NEW e \in Emails, NEW role \in NewRoles, CreateUser(r, e, role) PROVE Inv'
  <2>1. [op |-> "create", email |-> e, role |-> role] \in Pending
    BY AccountsAssumption DEF Pending
  <2>2. QED
    BY <1>2, <1>6, <2>1 DEF CreateUser
<1>7. ASSUME NEW r \in Requests, NEW u \in Ids, DisableTotp(r, u) PROVE Inv'
  <2>1. [op |-> "disable", id |-> u] \in Pending
    BY DEF Pending
  <2>2. QED
    BY <1>2, <1>7, <2>1 DEF DisableTotp
<1>8. ASSUME NEW r \in Requests, NEW u \in Ids, NEW role \in NewRoles \cup {Keep}, Patch(r, u, role)
      PROVE  Inv'
  <2>1. rows[u].role \in Roles
    BY DEF Inv, UserInv, UserTypes, Row
  <2>2. [op |-> "patch", id |-> u, role |-> role, was |-> rows[u].role] \in Pending
    BY <2>1, AccountsAssumption DEF Pending
  <2>3. QED
    BY <1>2, <1>8, <2>2 DEF Patch
<1>9. ASSUME NEW r \in Requests,
             FinishRegister(r) \/ FinishCreate(r) \/ FinishPatch(r) \/ FinishDisable(r)
      PROVE  Inv'
  <2>1. Done(r) /\ UNCHANGED oidcVars
    BY <1>9 DEF FinishRegister, FinishCreate, FinishPatch, FinishDisable
  <2>2. CASE FinishRegister(r)
    <3>1. work[r].email \in Emails /\ "admin" \in Roles
      BY <2>2, PendingFacts DEF FinishRegister, Inv, Roles
    <3>2. UserInv'
      BY <2>2, <3>1, InsertInv DEF FinishRegister, Inv
    <3>3. QED
      BY <1>3, <2>1, <3>2
  <2>3. CASE FinishCreate(r)
    <3>1. work[r].email \in Emails /\ work[r].role \in Roles
      BY <2>3, PendingFacts DEF FinishCreate, Inv
    <3>2. UserInv'
      BY <2>3, <3>1, InsertInv DEF FinishCreate, Inv
    <3>3. QED
      BY <1>3, <2>1, <3>2
  <2>4. CASE FinishPatch(r) \/ FinishDisable(r)
    <3>1. UserInv'
      BY <2>4, FinishPatchInv, FinishDisableInv DEF Inv
    <3>2. QED
      BY <1>3, <2>1, <3>1
  <2>5. QED
    BY <1>9, <2>2, <2>3, <2>4
<1>10. QED
  BY <1>4, <1>5, <1>6, <1>7, <1>8, <1>9 DEF UserRequests

LEMMA NextInv == ASSUME Inv, [Next]_vars PROVE Inv'
<1>1. CASE UNCHANGED vars
  BY <1>1, StayFacts DEF vars, oidcVars, Inv
<1>2. QED
  BY <1>1, UsersInv, OidcInv DEF Next

-----------------------------------------------------------------------------
\* Rows, tokens, waiting requests and the OIDC state keep their types (auth.ts,
\* settings.ts, sso.ts).
THEOREM TypeCorrect == Spec => []TypeOK
<1>1. Inv => TypeOK
  BY TypeParts DEF Inv, UserInv
<1>2. QED
  BY <1>1, InitInv, NextInv, PTL DEF Spec

\* A second factor that is enabled was confirmed with the secret that is stored, in
\* every order of setups, confirmations and waiting disables (auth.ts:166-223).
THEOREM EnabledIsConfirmed == Spec => []EnabledSecretConfirmed
<1>1. Inv => EnabledSecretConfirmed
  BY DEF Inv, UserInv
<1>2. QED
  BY <1>1, InitInv, NextInv, PTL DEF Spec

\* No request that waited for a password undoes a change of the role, and no single
\* sign-on does (settings.ts:298-312).
THEOREM RoleIsLastNamed == Spec => []RoleAsLastNamed
<1>1. Inv => RoleAsLastNamed
  BY DEF Inv, UserInv
<1>2. QED
  BY <1>1, InitInv, NextInv, PTL DEF Spec

\* Each OIDC login is answered by one callback at most, over every order of
\* callbacks, discoveries, exchanges, failures and changes of the settings, for any
\* number of requests and states (sso.ts:115-170).
THEOREM LoginAnsweredOnce == Spec => []OneExchangePerLogin
<1>1. Inv => OneExchangePerLogin
  BY DEF Inv
<1>2. QED
  BY <1>1, InitInv, NextInv, PTL DEF Spec

-----------------------------------------------------------------------------
(* K8sAgent.                                                               *)

\* What SaveCerts has still to write after n files.
Rest(n) == SubSeq(Files, n + 1, Len(Files))

LEMMA RestFacts ==
  /\ Rest(0) = Files /\ Rest(4) = <<>>
  /\ \A n \in 0..3 : /\ Rest(n) # <<>>
                     /\ Head(Rest(n)) = Files[n + 1]
                     /\ Tail(Rest(n)) = Rest(n + 1)
<1>1. Files \in Seq({"cert", "key", "ca", "token"}) /\ Len(Files) = 4
  BY DEF Files
<1>2. Rest(0) = Files
  BY <1>1, SubSeqFull DEF Rest
<1>3. Rest(4) = <<>>
  BY <1>1, SubSeqEmpty DEF Rest
<1>4. ASSUME NEW n \in 0..3
      PROVE  Rest(n) # <<>> /\ Head(Rest(n)) = Files[n + 1] /\ Tail(Rest(n)) = Rest(n + 1)
  <2>1. n + 1 \in 1..Len(Files) /\ Len(Files) \in (n + 1)..Len(Files)
    BY <1>1
  <2>2. Head(Rest(n)) = Files[n + 1] /\ Tail(Rest(n)) = SubSeq(Files, (n + 1) + 1, Len(Files))
    BY <1>1, <2>1, HeadTailOfSubSeq DEF Rest
  <2>3. Len(Rest(n)) = 4 - n
    <3>1. ASSUME NEW i \in (n + 1)..Len(Files) PROVE Files[i] \in {"cert", "key", "ca", "token"}
      <4>1. i \in 1..Len(Files)
        BY <1>1
      <4>2. QED
        BY <1>1, <4>1, ElementOfSeq
    <3>2. Len(SubSeq(Files, n + 1, Len(Files))) = Len(Files) - (n + 1) + 1
      BY <1>1, <2>1, <3>1, SubSeqProperties
    <3>3. QED
      BY <1>1, <3>2 DEF Rest
  <2>4. Rest(n) # <<>>
    <3>1. Len(Rest(n)) # 0
      BY <2>3
    <3>2. QED
      BY <3>1
  <2>5. QED
    BY <2>2, <2>4 DEF Rest
<1>5. QED
  BY <1>2, <1>3, <1>4

\* Inductive: the files are written in their order.
SavedInOrder ==
  \E n \in 0..4 : /\ todo = Rest(n)
                  /\ pod.phase = "saving" => \A i \in 1..n : Files[i] \in files

\* Inductive: LoadCerts, which reads the API token only with certificate and key,
\* never leaves one on the volume unread.
TokenWithKey == "token" \in files => Registered

\* Inductive: a goroutine that will answer has the connection and the row, one past
\* the export has a destination, and one that saves has opened the repository.
Sound(t) ==
  /\ t.linked => link /\ t.id \in Snaps
  /\ t.phase \in {"config", "init", "save"} => t.dest # NoDest
  /\ t.phase = "save" => repo[t.dest] = t.job

\* Inductive: a row stays "running" without a goroutine that will answer only if a
\* connection ended meanwhile.
Answered(s) == \E t \in runs : t.linked /\ t.id = s
NeverStranded == \A s \in Running : s \in cut \/ Answered(s)

RunsInv == runs \subseteq Run /\ row \in [Snaps -> Snapshot] /\ (\A t \in runs : Sound(t)) /\ NeverStranded

\* Types, but for those in SavedInOrder and RunsInv.
DatabaseTypes == regToken \in BOOLEAN /\ dest \in [Jobs -> Known \cup {"gone"}] /\ repo \in [Dests -> Jobs \cup {"none"}]
PodTypes      == files \subseteq {Files[i] : i \in DOMAIN Files} /\ pod \in Pod
LinkTypes     == link \in BOOLEAN /\ due \in BOOLEAN /\ entries \in [Jobs -> Known \cup {"none"}] /\ cut \subseteq Snaps
Counters      == fires \in 0..MaxFires /\ faults \in 0..MaxFaults

Typed == DatabaseTypes /\ PodTypes /\ LinkTypes /\ Counters

K8sInv == Typed /\ SavedInOrder /\ TokenWithKey /\ RunsInv

LEMMA K8sTypes == K8sInv => K8sTypeOK
<1>1. Len(Files) = 4
  BY DEF Files
<1>2. SavedInOrder => \E n \in 0..Len(Files) : todo = SubSeq(Files, n + 1, Len(Files))
  BY <1>1 DEF SavedInOrder, Rest
<1>3. QED
  BY <1>2 DEF K8sInv, K8sTypeOK, RunsInv, Typed, DatabaseTypes, PodTypes, LinkTypes, Counters

LEMMA K8sInitInv == ASSUME K8sInit PROVE K8sInv
<1>1. DatabaseTypes /\ LinkTypes /\ Counters
  <2>1. dest \in [Jobs -> Known \cup {"gone"}]
    BY DEF K8sInit, Known
  <2>2. entries \in [Jobs -> Known \cup {"none"}]
    BY DEF K8sInit, NoEntry
  <2>3. DatabaseTypes
    BY <2>1 DEF K8sInit, DatabaseTypes
  <2>4. LinkTypes
    BY <2>2 DEF K8sInit, LinkTypes
  <2>5. Counters
    BY K8sAssumption DEF K8sInit, Counters
  <2>6. QED
    BY <2>3, <2>4, <2>5
<1>2. PodTypes
  BY DEF K8sInit, PodTypes, Pod, Down
<1>3. SavedInOrder
  BY RestFacts DEF K8sInit, SavedInOrder, Down
<1>4. TokenWithKey /\ RunsInv
  BY DEF K8sInit, TokenWithKey, RunsInv, Snapshot, NeverStranded, Running
<1>5. QED
  BY <1>1, <1>2, <1>3, <1>4 DEF K8sInv, Typed


-----------------------------------------------------------------------------
(* K8sAgent: registration and jobs, which leave the goroutines alone.      *)

LEMMA Faulty == ASSUME Counters, Fault \/ UNCHANGED faults, UNCHANGED fires PROVE Counters'
  BY K8sAssumption DEF Counters, Fault

\* Files are added, and a boot or a registration starts no goroutine.
LEMMA RunsStay ==
  ASSUME RunsInv, UNCHANGED <<row, repo, link, runs>>, cut \subseteq cut'
  PROVE  RunsInv'
  BY DEF RunsInv, Sound, NeverStranded, Running, Answered

LEMMA BootInv == ASSUME K8sInv, Boot PROVE K8sInv'
<1>1. Typed'
  BY DEF K8sInv, Boot, Typed, DatabaseTypes, PodTypes, LinkTypes, Counters, Pod, server
<1>2. SavedInOrder'
  <2>1. PICK n \in 0..4 : todo = Rest(n)
    BY DEF K8sInv, SavedInOrder
  <2>2. pod'.phase # "saving"
    BY DEF Boot
  <2>3. QED
    BY <2>1, <2>2 DEF Boot, SavedInOrder
<1>3. TokenWithKey' /\ RunsInv'
  BY RunsStay DEF K8sInv, Boot, TokenWithKey, Registered, server
<1>4. QED
  BY <1>1, <1>2, <1>3 DEF K8sInv

LEMMA RegisterAgentInv == ASSUME K8sInv, RegisterAgent PROVE K8sInv'
<1>1. Typed'
  <2>1. DatabaseTypes' /\ LinkTypes'
    BY DEF K8sInv, RegisterAgent, Typed, DatabaseTypes, LinkTypes
  <2>2. PodTypes'
    <3>1. pod' \in Pod
      <4>1. pod' = [phase |-> "saving", api |-> TRUE] \/ pod' = [phase |-> "down", api |-> FALSE]
        BY DEF RegisterAgent, Down
      <4>2. [phase |-> "saving", api |-> TRUE] \in Pod /\ [phase |-> "down", api |-> FALSE] \in Pod
        BY DEF Pod
      <4>3. QED
        BY <4>1, <4>2
    <3>2. QED
      BY <3>1 DEF K8sInv, RegisterAgent, Typed, PodTypes
  <2>3. Counters'
    BY Faulty DEF K8sInv, RegisterAgent, Typed
  <2>4. QED
    BY <2>1, <2>2, <2>3 DEF Typed
<1>2. SavedInOrder'
  <2>1. CASE todo' = Files
    BY <2>1, RestFacts DEF SavedInOrder
  <2>2. CASE pod' = Down /\ UNCHANGED todo
    BY <2>2 DEF K8sInv, SavedInOrder, Down
  <2>3. QED
    BY <2>1, <2>2 DEF RegisterAgent
<1>3. TokenWithKey' /\ RunsInv'
  BY RunsStay DEF K8sInv, RegisterAgent, TokenWithKey, Registered
<1>4. QED
  BY <1>1, <1>2, <1>3 DEF K8sInv

\* The next file, of which the certificate and the key were before the API token.
LEMMA NextFile ==
  ASSUME K8sInv, pod.phase = "saving", todo # <<>>, pod' = pod,
         files' = files \cup {Head(todo)}, todo' = Tail(todo)
  PROVE  /\ files' \subseteq {Files[i] : i \in DOMAIN Files}
         /\ SavedInOrder' /\ TokenWithKey'
<1>1. PICK n \in 0..4 : todo = Rest(n) /\ \A i \in 1..n : Files[i] \in files
  BY DEF K8sInv, SavedInOrder
<1>2. n \in 0..3
  BY <1>1, RestFacts
<1>3. Head(todo) = Files[n + 1] /\ todo' = Rest(n + 1)
  BY <1>1, <1>2, RestFacts
<1>4. n + 1 \in 1..4 /\ n + 1 \in 0..4 /\ DOMAIN Files = 1..4
  BY <1>2 DEF Files
<1>5. files' \subseteq {Files[i] : i \in DOMAIN Files}
  BY <1>3, <1>4 DEF K8sInv, Typed, PodTypes
<1>6. \A i \in 1..(n + 1) : Files[i] \in files'
  <2>1. \A i \in 1..(n + 1) : i \in 1..n \/ i = n + 1
    BY <1>2
  <2>2. QED
    BY <2>1, <1>1, <1>3
<1>7. SavedInOrder'
  BY <1>3, <1>4, <1>6 DEF SavedInOrder
<1>8. TokenWithKey'
  <2>1. CASE n = 3
    <3>1. Files[1] = "cert" /\ Files[2] = "key" /\ 1 \in 1..3 /\ 2 \in 1..3
      BY DEF Files
    <3>2. QED
      BY <1>1, <2>1, <3>1 DEF TokenWithKey, Registered
  <2>2. CASE n \in 0..2
    <3>1. Files[n + 1] # "token"
      BY <2>2 DEF Files
    <3>2. QED
      BY <1>3, <3>1 DEF K8sInv, TokenWithKey, Registered
  <2>3. QED
    BY <1>2, <2>1, <2>2
<1>9. QED
  BY <1>5, <1>7, <1>8

LEMMA SaveCertsInv == ASSUME K8sInv, SaveCerts PROVE K8sInv'
<1>1. DatabaseTypes' /\ LinkTypes' /\ RunsInv' /\ Counters'
  BY RunsStay, Faulty DEF K8sInv, SaveCerts, server, Typed, DatabaseTypes, LinkTypes
<1>2. PodTypes' /\ SavedInOrder' /\ TokenWithKey'
  <2>1. CASE todo # <<>> /\ files' = files \cup {Head(todo)} /\ todo' = Tail(todo) /\ UNCHANGED pod
    <3>1. files' \subseteq {Files[i] : i \in DOMAIN Files} /\ SavedInOrder' /\ TokenWithKey'
      BY <2>1, NextFile DEF SaveCerts
    <3>2. QED
      BY <2>1, <3>1 DEF K8sInv, Typed, PodTypes
  <2>2. CASE pod' = [pod EXCEPT !.phase = "up"] /\ todo' = <<>> /\ UNCHANGED files
    <3>1. pod' \in Pod /\ pod'.phase = "up"
      BY <2>2 DEF K8sInv, Typed, PodTypes, Pod
    <3>2. QED
      BY <2>2, <3>1, RestFacts DEF K8sInv, Typed, PodTypes, SavedInOrder, TokenWithKey, Registered
  <2>3. QED
    BY <2>1, <2>2 DEF SaveCerts
<1>3. QED
  BY <1>1, <1>2 DEF K8sInv, Typed

LEMMA ConnectInv == ASSUME K8sInv, Connect PROVE K8sInv'
<1>1. DatabaseTypes' /\ PodTypes' /\ LinkTypes' /\ Counters'
  BY DEF K8sInv, Connect, server, Typed, DatabaseTypes, PodTypes, LinkTypes, Counters
<1>2. SavedInOrder' /\ TokenWithKey'
  BY DEF K8sInv, Connect, SavedInOrder, TokenWithKey, Registered
<1>3. RunsInv'
  BY DEF K8sInv, Connect, server, RunsInv, Sound, NeverStranded, Running, Answered
<1>4. QED
  BY <1>1, <1>2, <1>3 DEF K8sInv, Typed

\* No step but those above touches the files of credentials.
LEMMA FilesStay ==
  ASSUME SavedInOrder, TokenWithKey, UNCHANGED <<files, pod, todo>>
  PROVE  SavedInOrder' /\ TokenWithKey'
  BY DEF SavedInOrder, TokenWithKey, Registered

LEMMA JobsInv ==
  ASSUME K8sInv, NEW j \in Jobs, EditJob(j) \/ DeleteJob(j) \/ SyncJobs
  PROVE  K8sInv'
<1>1. dest' \in [Jobs -> Known \cup {"gone"}]
  BY DEF K8sInv, Typed, DatabaseTypes, EditJob, DeleteJob, SyncJobs, server
<1>2. entries' \in [Jobs -> Known \cup {"none"}]
  <2>1. ASSUME NEW accepted \in SUBSET Jobs
        PROVE  [i \in Jobs |-> IF dest[i] = "gone" \/ i \notin accepted THEN "none" ELSE dest[i]]
                 \in [Jobs -> Known \cup {"none"}]
    BY DEF K8sInv, Typed, DatabaseTypes
  <2>2. QED
    BY <2>1 DEF K8sInv, Typed, LinkTypes, EditJob, DeleteJob, SyncJobs
<1>3. DatabaseTypes'
  BY <1>1 DEF K8sInv, Typed, DatabaseTypes, EditJob, DeleteJob, SyncJobs, server
<1>4. LinkTypes'
  <2>1. due' \in BOOLEAN
    BY DEF EditJob, DeleteJob, SyncJobs, K8sInv, Typed, LinkTypes
  <2>2. QED
    BY <1>2, <2>1 DEF K8sInv, Typed, LinkTypes, EditJob, DeleteJob, SyncJobs
<1>5. PodTypes'
  BY DEF K8sInv, Typed, PodTypes, EditJob, DeleteJob, SyncJobs
<1>6. Counters'
  BY Faulty DEF K8sInv, Typed, EditJob, DeleteJob, SyncJobs
<1>7. SavedInOrder' /\ TokenWithKey'
  BY FilesStay DEF K8sInv, EditJob, DeleteJob, SyncJobs
<1>8. RunsInv'
  BY RunsStay DEF K8sInv, EditJob, DeleteJob, SyncJobs, server
<1>9. QED
  BY <1>3, <1>4, <1>5, <1>6, <1>7, <1>8 DEF K8sInv, Typed

-----------------------------------------------------------------------------
(* K8sAgent: backups.                                                      *)

\* A goroutine ends with its row, or without one.
LEMMA GoroutineEnded ==
  ASSUME RunsInv, NEW t \in runs, NEW status \in {"success", "failed"}, Finish(t, status),
         repo' = repo, link' = link, cut' = cut
  PROVE  RunsInv'
<1>1. runs' \subseteq Run /\ \A u \in runs' : Sound(u)'
  BY DEF RunsInv, Finish, Sound
<1>2. CASE t.linked /\ row[t.id].status # "deleted"
  <2>1. t.id \in Snaps
    BY <1>2 DEF RunsInv, Sound
  <2>2. row' = [row EXCEPT ![t.id].status = status]
    BY <1>2 DEF Finish
  <2>3. [row[t.id] EXCEPT !.status = status] \in Snapshot
    BY <2>1 DEF RunsInv, Snapshot
  <2>4. row' \in [Snaps -> Snapshot]
    BY <2>1, <2>2, <2>3 DEF RunsInv
  <2>5. row'[t.id].status = status /\ \A s \in Snaps \ {t.id} : row'[s] = row[s]
    BY <2>1, <2>2 DEF RunsInv, Snapshot
  <2>6. NeverStranded'
    BY <2>1, <2>5 DEF RunsInv, NeverStranded, Running, Answered, Finish
  <2>7. QED
    BY <1>1, <2>4, <2>6 DEF RunsInv
<1>3. CASE ~(t.linked /\ row[t.id].status # "deleted")
  <2>1. row' = row
    BY <1>3 DEF Finish
  <2>2. ASSUME NEW s \in Running, s \notin cut PROVE Answered(s)'
    <3>1. PICK u \in runs : u.linked /\ u.id = s
      BY <2>2 DEF RunsInv, NeverStranded, Answered
    <3>2. u # t
      BY <1>3, <3>1 DEF Running
    <3>3. QED
      BY <3>1, <3>2 DEF Answered, Finish
  <2>3. QED
    BY <1>1, <2>1, <2>2 DEF RunsInv, NeverStranded, Running
<1>4. QED
  BY <1>2, <1>3

\* A goroutine goes on under its id, towards its row; a repository may be made.
LEMMA GoroutineWentOn ==
  ASSUME RunsInv, NEW t \in runs, NEW u \in Run, u.id = t.id, u.linked = t.linked,
         runs' = (runs \ {t}) \cup {u}, Sound(u)', row' = row, link' = link, cut' = cut,
         \A v \in runs \ {t} : Sound(v)'
  PROVE  RunsInv'
<1>1. runs' \subseteq Run /\ \A v \in runs' : Sound(v)'
  BY DEF RunsInv
<1>2. ASSUME NEW s \in Running, s \notin cut PROVE Answered(s)'
  BY <1>2 DEF RunsInv, NeverStranded, Answered
<1>3. QED
  BY <1>1, <1>2 DEF RunsInv, NeverStranded, Running

\* The phases of a goroutine are its own; the rest of its record stays.
LEMMA GoroutineMoved ==
  ASSUME NEW t \in Run, NEW phase \in {"fetch", "start", "config", "init", "save"}
  PROVE  /\ [t EXCEPT !.phase = phase] \in Run
         /\ [t EXCEPT !.phase = phase].phase = phase
         /\ [t EXCEPT !.phase = phase].id = t.id /\ [t EXCEPT !.phase = phase].linked = t.linked
         /\ [t EXCEPT !.phase = phase].job = t.job /\ [t EXCEPT !.phase = phase].dest = t.dest
  BY DEF Run

LEMMA GoroutineBegan ==
  ASSUME NEW t \in Run, NEW d \in Known
  PROVE  LET u == [t EXCEPT !.phase = "start", !.dest = d]
         IN  u \in Run /\ u.phase = "start" /\ u.id = t.id /\ u.linked = t.linked
  BY DEF Run

LEMMA FetchInv ==
  ASSUME K8sInv, NEW t \in runs, Fetch(t), link' = link, cut' = cut
  PROVE  RunsInv'
<1>1. t \in Run /\ Sound(t)
  BY DEF K8sInv, RunsInv
<1>2. repo' = repo /\ \A v \in runs : Sound(v)'
  BY DEF Fetch, K8sInv, RunsInv, Sound
<1>3. CASE dest[t.job] # "gone" /\ Begin(t) /\ UNCHANGED row
  <2>1. dest[t.job] \in Known
    BY <1>1, <1>3 DEF K8sInv, Typed, DatabaseTypes, Run
  <2>2. PICK u : u = [t EXCEPT !.phase = "start", !.dest = dest[t.job]]
    OBVIOUS
  <2>3. u \in Run /\ u.phase = "start" /\ u.id = t.id /\ u.linked = t.linked
    BY <1>1, <2>1, <2>2, GoroutineBegan
  <2>4. u.linked => link' /\ u.id \in Snaps
    BY <1>1, <2>3 DEF Sound
  <2>5. Sound(u)'
    BY <2>3, <2>4 DEF Sound
  <2>6. runs' = (runs \ {t}) \cup {u} /\ row' = row
    BY <1>3, <2>2 DEF Begin
  <2>7. QED
    BY <1>2, <2>3, <2>5, <2>6, GoroutineWentOn DEF K8sInv
<1>4. CASE Finish(t, "failed")
  BY <1>2, <1>4, GoroutineEnded DEF K8sInv
<1>5. QED
  BY <1>3, <1>4 DEF Fetch

LEMMA GotoInv ==
  ASSUME K8sInv, NEW t \in runs, NEW phase \in {"config", "init", "save"}, Goto(t, phase),
         t.dest # NoDest, phase = "save" => repo'[t.dest] = t.job,
         link' = link, cut' = cut, \A v \in runs : Sound(v)'
  PROVE  RunsInv'
<1>0. PICK u : u = [t EXCEPT !.phase = phase]
  OBVIOUS
<1>1. /\ t \in Run /\ Sound(t) /\ Sound(t)'
      /\ phase \in {"fetch", "start", "config", "init", "save"}
  BY DEF K8sInv, RunsInv
<1>2. /\ u \in Run /\ u.phase = phase /\ u.id = t.id /\ u.linked = t.linked
      /\ u.job = t.job /\ u.dest = t.dest
  BY <1>0, <1>1, GoroutineMoved
<1>3. runs' = (runs \ {t}) \cup {u} /\ row' = row
  BY <1>0 DEF Goto
<1>4. u.linked => link' /\ u.id \in Snaps
  BY <1>1, <1>2 DEF Sound
<1>5. Sound(u)'
  BY <1>2, <1>4 DEF Sound
<1>6. QED
  BY <1>2, <1>3, <1>5, GoroutineWentOn DEF K8sInv

\* A repository is made once, with the password of its first job.
Makes(t) == /\ t.phase = "init"
            /\ repo[t.dest] = "none" /\ repo' = [repo EXCEPT ![t.dest] = t.job]
            /\ Goto(t, "save")

LEMMA StepInv ==
  ASSUME K8sInv, NEW t \in runs, Step(t)
  PROVE  K8sInv'
<1>1. t \in Run /\ Sound(t)
  BY DEF K8sInv, RunsInv
<1>2. link' = link /\ cut' = cut
  BY DEF Step
<1>3. ASSUME Makes(t) PROVE DatabaseTypes' /\ RunsInv'
  <2>1. t.dest # NoDest /\ t.job \in Jobs
    BY <1>1, <1>3 DEF Makes, Sound, Run
  <2>2. t.dest \in Dests
    BY <1>1, <2>1 DEF Run, Known
  <2>3. repo'[t.dest] = t.job /\ \A d \in Dests : repo[d] # "none" => repo'[d] = repo[d]
    BY <1>3, <2>2 DEF Makes, K8sInv, Typed, DatabaseTypes
  <2>4. ASSUME NEW v \in runs PROVE Sound(v)'
    <3>1. v \in Run /\ Sound(v)
      BY DEF K8sInv, RunsInv
    <3>2. v.phase = "save" => v.dest \in Dests /\ repo[v.dest] # "none"
      BY <3>1, K8sAssumption DEF Sound, Run, Known
    <3>3. QED
      BY <1>2, <2>3, <3>1, <3>2 DEF Sound
  <2>5. RunsInv'
    BY <1>2, <1>3, <2>1, <2>3, <2>4, GotoInv DEF Makes
  <2>6. DatabaseTypes'
    BY <1>3, <2>1, <2>2 DEF Makes, K8sInv, Typed, DatabaseTypes, Step
  <2>7. QED
    BY <2>5, <2>6
<1>4. ASSUME repo' = repo, ~Makes(t) PROVE DatabaseTypes' /\ RunsInv'
  <2>0. SUFFICES RunsInv'
    BY <1>4 DEF K8sInv, Typed, DatabaseTypes, Step
  <2>1. \A v \in runs : Sound(v)'
    BY <1>2, <1>4 DEF K8sInv, RunsInv, Sound
  <2>2. CASE Fetch(t)
    BY <1>2, <2>2, FetchInv
  <2>3. CASE \E status \in {"success", "failed"} : Finish(t, status)
    BY <1>2, <1>4, <2>3, GoroutineEnded DEF K8sInv
  <2>4. CASE Export(t) /\ t.dest # NoDest /\ Goto(t, "config")
    BY <1>2, <2>1, <2>4, GotoInv
  <2>5. CASE CatConfig(t)
    <3>1. t.dest # NoDest
      BY <1>1, <2>5 DEF CatConfig, Sound
    <3>2. CASE repo[t.dest] = t.job /\ Goto(t, "save")
      BY <1>2, <1>4, <2>1, <3>1, <3>2, GotoInv
    <3>3. CASE Goto(t, "init")
      BY <1>2, <2>1, <3>1, <3>3, GotoInv
    <3>4. QED
      BY <2>5, <3>2, <3>3 DEF CatConfig
  <2>6. QED
    BY <1>4, <2>2, <2>3, <2>4, <2>5 DEF Step, Export, InitRepo, RunRestic, Makes
<1>5. repo' = repo \/ Makes(t)
  BY DEF Step, Fetch, Export, CatConfig, InitRepo, RunRestic, Makes
<1>6. DatabaseTypes' /\ RunsInv'
  BY <1>3, <1>4, <1>5
<1>7. PodTypes' /\ LinkTypes'
  BY DEF K8sInv, Typed, PodTypes, LinkTypes, Step
<1>8. Counters'
  <2>1. Fault \/ UNCHANGED faults
    BY DEF Step, Fetch, Export, CatConfig, InitRepo, RunRestic
  <2>2. QED
    BY <2>1, Faulty DEF K8sInv, Typed, Step
<1>9. SavedInOrder' /\ TokenWithKey'
  BY FilesStay DEF K8sInv, Step
<1>10. QED
  BY <1>6, <1>7, <1>8, <1>9 DEF K8sInv, Typed

LEMMA RunJobInv == ASSUME K8sInv, NEW s \in Snaps, NEW j \in Jobs, RunJob(s, j) PROVE K8sInv'
<1>1. row' \in [Snaps -> Snapshot] /\ \A r \in Snaps \ {s} : row'[r] = row[r]
  BY DEF K8sInv, RunsInv, RunJob, Snapshot
<1>2. row'[s].status = IF link THEN "running" ELSE "failed"
  BY DEF K8sInv, RunsInv, RunJob
<1>3. PICK t : t = [id |-> s, job |-> j, linked |-> TRUE, phase |-> "fetch", dest |-> NoDest]
  OBVIOUS
<1>4. t \in Run /\ t.linked /\ t.id = s /\ t.phase = "fetch"
  BY <1>3 DEF Run, Known
<1>5. runs' = IF link THEN runs \cup {t} ELSE runs
  BY <1>3 DEF RunJob
<1>6. runs' \subseteq Run /\ \A u \in runs' : Sound(u)'
  BY <1>4, <1>5 DEF K8sInv, RunsInv, Sound, RunJob
<1>7. NeverStranded'
  <2>1. \A r \in Running' : r = s \/ r \in Running
    BY <1>1 DEF Running
  <2>2. s \in Running' => Answered(s)'
    BY <1>2, <1>4, <1>5 DEF Running, Answered
  <2>3. \A r \in Running : Answered(r) => Answered(r)'
    BY <1>5 DEF Answered
  <2>4. QED
    BY <2>1, <2>2, <2>3 DEF K8sInv, RunsInv, NeverStranded, RunJob
<1>8. Typed' /\ SavedInOrder' /\ TokenWithKey'
  BY FilesStay DEF K8sInv, RunJob, Typed, DatabaseTypes, PodTypes, LinkTypes, Counters
<1>9. QED
  BY <1>1, <1>6, <1>7, <1>8 DEF K8sInv, RunsInv

LEMMA FireScheduleInv == ASSUME K8sInv, NEW j \in Jobs, FireSchedule(j) PROVE K8sInv'
<1>1. entries[j] \in Known /\ fires + 1 \in 1..MaxFires
  BY K8sAssumption DEF K8sInv, Typed, LinkTypes, Counters, FireSchedule
<1>2. PICK t : t = [id |-> fires + 1, job |-> j, linked |-> FALSE, phase |-> "start", dest |-> entries[j]]
  OBVIOUS
<1>3. t \in Run /\ ~t.linked /\ t.phase = "start"
  BY <1>1, <1>2 DEF Run
<1>4. runs' = runs \cup {t}
  BY <1>2 DEF FireSchedule
<1>5. RunsInv'
  BY <1>3, <1>4 DEF K8sInv, RunsInv, Sound, NeverStranded, Running, Answered, FireSchedule, server
<1>6. DatabaseTypes' /\ PodTypes' /\ LinkTypes'
  BY DEF K8sInv, Typed, DatabaseTypes, PodTypes, LinkTypes, FireSchedule, server
<1>7. Counters'
  BY <1>1, K8sAssumption DEF K8sInv, Typed, Counters, FireSchedule
<1>8. SavedInOrder' /\ TokenWithKey'
  BY FilesStay DEF K8sInv, FireSchedule
<1>9. QED
  BY <1>5, <1>6, <1>7, <1>8 DEF K8sInv, Typed

LEMMA DeleteSnapshotInv == ASSUME K8sInv, NEW s \in Snaps, DeleteSnapshot(s) PROVE K8sInv'
<1>1. row' \in [Snaps -> Snapshot] /\ Running' \subseteq Running
  <2>1. [row[s] EXCEPT !.status = "deleted"] \in Snapshot
    BY DEF K8sInv, RunsInv, Snapshot
  <2>2. row' = [row EXCEPT ![s] = [row[s] EXCEPT !.status = "deleted"]]
    BY DEF DeleteSnapshot
  <2>3. row' \in [Snaps -> Snapshot] /\ row'[s].status = "deleted" /\ \A r \in Snaps \ {s} : row'[r] = row[r]
    BY <2>1, <2>2 DEF K8sInv, RunsInv, Snapshot
  <2>4. QED
    BY <2>3 DEF Running
<1>2. RunsInv'
  BY <1>1 DEF K8sInv, RunsInv, Sound, NeverStranded, Answered, DeleteSnapshot, container
<1>3. Typed' /\ SavedInOrder' /\ TokenWithKey'
  BY FilesStay DEF K8sInv, DeleteSnapshot, container, Typed, DatabaseTypes, PodTypes, LinkTypes, Counters
<1>4. QED
  BY <1>2, <1>3 DEF K8sInv

-----------------------------------------------------------------------------
(* K8sAgent: failures.                                                     *)

LEMMA LoseLinkInv == ASSUME K8sInv, LoseLink PROVE K8sInv'
<1>1. ASSUME NEW t \in Run
      PROVE  LET u == [t EXCEPT !.linked = FALSE]
             IN  u \in Run /\ ~u.linked /\ u.phase = t.phase /\ u.dest = t.dest /\ u.job = t.job
  BY DEF Run
<1>2. runs' \subseteq Run /\ \A u \in runs' : Sound(u)'
  <2>1. ASSUME NEW u \in runs' PROVE u \in Run /\ Sound(u)'
    <3>1. PICK t \in runs : u = [t EXCEPT !.linked = FALSE]
      BY DEF LoseLink
    <3>2. t \in Run /\ Sound(t)
      BY DEF K8sInv, RunsInv
    <3>3. u \in Run /\ ~u.linked /\ u.phase = t.phase /\ u.dest = t.dest /\ u.job = t.job
      BY <1>1, <3>1, <3>2
    <3>4. QED
      BY <3>2, <3>3 DEF Sound, LoseLink, server
  <2>2. QED
    BY <2>1
<1>3. Running \subseteq Snaps /\ Running' = Running /\ cut' = cut \cup Running
  BY DEF Running, LoseLink, server
<1>4. RunsInv'
  BY <1>2, <1>3 DEF K8sInv, RunsInv, NeverStranded, LoseLink, server
<1>5. LinkTypes'
  BY <1>3 DEF K8sInv, Typed, LinkTypes, LoseLink
<1>6. DatabaseTypes' /\ PodTypes' /\ Counters'
  BY Faulty DEF K8sInv, Typed, DatabaseTypes, PodTypes, LoseLink, server
<1>7. SavedInOrder' /\ TokenWithKey'
  BY FilesStay DEF K8sInv, LoseLink
<1>8. QED
  BY <1>4, <1>5, <1>6, <1>7 DEF K8sInv, Typed

LEMMA PodDiesInv == ASSUME K8sInv, PodDies PROVE K8sInv'
<1>1. Running \subseteq Snaps /\ Running' = Running /\ cut' = cut \cup Running
  BY DEF Running, PodDies, server
<1>2. RunsInv'
  BY <1>1 DEF K8sInv, RunsInv, NeverStranded, PodDies, server
<1>3. LinkTypes'
  BY <1>1 DEF K8sInv, Typed, LinkTypes, PodDies, NoEntry
<1>4. DatabaseTypes' /\ Counters'
  BY Faulty DEF K8sInv, Typed, DatabaseTypes, PodDies, server
<1>5. PodTypes'
  <2>1. Down \in Pod
    BY DEF Down, Pod
  <2>2. QED
    BY <2>1 DEF K8sInv, Typed, PodTypes, PodDies
<1>6. SavedInOrder' /\ TokenWithKey'
  BY RestFacts DEF K8sInv, PodDies, Down, SavedInOrder, TokenWithKey, Registered
<1>7. QED
  BY <1>2, <1>3, <1>4, <1>5, <1>6 DEF K8sInv, Typed

LEMMA K8sNextInv == ASSUME K8sInv, [K8sNext]_k8sVars PROVE K8sInv'
<1>1. CASE UNCHANGED k8sVars
  BY <1>1, FilesStay, RunsStay
     DEF k8sVars, server, container, K8sInv, Typed, DatabaseTypes, PodTypes, LinkTypes, Counters
<1>2. CASE Boot
  BY <1>2, BootInv
<1>3. CASE RegisterAgent
  BY <1>3, RegisterAgentInv
<1>4. CASE SaveCerts
  BY <1>4, SaveCertsInv
<1>5. CASE Connect
  BY <1>5, ConnectInv
<1>6. CASE SyncJobs
  BY <1>6, JobsInv, K8sAssumption
<1>7. ASSUME NEW j \in Jobs, EditJob(j) \/ DeleteJob(j) PROVE K8sInv'
  BY <1>7, JobsInv
<1>8. ASSUME NEW j \in Jobs, FireSchedule(j) PROVE K8sInv'
  BY <1>8, FireScheduleInv
<1>9. ASSUME NEW j \in Jobs, NEW s \in Snaps, RunJob(s, j) PROVE K8sInv'
  BY <1>9, RunJobInv
<1>10. ASSUME NEW s \in Snaps, DeleteSnapshot(s) PROVE K8sInv'
  BY <1>10, DeleteSnapshotInv
<1>11. ASSUME NEW t \in runs, Step(t) PROVE K8sInv'
  BY <1>11, StepInv
<1>12. CASE LoseLink \/ PodDies
  BY <1>12, LoseLinkInv, PodDiesInv
<1>13. QED
  BY <1>1, <1>2, <1>3, <1>4, <1>5, <1>6, <1>7, <1>8, <1>9, <1>10, <1>11, <1>12 DEF K8sNext

-----------------------------------------------------------------------------
\* Database, volume, container and goroutines keep their types, and an entry or a
\* goroutine names only a destination the job had (k8s-agent, main.go).
THEOREM K8sTypeCorrect == K8sSpec => []K8sTypeOK
<1>1. QED
  BY K8sInitInv, K8sNextInv, K8sTypes, PTL DEF K8sSpec

\* The safety half of ManualRunResolves: a row is "running" only while a goroutine
\* of the connection it was asked over will answer for it, unless a connection
\* ended meanwhile (main.go:184-200, 303-319).
THEOREM RowsAnswered == K8sSpec => []NeverStranded
<1>1. K8sInv => NeverStranded
  BY DEF K8sInv, RunsInv
<1>2. QED
  BY <1>1, K8sInitInv, K8sNextInv, PTL DEF K8sSpec

\* Whichever jobs share a destination, and however their backups interleave, restic
\* saves only into a repository that opens with the password of its own job
\* (k8s_backup.go:188-306).
OwnPassword == \A t \in runs : t.phase = "save" => t.dest \in Dests /\ repo[t.dest] = t.job

THEOREM SavesWithOwnPassword == K8sSpec => []OwnPassword
<1>1. K8sInv => OwnPassword
  <2>1. ASSUME K8sInv, NEW t \in runs, t.phase = "save" PROVE t.dest \in Dests /\ repo[t.dest] = t.job
    BY <2>1 DEF K8sInv, RunsInv, Sound, Run, Known
  <2>2. QED
    BY <2>1 DEF OwnPassword
<1>2. QED
  BY <1>1, K8sInitInv, K8sNextInv, PTL DEF K8sSpec

\* No crash between the four writes leaves an API token on the volume that the next
\* start does not read: it is written last, and read only with the files that were
\* written first (config.go:61-100).
THEOREM TokenIsRead == K8sSpec => []TokenWithKey
<1>1. K8sInv => TokenWithKey
  BY DEF K8sInv
<1>2. QED
  BY <1>1, K8sInitInv, K8sNextInv, PTL DEF K8sSpec
=============================================================================
