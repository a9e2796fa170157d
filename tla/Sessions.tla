------------------------------ MODULE Sessions ------------------------------
(***************************************************************************)
(* The session of one tab: the access token in tokenStore and the user *)
(* AuthContext shows, the requests of the API client with the refresh that *)
(* a 401 starts (services/api/client.ts), and the accounts, cookie and     *)
(* tokens of the backend (modules/auth, modules/users).                    *)
(*                                                                         *)
(* A request and its answer are separate steps; each may be lost.  Access  *)
(* tokens expire; the refresh cookie, which the tabs of a browser share,   *)
(* outlives the model.  Of the other tabs only that they replace it.       *)
(***************************************************************************)
EXTENDS Naturals, Sequences

CONSTANTS
  Users,
  Requests,      \* requests that pages make, each once
  MaxTokens      \* bound: access tokens issued

ASSUME SessionAssumption == "nobody" \notin Users /\ MaxTokens \in Nat

VARIABLES
  active,        \* users.is_active
  cookie,        \* the refresh cookie of the browser: the user it names
  issued,        \* the access tokens by number: the user each names
  expired,       \* those whose time is up
  store,         \* tokenStore: a token, NoToken without one
  shown, status, \* AuthContext
  login, logout, \* the calls of AuthContext under way
  refresh,       \* refreshPromise
  req,           \* the requests of the pages
  overtaken      \* history: a session ended with requests of it under way, or
                 \* another tab signed in as someone else during it
sessionVars == <<active, cookie, issued, expired, store, shown, status, login, logout,
                 refresh, req, overtaken>>

Nobody == "nobody"
NoToken == 0
Tokens == 0..MaxTokens
Unsent == [pc |-> "idle", token |-> NoToken, by |-> Nobody, retried |-> FALSE]
Quiet == [pc |-> "none", token |-> NoToken]
InFlight == {"sent", "denied", "waiting"}

SessionTypeOK ==
  /\ active \in [Users -> BOOLEAN] /\ cookie \in Users \cup {Nobody}
  /\ issued \in Seq(Users) /\ Len(issued) <= MaxTokens /\ expired \subseteq DOMAIN issued
  /\ store \in Tokens /\ shown \in Users \cup {Nobody}
  /\ status \in {"initializing", "authenticated", "unauthenticated"}
  /\ login.pc \in {"none", "sent", "granted", "refused"} /\ logout \in {"none", "sent", "answered"}
  /\ refresh.pc \in {"none", "sent", "granted", "refused"}
  /\ \A i \in Requests : req[i].pc \in {"idle", "served", "failed"} \cup InFlight
  /\ overtaken \in BOOLEAN

SessionInit ==
  /\ active = [u \in Users |-> TRUE] /\ cookie \in Users \cup {Nobody}
  /\ issued = <<>> /\ expired = {}
  /\ store = NoToken /\ shown = Nobody /\ status = "initializing"
  /\ login = Quiet /\ logout = "none" /\ refresh = Quiet
  /\ req = [i \in Requests |-> Unsent]
  /\ overtaken = FALSE

backend == <<active, cookie, issued, expired>>
page == <<store, shown, status>>

-----------------------------------------------------------------------------
(* The backend: signAccess() for an active user; the token is numbered.    *)
Signs(u) == u \in Users /\ active[u] /\ Len(issued) < MaxTokens
NextToken == Len(issued) + 1

SetActive(u) ==
  /\ active' = [active EXCEPT ![u] = ~@]
  /\ UNCHANGED <<cookie, issued, expired, store, shown, status, login, logout, refresh, req, overtaken>>

Expire(n) ==
  /\ n \notin expired /\ expired' = expired \cup {n}
  /\ UNCHANGED <<active, cookie, issued, store, shown, status, login, logout, refresh, req, overtaken>>

Valid(n) == n # NoToken /\ n \notin expired

-----------------------------------------------------------------------------
(* AuthContext *)

(* Mutant: the token outlives the session. *)
ClearSession_KeepToken ==
  /\ UNCHANGED store /\ shown' = Nobody /\ status' = "unauthenticated"
  /\ overtaken' = (overtaken \/ refresh'.pc # "none" \/ \E i \in Requests : req'[i].pc \in InFlight)

ClearSession ==
  /\ store' = NoToken /\ shown' = Nobody /\ status' = "unauthenticated"
  /\ overtaken' = (overtaken \/ refresh'.pc # "none" \/ \E i \in Requests : req'[i].pc \in InFlight)

(* The silent bootstrap: a token for the cookie, then /auth/me.            *)
Bootstrap ==
  /\ status = "initializing" /\ store = NoToken
  /\ IF Signs(cookie)
     THEN issued' = Append(issued, cookie) /\ store' = NextToken /\ UNCHANGED <<shown, status, overtaken>>
     ELSE UNCHANGED <<issued, refresh, req>> /\ ClearSession
  /\ UNCHANGED <<active, cookie, expired, login, logout, refresh, req>>

Me ==
  /\ status = "initializing" /\ store # NoToken
  /\ IF Valid(store)
     THEN shown' = issued[store] /\ status' = "authenticated" /\ UNCHANGED <<store, overtaken>>
     ELSE UNCHANGED <<refresh, req>> /\ ClearSession
  /\ UNCHANGED <<backend, login, logout, refresh, req>>

LoseBootstrap ==
  /\ status = "initializing" /\ UNCHANGED <<refresh, req>> /\ ClearSession
  /\ UNCHANGED <<backend, login, logout>>

Login ==
  /\ status = "unauthenticated" /\ login.pc = "none"
  /\ login' = [pc |-> "sent", token |-> NoToken]
  /\ UNCHANGED <<backend, page, logout, refresh, req, overtaken>>

ServeLogin(u) ==
  /\ login.pc = "sent" /\ Signs(u)
  /\ cookie' = u /\ issued' = Append(issued, u)
  /\ login' = [pc |-> "granted", token |-> NextToken]
  /\ UNCHANGED <<active, expired, page, logout, refresh, req, overtaken>>

RefuseLogin ==
  /\ login.pc = "sent" /\ login' = [login EXCEPT !.pc = "refused"]
  /\ UNCHANGED <<backend, page, logout, refresh, req, overtaken>>

AnswerLogin ==
  /\ login.pc \in {"granted", "refused"} /\ login' = Quiet
  /\ IF login.pc = "granted"
     THEN store' = login.token /\ shown' = issued[login.token] /\ status' = "authenticated"
     ELSE UNCHANGED page
  /\ UNCHANGED <<backend, logout, refresh, req, overtaken>>

Logout ==
  /\ status = "authenticated" /\ logout = "none" /\ logout' = "sent"
  /\ UNCHANGED <<backend, page, login, refresh, req, overtaken>>

ServeLogout ==
  /\ logout = "sent" /\ logout' = "answered" /\ cookie' = Nobody
  /\ UNCHANGED <<active, issued, expired, page, login, refresh, req, overtaken>>

LoseLogout ==
  /\ logout = "sent" /\ logout' = "answered"
  /\ UNCHANGED <<backend, page, login, refresh, req, overtaken>>

AnswerLogout ==
  /\ logout = "answered" /\ logout' = "none"
  /\ UNCHANGED <<backend, login, refresh, req>> /\ ClearSession

(* Another tab signs in as u, or out.                                      *)
InSession == status = "authenticated" \/ store # NoToken \/ login.pc = "granted"

OtherTab(u) ==
  /\ cookie # u /\ cookie' = u
  /\ overtaken' = (overtaken \/ (InSession /\ u \notin {Nobody, shown}))
  /\ UNCHANGED <<active, issued, expired, page, login, logout, refresh, req>>

-----------------------------------------------------------------------------
(* The API client *)
ReqIs(i, r) == req' = [req EXCEPT ![i] = r]

Send(i) ==
  /\ status = "authenticated" /\ req[i].pc = "idle"
  /\ ReqIs(i, [pc |-> "sent", token |-> store, by |-> shown, retried |-> FALSE])
  /\ UNCHANGED <<backend, page, login, logout, refresh, overtaken>>

(* JwtStrategy looks at the token alone.                                   *)
Serve(i) ==
  /\ req[i].pc = "sent"
  /\ ReqIs(i, [req[i] EXCEPT !.pc = IF Valid(req[i].token) THEN "served" ELSE "denied"])
  /\ UNCHANGED <<backend, page, login, logout, refresh, overtaken>>

Lose(i) ==
  /\ req[i].pc = "sent" /\ ReqIs(i, [req[i] EXCEPT !.pc = "failed"])
  /\ UNCHANGED <<backend, page, login, logout, refresh, overtaken>>

(* A first 401 starts the refresh or joins the one under way.              *)
Denied(i) ==
  /\ req[i].pc = "denied"
  /\ IF req[i].retried
     THEN ReqIs(i, [req[i] EXCEPT !.pc = "failed"]) /\ UNCHANGED refresh
     ELSE /\ ReqIs(i, [req[i] EXCEPT !.pc = "waiting", !.retried = TRUE])
          /\ refresh' = IF refresh.pc = "none" THEN [Quiet EXCEPT !.pc = "sent"] ELSE refresh
  /\ UNCHANGED <<backend, page, login, logout, overtaken>>

ServeRefresh ==
  /\ refresh.pc = "sent"
  /\ IF Signs(cookie)
     THEN issued' = Append(issued, cookie) /\ refresh' = [pc |-> "granted", token |-> NextToken]
     ELSE refresh' = [refresh EXCEPT !.pc = "refused"] /\ UNCHANGED issued
  /\ UNCHANGED <<active, cookie, expired, page, login, logout, req, overtaken>>

LoseRefresh ==
  /\ refresh.pc = "sent" /\ refresh' = [refresh EXCEPT !.pc = "refused"]
  /\ UNCHANGED <<backend, page, login, logout, req, overtaken>>

(* Mutant: the request that started the refresh alone is told. *)
Told_First == IF \E i \in Requests : req[i].pc = "waiting"
              THEN {CHOOSE i \in Requests : req[i].pc = "waiting"} ELSE {}

Told == {i \in Requests : req[i].pc = "waiting"}

(* All that wait are replayed with the new token, or the session is lost.  *)
Granted ==
  /\ refresh.pc = "granted" /\ refresh' = Quiet
  /\ store' = refresh.token
  /\ req' = [i \in Requests |-> IF i \in Told THEN [req[i] EXCEPT !.pc = "sent", !.token = refresh.token]
                                ELSE req[i]]
  /\ UNCHANGED <<backend, shown, status, login, logout, overtaken>>

Refused ==
  /\ refresh.pc = "refused" /\ refresh' = Quiet
  /\ req' = [i \in Requests |-> IF i \in Told THEN [req[i] EXCEPT !.pc = "failed"] ELSE req[i]]
  /\ ClearSession
  /\ UNCHANGED <<backend, login, logout>>

(* What goes on by itself once it has begun.                               *)
Network(i) == Serve(i) \/ Denied(i)
Refreshing == ServeRefresh \/ LoseRefresh \/ Granted \/ Refused

SessionNext ==
  \/ \E u \in Users : SetActive(u) \/ ServeLogin(u)
  \/ \E n \in DOMAIN issued : Expire(n)
  \/ Bootstrap \/ Me \/ LoseBootstrap
  \/ Login \/ RefuseLogin \/ AnswerLogin
  \/ Logout \/ ServeLogout \/ LoseLogout \/ AnswerLogout
  \/ \E u \in Users \cup {Nobody} : OtherTab(u)
  \/ \E i \in Requests : Send(i) \/ Lose(i) \/ Network(i)
  \/ Refreshing

(* An HTTP request is answered or its connection breaks.                   *)
SessionFairness == WF_sessionVars(Refreshing) /\ \A i \in Requests : WF_sessionVars(Network(i))

SessionSpec == SessionInit /\ [][SessionNext]_sessionVars /\ SessionFairness

-----------------------------------------------------------------------------
(* "Holds the current user + access token" (AuthContext.tsx:2-3): the      *)
(* token is the shown user's, there is none without one, and a request is  *)
(* served as the user whose page sent it, also when it was replayed with a *)
(* new token; unless a session ended with requests or a refresh under way, *)
(* or another tab signed in as someone else during it.                     *)
OneSession ==
  ~overtaken =>
    /\ status = "authenticated" /\ store # NoToken => issued[store] = shown
    /\ status = "unauthenticated" => store = NoToken /\ shown = Nobody
    /\ \A i \in Requests : req[i].pc = "served" => issued[req[i].token] = req[i].by

(* The same, whatever is under way when a session ends.                    *)
ServedAsSender == \A i \in Requests : req[i].pc = "served" => issued[req[i].token] = req[i].by

(* "concurrent 401s share a single in-flight refresh": each request that   *)
(* waits for it is answered.                                               *)
EveryRequestEnds == \A i \in Requests : req[i].pc = "sent" ~> req[i].pc \in {"served", "failed"}
=============================================================================
