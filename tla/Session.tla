------------------------------ MODULE Session ------------------------------
(***************************************************************************)
(* The session of one user in the browser: the axios client of             *)
(* frontend/src/lib/api.ts, which renews an expired access token while     *)
(* other requests wait for it, the store and the route proxy around it,    *)
(* and the tokens as AuthService and JwtStrategy judge them.               *)
(*                                                                         *)
(* Every tab runs its own client; the cookies are shared.  A tab is        *)
(* single-threaded: what follows an answer up to the next wait, with the   *)
(* promise callbacks it resolves, is one action.  A token is known by its  *)
(* age only: "valid" or "expired".  The cookie of the refresh token        *)
(* expires with the token.  Passwords, roles of routes and the answers'    *)
(* contents are left out.                                                  *)
(***************************************************************************)
EXTENDS Naturals, Sequences, SequencesExt

CONSTANTS
  Tab,
  Request,     \* calls of the API, but login and refresh
  TabOf,       \* TabOf[r]: the tab that sends r
  None,        \* no token, no request
  MaxChanges   \* bound on expiries and changes of the account

ASSUME TabOfAssumption == TabOf \in [Request -> Tab]
ASSUME NoneAssumption == None \notin Request \cup {"valid", "expired"}
ASSUME ChangesAssumption == MaxChanges \in Nat

Token == {"valid", "expired"}
Page == {"login", "app", "leaving"}
Pending == {"sent", "queued", "refreshing"}
Settled == {"answered", "rejected", "gone"}

VARIABLES
  page,         \* page[b]: what tab b shows; "leaving" runs until /login loads
  isRefreshing, \* isRefreshing[b], failedQueue[b]: the client's two variables
  failedQueue,
  refresher,    \* refresher[b]: the request whose handler awaits a refresh
  presented,    \* presented[b]: the refresh token it has sent
  req,          \* req[r]: how far request r is
  retried,      \* retried[r]: its `_retry' mark
  bearer,       \* bearer[r]: the access token it carries
  access,       \* the cookies
  refresh,
  account,      \* the user's row: "active" or "inactive"
  signedOut,    \* history: the user has signed out and not in again
  raced,        \* history: a refresh was on its way when the user signed out
  changes       \* expiries and changes of the account so far

clientVars == <<isRefreshing, failedQueue, refresher, presented>>
requestVars == <<req, retried, bearer>>
cookieVars == <<access, refresh>>
worldVars == <<account, changes>>
historyVars == <<signedOut, raced>>
sessionVars == <<page, clientVars, requestVars, cookieVars, worldVars, historyVars>>

SessionInit ==
  /\ page = [b \in Tab |-> "app"]
  /\ isRefreshing = [b \in Tab |-> FALSE]
  /\ failedQueue = [b \in Tab |-> <<>>]
  /\ refresher = [b \in Tab |-> None]
  /\ presented = [b \in Tab |-> None]
  /\ req = [r \in Request |-> "unsent"]
  /\ retried = [r \in Request |-> FALSE]
  /\ bearer = [r \in Request |-> None]
  /\ access \in Token /\ refresh = "valid"
  /\ account = "active"
  /\ signedOut = FALSE /\ raced = FALSE
  /\ changes = 0

-----------------------------------------------------------------------------
(* The world outside: tokens age, and the account is deactivated or        *)
(* activated again; no user is ever deleted.                               *)
Aged(token) == IF token = "valid" THEN "expired" ELSE token

Changing == changes < MaxChanges /\ changes' = changes + 1

AccessExpires ==
  /\ Changing
  /\ access' = Aged(access)
  /\ bearer' = [r \in Request |-> Aged(bearer[r])]
  /\ UNCHANGED <<page, clientVars, req, retried, refresh, account, historyVars>>

RefreshExpires ==
  /\ Changing
  /\ refresh' = None
  /\ presented' = [b \in Tab |-> Aged(presented[b])]
  /\ UNCHANGED <<page, isRefreshing, failedQueue, refresher, requestVars, access, account,
                 historyVars>>

AccountChanges(to) ==
  /\ Changing /\ account # to
  /\ account' = to
  /\ UNCHANGED <<page, clientVars, requestVars, cookieVars, historyVars>>

-----------------------------------------------------------------------------
(* Requests and their answers.                                             *)

(* The request interceptor attaches the token the cookie holds.            *)
Send(r) ==
  /\ req[r] = "unsent" /\ page[TabOf[r]] \in {"app", "leaving"}
  /\ req' = [req EXCEPT ![r] = "sent"]
  /\ bearer' = [bearer EXCEPT ![r] = access]
  /\ UNCHANGED <<page, clientVars, retried, cookieVars, worldVars, historyVars>>

(* JwtStrategy: the token is of age and its user is active.                *)
Accepted(r) == bearer[r] = "valid" /\ account = "active"

(* What these requests were sent with is of no use once they have settled. *)
Settling(S, how) ==
  /\ req' = [r \in Request |-> IF r \in S THEN how ELSE req[r]]
  /\ retried' = [r \in Request |-> r \notin S /\ retried[r]]
  /\ bearer' = [r \in Request |-> IF r \in S THEN None ELSE bearer[r]]

(* An answer, or an error other than 401, which the interceptor hands on.  *)
Answer(r) ==
  /\ req[r] = "sent"
  /\ (Accepted(r) /\ Settling({r}, "answered")) \/ Settling({r}, "rejected")
  /\ UNCHANGED <<page, clientVars, cookieVars, worldVars, historyVars>>

Refused(r) == req[r] = "sent" /\ ~Accepted(r)

(* A 401 after a retry is handed on.                                       *)
GiveUp(r) ==
  /\ Refused(r) /\ retried[r]
  /\ Settling({r}, "rejected")
  /\ UNCHANGED <<page, clientVars, cookieVars, worldVars, historyVars>>

(* A 401 while the tab refreshes waits.  It is not marked as a retry.      *)
Wait(r) ==
  LET b == TabOf[r]
  IN /\ Refused(r) /\ ~retried[r] /\ isRefreshing[b]
     /\ failedQueue' = [failedQueue EXCEPT ![b] = Append(@, r)]
     /\ req' = [req EXCEPT ![r] = "queued"]
     /\ UNCHANGED <<page, isRefreshing, refresher, presented, retried, bearer, cookieVars,
                    worldVars, historyVars>>

(* Another 401 has the tab refresh, with the token of the cookie.          *)
StartRefresh(r) ==
  LET b == TabOf[r]
  IN /\ Refused(r) /\ ~retried[r] /\ ~isRefreshing[b] /\ refresh # None
     /\ retried' = [retried EXCEPT ![r] = TRUE]
     /\ isRefreshing' = [isRefreshing EXCEPT ![b] = TRUE]
     /\ refresher' = [refresher EXCEPT ![b] = r]
     /\ presented' = [presented EXCEPT ![b] = refresh]
     /\ req' = [req EXCEPT ![r] = "refreshing"]
     /\ UNCHANGED <<page, failedQueue, bearer, cookieVars, worldVars, historyVars>>

(* Removing the cookies and going to /login, which takes a moment.         *)
StaysOnPage(b) == access' = None /\ refresh' = None /\ UNCHANGED page
LeaveForLogin(b) == access' = None /\ refresh' = None /\ page' = [page EXCEPT ![b] = "leaving"]

(* Without a refresh token the handler returns before its `finally':       *)
(* isRefreshing stays set until the page is gone.                          *)
NothingToRefresh(r) ==
  LET b == TabOf[r]
  IN /\ Refused(r) /\ ~retried[r] /\ ~isRefreshing[b] /\ refresh = None
     /\ isRefreshing' = [isRefreshing EXCEPT ![b] = TRUE]
     /\ Settling({r}, "rejected")
     /\ LeaveForLogin(b)
     /\ UNCHANGED <<failedQueue, refresher, presented, worldVars, historyVars>>

-----------------------------------------------------------------------------
(* The refresh.                                                            *)

(* The `finally' of the handler.                                           *)
EndRefresh(b) ==
  /\ refresher' = [refresher EXCEPT ![b] = None]
  /\ presented' = [presented EXCEPT ![b] = None]
  /\ isRefreshing' = [isRefreshing EXCEPT ![b] = FALSE]

(* Those whose promises processQueue settles, and the refresher itself.    *)
RefresherOnly(b) == {refresher[b]}
Held(b) == ToSet(failedQueue[b]) \cup {refresher[b]}

(* refreshTokens asks for a token of age, not for an active user.  New     *)
(* cookies are set, and every request that was held is sent again.         *)
RefreshSucceeds(b) ==
  /\ refresher[b] # None
  /\ presented[b] = "valid"
  /\ access' = "valid" /\ refresh' = "valid"
  /\ req' = [r \in Request |-> IF r \in Held(b) THEN "sent" ELSE req[r]]
  /\ bearer' = [r \in Request |-> IF r \in Held(b) THEN "valid" ELSE bearer[r]]
  /\ failedQueue' = [failedQueue EXCEPT ![b] = <<>>]
  /\ EndRefresh(b)
  /\ UNCHANGED <<page, retried, worldVars, historyVars>>

(* The refresh is refused, or the server cannot be reached.                *)
RefreshFails(b) ==
  /\ refresher[b] # None
  /\ Settling(Held(b), "rejected")
  /\ failedQueue' = [failedQueue EXCEPT ![b] = <<>>]
  /\ LeaveForLogin(b)
  /\ EndRefresh(b)
  /\ UNCHANGED <<worldVars, historyVars>>

-----------------------------------------------------------------------------
(* The pages.                                                              *)

(* /login has loaded: the script of the old page and its promises are gone. *)
PageGone(b) ==
  /\ page[b] = "leaving"
  /\ page' = [page EXCEPT ![b] = "login"]
  /\ Settling({r \in Request : TabOf[r] = b /\ req[r] \in Pending}, "gone")
  /\ EndRefresh(b)
  /\ failedQueue' = [failedQueue EXCEPT ![b] = <<>>]
  /\ UNCHANGED <<cookieVars, worldVars, historyVars>>

(* logout.                                                                 *)
KeepsRefreshToken(b) ==
  access' = None /\ page' = [page EXCEPT ![b] = "leaving"] /\ UNCHANGED refresh
Forgets(b) == LeaveForLogin(b)

Logout(b) ==
  /\ page[b] \in {"app", "leaving"}
  /\ Forgets(b)
  /\ signedOut' = TRUE
  /\ raced' = \E d \in Tab : refresher[d] # None
  /\ UNCHANGED <<clientVars, requestVars, worldVars>>

(* login, which AuthService grants to an active account.                   *)
Login(b) ==
  /\ page[b] = "login" /\ account = "active"
  /\ access' = "valid" /\ refresh' = "valid"
  /\ page' = [page EXCEPT ![b] = "app"]
  /\ signedOut' = FALSE /\ raced' = FALSE
  /\ UNCHANGED <<clientVars, requestVars, worldVars>>

(* A 401 of login is handed to the form: no refresh, no change of page.    *)
LoginRefused(b) == page[b] = "login" /\ account # "active" /\ UNCHANGED sessionVars

(* proxy lets a page through when there is an access token.                *)
PassProxy(b) ==
  /\ page[b] = "login" /\ access # None
  /\ page' = [page EXCEPT ![b] = "app"]
  /\ UNCHANGED <<clientVars, requestVars, cookieVars, worldVars, historyVars>>

World == AccessExpires \/ RefreshExpires \/ \E to \in {"active", "inactive"} : AccountChanges(to)

Respond(r) == Answer(r) \/ GiveUp(r) \/ Wait(r) \/ StartRefresh(r) \/ NothingToRefresh(r)
RefreshEnds(b) == RefreshSucceeds(b) \/ RefreshFails(b)
User(b) == Logout(b) \/ Login(b) \/ LoginRefused(b) \/ PassProxy(b)

SessionNext ==
  \/ World
  \/ \E r \in Request : Send(r) \/ Respond(r)
  \/ \E b \in Tab : RefreshEnds(b) \/ PageGone(b) \/ User(b)

SessionSpec == SessionInit /\ [][SessionNext]_sessionVars

(* A server or the network answers every call in the end, and a page that  *)
(* was told to go to /login goes there.                                    *)
FairSessionSpec ==
  /\ SessionSpec
  /\ \A r \in Request : WF_sessionVars(Respond(r))
  /\ \A b \in Tab : WF_sessionVars(RefreshEnds(b)) /\ WF_sessionVars(PageGone(b))

-----------------------------------------------------------------------------
(* The properties.                                                         *)

(* A request waits in failedQueue only while a refresh of its tab is under *)
(* way or the page is leaving, although one branch of the handler returns  *)
(* with isRefreshing set.                                                  *)
WaitersHaveARefresh ==
  \A b \in Tab : failedQueue[b] # <<>> => refresher[b] # None \/ page[b] = "leaving"

(* Signing out ends the session of every tab: no access token comes back   *)
(* before the next login, unless a refresh was on its way.                 *)
SignedOutStaysOut == signedOut /\ ~raced => access = None

(* Every request is answered, rejected or gone with its page, however the  *)
(* tokens expire and tabs sign out around it, and even for an account that *)
(* refreshes successfully and is refused all the same.                     *)
RequestsSettle == \A r \in Request : req[r] \in Pending ~> req[r] \in Settled
=============================================================================
