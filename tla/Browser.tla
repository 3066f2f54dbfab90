------------------------------- MODULE Browser -------------------------------
(***************************************************************************)
(* The web client's half of a session, over the server of Sessions.        *)
(*                                                                         *)
(* The refresh token is a cookie all tabs of a browser share; the access   *)
(* token lives in each tab's memory.  A tab that gets a 401 refreshes      *)
(* once, however many of its requests wait (httpClient.ts); a tab that     *)
(* loads the page refreshes first if the browser was logged in before      *)
(* (App.tsx).  Replies may be lost, and those of two tabs be reordered.    *)
(***************************************************************************)
EXTENDS Sessions

CONSTANTS Tabs, Browsers, Nobody

ASSUME BrowserAssumption ==
    /\ Slots \subseteq Nat \ {0}
    /\ Tabs \subseteq Nat /\ Browsers \subseteq Nat
    /\ Nobody \notin Tabs \cup Browsers

VARIABLES
    browserOf,  \* the browser of each tab
    cookie,     \* the refresh token in a browser's cookie jar (0: none)
    hint,       \* whether localStorage says that there was a session
    tab,        \* what each tab holds
    sender,     \* the tab that waits for the reply of a call, or Nobody
    jar,        \* the browser a call's reply is for, or Nobody
    missed,     \* history: whether a browser missed a reply about its cookie
    pulled      \* history: the tokens an administrator revoked one by one

clientVars == <<browserOf, cookie, hint, tab, sender, jar, missed, pulled>>
vars == <<sessionVars, clientVars>>

(* access is the refresh token issued together with the access token held, *)
(* which may expire at any time; refreshing and asking are the calls the   *)
(* tab waits for (0: none); refused says that a code was answered 401.     *)
Blank == [page |-> "login", access |-> 0, pending |-> 0,
          refreshing |-> 0, asking |-> 0, refused |-> FALSE]

\* A browser is named by a number no greater than its tabs' are.
BInit ==
    /\ Init
    /\ browserOf \in {f \in [Tabs -> Browsers] : \A t \in Tabs : f[t] <= t}
    /\ cookie = [b \in Browsers |-> 0]
    /\ hint = [b \in Browsers |-> FALSE]
    /\ tab = [t \in Tabs |-> Blank]
    /\ sender = [s \in Slots |-> Nobody]
    /\ jar = [s \in Slots |-> Nobody]
    /\ missed = [b \in Browsers |-> FALSE]
    /\ pulled = {}

\* Slots are taken in order.
IsFree(s) == calls[s].at = "idle" /\ \A r \in Slots : calls[r].at = "idle" => s <= r

Send(s, t) ==
    /\ IsFree(s)
    /\ sender' = [sender EXCEPT ![s] = t]
    /\ jar' = [jar EXCEPT ![s] = browserOf[t]]

Cookie(t) == cookie[browserOf[t]]

-----------------------------------------------------------------------------
(* What the user and the page do.  The user types the password that is his *)
(* then; a wrong one is a refusal of Sessions.                             *)

\* The page loads, or is reloaded: replies its past life waited for go astray.
OpenTab(s, t) ==
    LET orphaned == [r \in Slots |-> IF sender[r] = t THEN Nobody ELSE sender[r]]
        silent == hint[browserOf[t]] /\ Cookie(t) # 0
    IN  /\ silent \/ tab[t].page # "login"
        /\ tab' = [tab EXCEPT ![t] = IF silent
                     THEN [Blank EXCEPT !.page = "boot", !.refreshing = s]
                     ELSE Blank]
        /\ IF silent
             THEN /\ IsFree(s) /\ Refresh(s, Cookie(t))
                  /\ sender' = [orphaned EXCEPT ![s] = t]
                  /\ jar' = [jar EXCEPT ![s] = browserOf[t]]
             ELSE sender' = orphaned /\ UNCHANGED <<sessionVars, jar>>
        /\ UNCHANGED <<browserOf, cookie, hint, missed, pulled>>

\* A code of a mail, or one of an authenticator (0).
Mailed == IF mfa = "EMAIL" THEN DOMAIN codes ELSE {0}

SubmitLogin(s, t) ==
    /\ tab[t].page = "login" /\ tab[t].asking = 0
    /\ Login(s, user.password) /\ Send(s, t)
    /\ tab' = [tab EXCEPT ![t].asking = s]
    /\ UNCHANGED <<browserOf, cookie, hint, missed, pulled>>

SubmitCode(s, t, k) ==
    /\ tab[t].page = "code" /\ tab[t].asking = 0
    /\ VerifyMfa(s, tab[t].pending, k) /\ Send(s, t)
    /\ tab' = [tab EXCEPT ![t].asking = s]
    /\ UNCHANGED <<browserOf, cookie, hint, missed, pulled>>

SubmitChange(s, t) ==
    /\ tab[t].page = "home" /\ tab[t].asking = 0
    /\ ChangePassword(s, tab[t].access, user.password) /\ Send(s, t)
    /\ tab' = [tab EXCEPT ![t].asking = s]
    /\ UNCHANGED <<browserOf, cookie, hint, missed, pulled>>

ClickLogout(s, t) ==
    /\ tab[t].page = "home" /\ tab[t].asking = 0
    /\ Logout(s, Cookie(t)) /\ Send(s, t)
    /\ tab' = [tab EXCEPT ![t].asking = s]
    /\ UNCHANGED <<browserOf, cookie, hint, missed, pulled>>

ClearSession(t) ==
    /\ tab' = [tab EXCEPT ![t].access = 0, ![t].refused = FALSE,
                          ![t].page = IF @ = "home" THEN "login" ELSE @]
    /\ hint' = [hint EXCEPT ![browserOf[t]] = FALSE]

\* A request was answered 401, and no refresh is under way in this tab.
Unauthorized(t) ==
    /\ tab[t].refreshing = 0
    /\ \/ tab[t].page = "home"
       \/ tab[t].page = "code" /\ tab[t].refused

RefreshAccessToken(s, t) ==
    /\ Unauthorized(t) /\ Cookie(t) # 0
    /\ Refresh(s, Cookie(t)) /\ Send(s, t)
    /\ tab' = [tab EXCEPT ![t].refreshing = s, ![t].refused = FALSE]
    /\ UNCHANGED <<browserOf, cookie, hint, missed, pulled>>

\* The refresh is answered 401 at once: there was no cookie.
RefreshWithoutCookie(t) ==
    /\ Unauthorized(t) /\ Cookie(t) = 0
    /\ ClearSession(t)
    /\ UNCHANGED <<sessionVars, browserOf, cookie, sender, jar, missed, pulled>>

-----------------------------------------------------------------------------
(* How a tab takes the reply c to the call in slot s. *)

SignIn(t, n) == [tab[t] EXCEPT !.page = "home", !.access = n,
                               !.asking = 0, !.refused = FALSE]

SettledNever(t) == tab[t]
Settled(t) == [tab[t] EXCEPT !.refreshing = 0]

\* A refresh: at page load, the user's profile is loaded next.
TakeRefresh(t, c) ==
    LET b == browserOf[t]
        boot == tab[t].page = "boot"
    IN  IF c.ok
          THEN \E profile \in {boot, FALSE} :
                 /\ tab' = [tab EXCEPT ![t] = [Settled(t) EXCEPT !.access = c.made,
                              !.page = IF ~boot THEN @ ELSE IF profile THEN "home" ELSE "login"]]
                 /\ hint' = [hint EXCEPT ![b] = @ \/ profile]
          ELSE /\ tab' = [tab EXCEPT ![t] = [Settled(t) EXCEPT !.refused = FALSE, !.access = 0,
                              !.page = IF @ = "code" THEN @ ELSE "login"]]
               /\ hint' = [hint EXCEPT ![b] = @ /\ boot]

\* A login or a code.  A refused code may have been answered 401.
TakeLogin(t, c) ==
    /\ \/ /\ c.ok /\ c.made # 0
          /\ tab' = [tab EXCEPT ![t] = SignIn(t, c.made)]
          /\ hint' = [hint EXCEPT ![browserOf[t]] = TRUE]
       \/ /\ c.ok /\ c.made = 0
          /\ tab' = [tab EXCEPT ![t].page = "code", ![t].pending = c.token, ![t].asking = 0]
          /\ UNCHANGED hint
       \/ /\ ~c.ok
          /\ \E refused \in {c.op = "verify", FALSE} :
               tab' = [tab EXCEPT ![t].asking = 0, ![t].refused = refused]
          /\ UNCHANGED hint

TakeChange(t, c) ==
    /\ tab' = [tab EXCEPT ![t] = IF c.ok THEN SignIn(t, c.made) ELSE [@ EXCEPT !.asking = 0]]
    /\ hint' = [hint EXCEPT ![browserOf[t]] = @ \/ c.ok]

TakeLogout(t) ==
    /\ tab' = [tab EXCEPT ![t].asking = 0, ![t].access = 0, ![t].page = "login"]
    /\ hint' = [hint EXCEPT ![browserOf[t]] = FALSE]

Take(t, c) ==
    \/ c.op = "refresh" /\ TakeRefresh(t, c)
    \/ c.op \in {"login", "verify"} /\ TakeLogin(t, c)
    \/ c.op = "change" /\ TakeChange(t, c)
    \/ c.op = "logout" /\ TakeLogout(t)

TakeBy(s, c) ==
    IF sender[s] \in Tabs THEN Take(sender[s], c) ELSE UNCHANGED <<tab, hint>>

Forget(s) ==
    /\ Respond(s)
    /\ sender' = [sender EXCEPT ![s] = Nobody]
    /\ jar' = [jar EXCEPT ![s] = Nobody]
    /\ UNCHANGED <<browserOf, pulled>>

\* A reply sets the cookie to the token made, or clears it.
CookieAfterLogin(b, c) ==
    IF c.ok /\ c.op # "refresh" /\ (c.made # 0 \/ c.op = "logout") THEN c.made ELSE cookie[b]
CookieAfter(b, c) ==
    IF c.ok /\ (c.made # 0 \/ c.op = "logout") THEN c.made ELSE cookie[b]

Deliver(s) ==
    LET c == calls[s]
        b == jar[s]
    IN  /\ b \in Browsers
        /\ Forget(s)
        /\ cookie' = [cookie EXCEPT ![b] = CookieAfter(b, c)]
        /\ missed' = [missed EXCEPT ![b] = @ \/ (~c.ok /\ c.made # 0)]
        /\ TakeBy(s, c)

\* The connection fails: whoever waits sees an error, the cookie stays.
LoseReply(s) ==
    LET c == calls[s]
        b == jar[s]
    IN  /\ b \in Browsers
        /\ Forget(s)
        /\ missed' = [missed EXCEPT ![b] = @ \/ c.made # 0 \/ c.op = "logout"]
        /\ TakeBy(s, [c EXCEPT !.ok = FALSE])
        /\ UNCHANGED cookie


-----------------------------------------------------------------------------
(* The server's steps. *)

Serve(s) == (Step(s) \/ Abandon(s)) /\ UNCHANGED clientVars

Supervise(s) ==
    /\ IsFree(s)
    /\ \/ /\ \/ user.status = "ACTIVE" /\ SetAgentStatus(s, "suspend")
             \/ user.status = "SUSPENDED" /\ SetAgentStatus(s, "reactivate")
             \/ ResetAgentPassword(s)
             \/ ForceLogout(s)
          /\ UNCHANGED pulled
       \/ \E t \in DOMAIN tokens : Live(t) /\ RevokeSession(s, t) /\ pulled' = pulled \cup {t}
    /\ UNCHANGED <<browserOf, cookie, hint, tab, sender, jar, missed>>

UseTab(s, t) ==
    \/ OpenTab(s, t)
    \/ SubmitLogin(s, t)
    \/ SubmitChange(s, t)
    \/ \E k \in Mailed : SubmitCode(s, t, k)
    \/ ClickLogout(s, t)
    \/ RefreshAccessToken(s, t)

BNext ==
    \/ \E s \in Slots, t \in Tabs : UseTab(s, t)
    \/ \E t \in Tabs : RefreshWithoutCookie(t)
    \/ \E s \in Slots : Serve(s) \/ Supervise(s) \/ Deliver(s) \/ LoseReply(s)

BSpec == BInit /\ [][BNext]_vars

\* The runtime runs a started handler to its end, or the process stops; a
\* connection delivers the reply or fails.
FairSpec ==
    /\ BSpec
    /\ \A s \in Slots :
        /\ WF_vars(Serve(s))
        /\ WF_vars(Deliver(s) \/ LoseReply(s))

-----------------------------------------------------------------------------
(* Properties. *)

(* At rest, the cookie of a browser is a live session: it was not rotated  *)
(* or logged out behind its back, in whatever order the replies to its     *)
(* tabs came (auth.controller.ts).  Exempt are tokens that the server      *)
(* revoked on its own account, and a browser that missed a reply.          *)
CookieIsLive ==
    \A b \in Browsers :
        (\A s \in Slots : jar[s] # b) /\ cookie[b] # 0 =>
            \/ Live(cookie[b])
            \/ tokens[cookie[b]].born < sweeps
            \/ cookie[b] \in pulled
            \/ missed[b]

(* A tab does not wait for ever: its refresh, and whatever its user asked  *)
(* for, is answered or fails, even when the server stops half way or the   *)
(* reply is lost (httpClient.ts).                                          *)
TabsSettle ==
    <>[](\A t \in Tabs : tab[t].refreshing = 0 /\ tab[t].asking = 0)
=============================================================================
