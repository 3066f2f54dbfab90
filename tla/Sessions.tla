------------------------------ MODULE Sessions ------------------------------
(***************************************************************************)
(* The sessions of one user on the server: login with or without a second  *)
(* factor, refresh-token rotation with reuse detection, logout, password   *)
(* change, and what an administrator does to an account (suspend,          *)
(* reactivate, reset the password, force a logout, revoke one session).    *)
(*                                                                         *)
(* Each request handler awaits the database between its steps, so handlers *)
(* interleave.  A handler may stop at any await.                           *)
(***************************************************************************)
EXTENDS Integers, Sequences

CONSTANTS Slots,      \* requests the server handles at one time
          MaxCalls,   \* bound on the requests made in a behaviour
          Methods     \* second factors the user may have

ASSUME SessionsAssumption ==
    /\ MaxCalls \in Nat
    /\ Methods \subseteq {"NONE", "TOTP", "EMAIL"}

VARIABLES
    user,      \* the user's row: status, and which password it stores
    mfa,       \* the user's second factor
    tokens,    \* rows of RefreshToken, in the order of their creation
    codes,     \* rows of OtpCode, in the order of their creation
    pendings,  \* history: the mfa-pending tokens issued
    calls,     \* the handler running in each slot
    started,   \* history: requests made so far, to bound them
    sweeps,    \* history: how often all tokens of the user were revoked
    lost       \* history: since the last sweep, a handler stopped before its own

sessionVars == <<user, mfa, tokens, codes, pendings, calls, started, sweeps, lost>>

AdminOps == {"suspend", "reactivate", "reset", "force", "revoke"}

Ops == {"none", "login", "verify", "refresh", "logout", "change"} \cup AdminOps

Steps == {"idle", "read", "challenge", "consume", "issue", "rotate", "alarm",
          "update", "sweep", "revoke", "reply"}

(* A handler: the refresh token it presents (the one issued with its       *)
(* access token, for a password change), the password and the code it      *)
(* brings.  seen is the number of sweeps when that which it relies on was  *)
(* established; crossed says that it relies on a crossed token; twice,     *)
(* that its code had been consumed.  made is the token it made.            *)
Idle == [op |-> "none", at |-> "idle", token |-> 0, cred |-> 0, seen |-> 0,
         crossed |-> FALSE, code |-> 0, twice |-> FALSE, made |-> 0, ok |-> FALSE]

Request(op, at, token, cred) ==
    [Idle EXCEPT !.op = op, !.at = at, !.token = token, !.cred = cred]

(* A row of RefreshToken.  parent is the token it replaced (0 after a      *)
(* login or a password change), and branch is shared with the parent       *)
(* unless the parent was revoked already when it was rotated.  born is the *)
(* number of sweeps at its creation; crossed says that a sweep came        *)
(* between what it relies on and its creation.                             *)
Token(parent, branch, born, cred, crossed, code, twice) ==
    [revoked |-> FALSE, parent |-> parent, branch |-> branch, born |-> born,
     cred |-> cred, crossed |-> crossed, code |-> code, twice |-> twice]

Init ==
    /\ user = [status |-> "ACTIVE", password |-> 1]
    /\ mfa \in Methods
    /\ tokens = << >> /\ codes = << >> /\ pendings = << >>
    /\ calls = [s \in Slots |-> Idle]
    /\ started = 0 /\ sweeps = 0 /\ lost = FALSE

-----------------------------------------------------------------------------
(* Requests. *)

Begin(s, c) ==
    /\ calls[s].at = "idle"
    /\ started < MaxCalls
    /\ calls' = [calls EXCEPT ![s] = c]
    /\ started' = started + 1
    /\ UNCHANGED <<user, mfa, tokens, codes, pendings, sweeps, lost>>

\* With a password the user has, or had.
Login(s, p) ==
    /\ p \in 1 .. user.password
    /\ Begin(s, Request("login", "read", 0, p))

\* With an mfa-pending token, and code k (0: of an authenticator, or wrong).
VerifyMfa(s, i, k) ==
    /\ i \in DOMAIN pendings
    /\ k \in 0 .. Len(codes)
    /\ Begin(s, [Request("verify", "read", 0, pendings[i].cred)
                   EXCEPT !.seen = pendings[i].seen, !.code = k])

\* With a refresh token ever issued.
Refresh(s, t) ==
    /\ t \in DOMAIN tokens
    /\ Begin(s, Request("refresh", "read", t, 0))

\* Without a cookie (t = 0) there is nothing to revoke.
Logout(s, t) ==
    /\ t \in DOMAIN tokens \cup {0}
    /\ Begin(s, [Request("logout", IF t = 0 THEN "reply" ELSE "revoke", t, 0)
                   EXCEPT !.ok = (t = 0)])

\* With the access token issued together with refresh token t: it stays
\* good until it expires, whatever became of t.
ChangePassword(s, t, p) ==
    /\ t \in DOMAIN tokens
    /\ p \in 1 .. user.password
    /\ Begin(s, [Request("change", "read", t, p)
                   EXCEPT !.seen = tokens[t].born, !.crossed = tokens[t].crossed])

SetAgentStatus(s, op) ==
    /\ op \in {"suspend", "reactivate"}
    /\ Begin(s, Request(op, "update", 0, 0))

ResetAgentPassword(s) == Begin(s, Request("reset", "update", 0, 0))

ForceLogout(s) == Begin(s, Request("force", "sweep", 0, 0))

RevokeSession(s, t) ==
    /\ t \in DOMAIN tokens
    /\ Begin(s, Request("revoke", "revoke", t, 0))

-----------------------------------------------------------------------------
(* Steps of the handlers. *)

At(s, op, at) == calls[s].op = op /\ calls[s].at = at

Goto(s, at) == calls' = [calls EXCEPT ![s].at = at]

\* A reply: whether the request was granted, the mfa-pending token, and the
\* refresh token made.  What an administrator is answered changes nothing.
Reply(s, ok, token, made) ==
    calls' = [calls EXCEPT ![s] =
                IF @.op \in AdminOps THEN Idle
                ELSE [Idle EXCEPT !.op = calls[s].op, !.at = "reply", !.ok = ok,
                                  !.token = token, !.made = made]]

(* Refused: wrong password or code, suspended account, maintenance mode,   *)
(* expired token.                                                          *)
Refuse(s) ==
    /\ calls[s].at = "read"
    /\ calls[s].op = "refresh" => ~tokens[calls[s].token].revoked
    /\ Reply(s, FALSE, 0, 0)
    /\ UNCHANGED <<user, mfa, tokens, codes, pendings, started, sweeps, lost>>

AfterPasswordUncoded == IF mfa = "NONE" THEN "issue" ELSE "consume"
AfterPassword == IF mfa = "NONE" THEN "issue" ELSE "challenge"

\* Password and status are checked on the row read first.
LoginRead(s) ==
    /\ At(s, "login", "read")
    /\ calls[s].cred = user.password
    /\ user.status # "SUSPENDED"
    /\ calls' = [calls EXCEPT ![s].at = AfterPassword, ![s].seen = sweeps]
    /\ UNCHANGED <<user, mfa, tokens, codes, pendings, started, sweeps, lost>>

\* A code is mailed, and the caller gets an mfa-pending token.
Challenge(s) ==
    /\ calls[s].at = "challenge"
    /\ codes' = IF mfa = "EMAIL" THEN Append(codes, [consumed |-> FALSE]) ELSE codes
    /\ pendings' = Append(pendings, [cred |-> calls[s].cred, seen |-> calls[s].seen])
    /\ Reply(s, TRUE, Len(pendings) + 1, 0)
    /\ UNCHANGED <<user, mfa, tokens, started, sweeps, lost>>

\* The newest code not consumed yet is the only one accepted.
IsCandidate(k) ==
    /\ k \in DOMAIN codes
    /\ ~codes[k].consumed
    /\ \A j \in DOMAIN codes : j > k => codes[j].consumed

\* The user's status is not checked again.
VerifyRead(s) ==
    /\ At(s, "verify", "read")
    /\ mfa = "EMAIL" => IsCandidate(calls[s].code)
    /\ Goto(s, IF mfa = "EMAIL" THEN "consume" ELSE "issue")
    /\ UNCHANGED <<user, mfa, tokens, codes, pendings, started, sweeps, lost>>

ConsumedNot(k) == codes
Consumed(k) == [codes EXCEPT ![k].consumed = TRUE]

\* By the row's id, whether or not another request consumed it meanwhile.
ConsumeOtpCode(s) ==
    /\ calls[s].at = "consume"
    /\ codes' = Consumed(calls[s].code)
    /\ calls' = [calls EXCEPT ![s].at = "issue",
                              ![s].twice = codes[calls[s].code].consumed]
    /\ UNCHANGED <<user, mfa, tokens, pendings, started, sweeps, lost>>

IssueRefreshToken(s) ==
    LET c == calls[s]
        n == Len(tokens) + 1
    IN  /\ c.at = "issue"
        /\ tokens' = Append(tokens, Token(0, n, sweeps, c.cred,
                        c.crossed \/ c.seen # sweeps, c.code, c.twice))
        /\ Reply(s, TRUE, 0, n)
        /\ UNCHANGED <<user, mfa, codes, pendings, started, sweeps, lost>>

RefreshRead(s) ==
    /\ At(s, "refresh", "read")
    /\ calls' = [calls EXCEPT
                   ![s].at = IF tokens[calls[s].token].revoked THEN "alarm" ELSE "rotate",
                   ![s].seen = sweeps]
    /\ UNCHANGED <<user, mfa, tokens, codes, pendings, started, sweeps, lost>>

RevokedNot(t) == tokens
Revoked(t) == [tokens EXCEPT ![t].revoked = TRUE]

\* One transaction revokes the token, whatever its state, and makes the next.
\* (That the user cannot be loaded afterwards is a lost reply.)
Rotate(s) ==
    LET c == calls[s]
        n == Len(tokens) + 1
        old == tokens[c.token]
    IN  /\ c.at = "rotate"
        /\ tokens' = Append(Revoked(c.token), Token(c.token, IF old.revoked THEN n ELSE old.branch,
                        sweeps, old.cred, old.crossed \/ c.seen # sweeps, old.code, old.twice))
        /\ Reply(s, TRUE, 0, n)
        /\ UNCHANGED <<user, mfa, codes, pendings, started, sweeps, lost>>

AllRevoked == [i \in DOMAIN tokens |-> [tokens[i] EXCEPT !.revoked = TRUE]]

\* A token that was revoked is presented: all of the user's are revoked.
DetectReuse(s) ==
    /\ calls[s].at = "alarm"
    /\ tokens' = AllRevoked
    /\ sweeps' = sweeps + 1
    /\ lost' = FALSE
    /\ Reply(s, FALSE, 0, 0)
    /\ UNCHANGED <<user, mfa, codes, pendings, started>>

RevokeRefreshToken(s) ==
    /\ calls[s].at = "revoke"
    /\ tokens' = Revoked(calls[s].token)
    /\ Reply(s, TRUE, 0, 0)
    /\ UNCHANGED <<user, mfa, codes, pendings, started, sweeps, lost>>

ChangeRead(s) ==
    /\ At(s, "change", "read")
    /\ calls[s].cred = user.password
    /\ Goto(s, "update")
    /\ UNCHANGED <<user, mfa, tokens, codes, pendings, started, sweeps, lost>>

ChangeUpdate(s) ==
    /\ At(s, "change", "update")
    /\ user' = [user EXCEPT !.password = @ + 1]
    /\ calls' = [calls EXCEPT ![s].at = "sweep", ![s].cred = user.password + 1]
    /\ UNCHANGED <<mfa, tokens, codes, pendings, started, sweeps, lost>>

\* The caller of a password change gets a new session after the sweep.
ChangeSweep(s) ==
    /\ At(s, "change", "sweep")
    /\ tokens' = AllRevoked
    /\ sweeps' = sweeps + 1
    /\ calls' = [calls EXCEPT ![s].at = "issue",
                              ![s].seen = IF @ = sweeps THEN sweeps + 1 ELSE @]
    /\ UNCHANGED <<user, mfa, codes, pendings, started, lost>>

\* A new password or a suspension ends the user's sessions.
SweepsOnReset(op) == op = "reset"
SweepsOnSuspend(op) == op = "suspend"
Sweeps(op) == op \in {"reset", "suspend"}

AdminUpdate(s) ==
    /\ calls[s].op \in AdminOps /\ calls[s].at = "update"
    /\ user' = CASE calls[s].op = "reset" -> [user EXCEPT !.password = @ + 1]
                 [] calls[s].op = "suspend" -> [user EXCEPT !.status = "SUSPENDED"]
                 [] OTHER -> [user EXCEPT !.status = "ACTIVE"]
    /\ IF Sweeps(calls[s].op) THEN Goto(s, "sweep") ELSE Reply(s, TRUE, 0, 0)
    /\ UNCHANGED <<mfa, tokens, codes, pendings, started, sweeps, lost>>

AdminSweep(s) ==
    /\ calls[s].op \in AdminOps /\ calls[s].at = "sweep"
    /\ tokens' = AllRevoked
    /\ sweeps' = sweeps + 1
    /\ lost' = FALSE
    /\ Reply(s, TRUE, 0, 0)
    /\ UNCHANGED <<user, mfa, codes, pendings, started>>

\* The process stops, or the database fails, before the step the call is at.
Abandon(s) ==
    /\ calls[s].at \notin {"idle", "reply"}
    /\ lost' = (lost \/ (calls[s].at = "sweep" /\ calls[s].op # "force"))
    /\ Reply(s, FALSE, 0, 0)
    /\ UNCHANGED <<user, mfa, tokens, codes, pendings, started, sweeps>>

Respond(s) ==
    /\ calls[s].at = "reply"
    /\ calls' = [calls EXCEPT ![s] = Idle]
    /\ UNCHANGED <<user, mfa, tokens, codes, pendings, started, sweeps, lost>>

Step(s) ==
    \/ Refuse(s) \/ LoginRead(s) \/ Challenge(s) \/ VerifyRead(s) \/ ConsumeOtpCode(s)
    \/ IssueRefreshToken(s) \/ RefreshRead(s) \/ Rotate(s) \/ DetectReuse(s)
    \/ RevokeRefreshToken(s) \/ ChangeRead(s) \/ ChangeUpdate(s) \/ ChangeSweep(s)
    \/ AdminUpdate(s) \/ AdminSweep(s)

Administer(s) ==
    \/ \E op \in {"suspend", "reactivate"} : SetAgentStatus(s, op)
    \/ ResetAgentPassword(s)
    \/ ForceLogout(s)
    \/ \E t \in DOMAIN tokens : RevokeSession(s, t)

Ask(s) ==
    \/ \E p \in 1 .. user.password : Login(s, p)
    \/ \E i \in DOMAIN pendings, k \in 0 .. Len(codes) : VerifyMfa(s, i, k)
    \/ \E t \in DOMAIN tokens : Refresh(s, t)
    \/ \E t \in DOMAIN tokens \cup {0} : Logout(s, t)
    \/ \E t \in DOMAIN tokens, p \in 1 .. user.password : ChangePassword(s, t, p)

Next == \E s \in Slots : Ask(s) \/ Administer(s) \/ Step(s) \/ Abandon(s) \/ Respond(s)

Spec == Init /\ [][Next]_sessionVars

-----------------------------------------------------------------------------
(* Properties. *)

TokenType == [revoked : BOOLEAN, parent : Nat, branch : Nat, born : Nat,
              cred : Nat, crossed : BOOLEAN, code : Nat, twice : BOOLEAN]

CallType == [op : Ops, at : Steps, token : Nat, cred : Nat, seen : Nat,
             crossed : BOOLEAN, code : Nat, twice : BOOLEAN, made : Nat, ok : BOOLEAN]

(* Every row and every handler has its shape, and what a handler refers to *)
(* exists: the token it presents or made, the code it consumes.            *)
SessionsTypeOK ==
    /\ user \in [status : {"ACTIVE", "SUSPENDED"}, password : Nat]
    /\ mfa \in Methods
    /\ tokens \in Seq(TokenType)
    /\ codes \in Seq([consumed : BOOLEAN])
    /\ pendings \in Seq([cred : Nat, seen : Nat])
    /\ calls \in [Slots -> CallType]
    /\ started \in Nat /\ sweeps \in Nat /\ lost \in BOOLEAN
    /\ \A s \in Slots :
        /\ calls[s].at \in {"rotate", "revoke"} \/ At(s, "refresh", "read")
              => calls[s].token \in DOMAIN tokens
        /\ calls[s].at = "consume" => calls[s].code \in DOMAIN codes

Live(t) == ~tokens[t].revoked

(* Rotation leaves one live token where there was one: two live tokens     *)
(* share a branch only if they are the same, so a login has two live       *)
(* refresh tokens only if a rotation met another rotation or a revocation  *)
(* of the token it presented (rotateRefreshToken).                         *)
OneLivePerBranch ==
    \A i, j \in DOMAIN tokens :
        Live(i) /\ Live(j) /\ tokens[i].branch = tokens[j].branch => i = j

Sweeping(ops) == \E s \in Slots : calls[s].op \in ops /\ calls[s].at = "sweep"

(* A suspended user is logged out: a token that is still live rests on a   *)
(* check that preceded the revocation of all tokens (an overlapping        *)
(* request, a second factor or an access token older than it), unless that *)
(* revocation is still to come or its handler stopped (setAgentStatus).    *)
SuspendedIsOut ==
    user.status = "SUSPENDED" =>
        \A t \in DOMAIN tokens :
            Live(t) => tokens[t].crossed \/ lost \/ Sweeping({"suspend"})

(* The same of a password: a live token that rests on a password the user  *)
(* no longer has comes from a check that preceded the revocation           *)
(* (changePassword, resetAgentPassword).                                   *)
OldPasswordIsOut ==
    \A t \in DOMAIN tokens :
        Live(t) /\ tokens[t].cred # user.password =>
            tokens[t].crossed \/ lost \/ Sweeping({"change", "reset"})

(* With a second factor by mail, each login with a code spent a code, and  *)
(* no two logins spent the same one, unless the second found it consumed   *)
(* only after it had accepted it (consumeOtpCode).                         *)
CodeOpensOneSession ==
    \A i \in DOMAIN tokens : tokens[i].parent = 0 /\ tokens[i].code # 0 /\ mfa = "EMAIL" =>
        /\ codes[tokens[i].code].consumed
        /\ \A j \in DOMAIN tokens :
              /\ tokens[j].parent = 0 /\ tokens[j].code = tokens[i].code
              /\ ~tokens[i].twice /\ ~tokens[j].twice
              => i = j
=============================================================================
