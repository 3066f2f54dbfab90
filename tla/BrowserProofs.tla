----------------------------- MODULE BrowserProofs -----------------------------
(***************************************************************************)
(* The web client's half of a session, for any number of tabs, browsers    *)
(* and requests: what tabs do are requests the server may get, and a       *)
(* browser that missed no reply keeps a cookie that works.                 *)
(***************************************************************************)
EXTENDS Browser, SessionsProofs

-----------------------------------------------------------------------------
(* Tabs are callers. *)

LEMMA TabsAsk == ASSUME NEW s \in Slots, NEW t \in Tabs, UseTab(s, t) PROVE [Next]_sessionVars
  <1>1. CASE OpenTab(s, t)
    <2>1. UNCHANGED sessionVars \/ \E x : Refresh(s, x)
      BY <1>1 DEF OpenTab
    <2> QED
      BY <2>1 DEF Refresh, Ask, Next
  <1>2. CASE SubmitLogin(s, t)
    BY <1>2 DEF SubmitLogin, Login, Ask, Next
  <1>3. CASE SubmitChange(s, t)
    BY <1>3 DEF SubmitChange, ChangePassword, Ask, Next
  <1>4. ASSUME NEW k \in Mailed, SubmitCode(s, t, k) PROVE Next
    BY <1>4 DEF SubmitCode, VerifyMfa, Ask, Next
  <1>5. CASE ClickLogout(s, t)
    BY <1>5 DEF ClickLogout, Logout, Ask, Next
  <1>6. CASE RefreshAccessToken(s, t)
    BY <1>6 DEF RefreshAccessToken, Refresh, Ask, Next
  <1> QED
    BY <1>1, <1>2, <1>3, <1>4, <1>5, <1>6 DEF UseTab

LEMMA ClientStep == [BNext]_vars => [Next]_sessionVars
  <1> SUFFICES ASSUME [BNext]_vars PROVE [Next]_sessionVars
    OBVIOUS
  <1>1. ASSUME NEW t \in Tabs, RefreshWithoutCookie(t) PROVE UNCHANGED sessionVars
    BY <1>1 DEF RefreshWithoutCookie
  <1>2. ASSUME NEW s \in Slots, Serve(s) PROVE Next
    BY <1>2 DEF Serve, Next
  <1>3. ASSUME NEW s \in Slots, Supervise(s) PROVE Next
    <2>1. Administer(s)
      BY <1>3 DEF Supervise, Administer
    <2> QED
      BY <2>1 DEF Next
  <1>4. ASSUME NEW s \in Slots, Deliver(s) \/ LoseReply(s) PROVE Next
    BY <1>4 DEF Deliver, LoseReply, Forget, Next
  <1> QED
    BY <1>1, <1>2, <1>3, <1>4, TabsAsk DEF BNext, vars

(* What a tab does is a request the server may get anyway, so whatever      *)
(* Sessions promises of any caller holds of the web client.                 *)
THEOREM TabsAreCallers == BSpec => Spec
  <1>1. BInit => Init
    BY DEF BInit
  <1> QED
    BY <1>1, ClientStep, PTL DEF BSpec, Spec

-----------------------------------------------------------------------------
(* The cookie. *)

\* The operation of a handler, by the step it is at.
Placed(c) ==
    /\ c.at = "idle" <=> c.op = "none"
    /\ c.at \in {"rotate", "alarm"} => c.op = "refresh"
    /\ c.at = "revoke" => c.op \in {"logout", "revoke"}
    /\ c.at \in {"challenge", "consume", "issue"} => c.op \in {"login", "verify", "change"}
    /\ c.at = "reply" => c.op \notin AdminOps

\* The token of a cookie that a request brings, and a reply that sets a cookie.
Presented(c) == IF c.op \in {"refresh", "logout"} THEN c.token ELSE 0
Renews(c) == c.at = "reply" /\ c.ok /\ (c.made # 0 \/ c.op = "logout")

\* Live, or revoked by the server on its own account.
Fine(t) == Live(t) \/ tokens[t].born < sweeps \/ t \in pulled

Known == {0} \cup DOMAIN tokens

Handlers ==
    \A s \in Slots :
        /\ Placed(calls[s])
        /\ calls[s].at = "revoke" /\ calls[s].op = "revoke" => calls[s].token \in pulled
        /\ jar[s] \in Browsers \cup {Nobody}
        /\ calls[s].op \in AdminOps \cup {"none"} <=> jar[s] = Nobody
        /\ calls[s].made \in Known /\ Presented(calls[s]) \in Known
        /\ calls[s].made # 0 => Renews(calls[s]) /\ Presented(calls[s]) = 0

JarRows ==
    /\ browserOf \in [Tabs -> Browsers]
    /\ cookie \in [Browsers -> Known] /\ jar \in [Slots -> Browsers \cup {Nobody}]
    /\ missed \in [Browsers -> BOOLEAN]
    /\ \A t \in DOMAIN tokens : tokens[t].born <= sweeps

\* A cookie is in one browser, and only its tabs present it.
Mine ==
    /\ \A a, b \in Browsers : cookie[a] = cookie[b] /\ cookie[a] # 0 => a = b
    /\ \A s \in Slots, b \in Browsers :
          Presented(calls[s]) = cookie[b] /\ cookie[b] # 0 => jar[s] = b

\* Nobody has a token yet whose reply is under way.
Unused(s, n) ==
    /\ Fine(n)
    /\ \A b \in Browsers : cookie[b] # n
    /\ \A r \in Slots : Presented(calls[r]) # n /\ (calls[r].made = n => r = s)
Undelivered == \A s \in Slots : calls[s].made # 0 => Unused(s, calls[s].made)

\* A cookie is fine, or about to be replaced.
Works(b) ==
    cookie[b] = 0 \/ missed[b] \/ Fine(cookie[b]) \/ \E s \in Slots : jar[s] = b /\ Renews(calls[s])

Jar == Handlers /\ JarRows /\ Mine /\ Undelivered /\ \A b \in Browsers : Works(b)

\* The rows and what is said of them stay, t apart, and n is new.
Grows(t, n) ==
    /\ DOMAIN tokens \subseteq DOMAIN tokens'
    /\ \A x \in DOMAIN tokens' : tokens'[x].born <= sweeps'
    /\ \A x \in DOMAIN tokens : x # t /\ Fine(x) => Fine(x)'
    /\ n # 0 => n \in DOMAIN tokens' \ DOMAIN tokens /\ Fine(n)'

\* A step of the handler in s, which leaves c: it spends the cookie it has, if
\* it does, for a reply that sets another.
Handled(s, c) ==
    /\ calls' = [calls EXCEPT ![s] = c]
    /\ calls[s].at \notin {"idle", "reply"}
    /\ c.op = calls[s].op \/ (c.op = "none" /\ calls[s].op \in AdminOps)
    /\ Placed(c) /\ c.at # "revoke"
    /\ Presented(c) \in {0, Presented(calls[s])}
    /\ c.made # 0 => Renews(c) /\ Presented(c) = 0
    /\ Grows(IF Renews(c) THEN Presented(calls[s]) ELSE 0, c.made)

LEMMA HandledKeeps ==
    ASSUME Jar, NEW s \in Slots, NEW c, Handled(s, c), UNCHANGED clientVars,
           calls \in [Slots -> CallType], tokens \in Seq(TokenType)
    PROVE  Jar'
  <1>0. 0 \notin DOMAIN tokens /\ DOMAIN tokens \subseteq DOMAIN tokens'
    BY TokensTyped DEF Handled, Grows
  <1>1. calls'[s] = c /\ \A r \in Slots : r # s => calls'[r] = calls[r]
    BY DEF Handled
  <1>2. UNCHANGED <<browserOf, cookie, jar, missed, pulled>>
    BY DEF clientVars
  <1>3. Known \subseteq Known' /\ c.made \in Known'
    BY DEF Known, Handled, Grows
  <1>4. Handlers'
    <2> SUFFICES ASSUME NEW r \in Slots
                 PROVE  /\ Placed(calls'[r])
                        /\ calls'[r].at = "revoke" /\ calls'[r].op = "revoke" => calls'[r].token \in pulled
                        /\ jar[r] \in Browsers \cup {Nobody}
                        /\ calls'[r].op \in AdminOps \cup {"none"} <=> jar[r] = Nobody
                        /\ calls'[r].made \in Known' /\ Presented(calls'[r]) \in Known'
                        /\ calls'[r].made # 0 => Renews(calls'[r]) /\ Presented(calls'[r]) = 0
      BY <1>2 DEF Handlers
    <2>1. CASE r = s
      <3>1. Presented(c) \in Known'
        BY <1>3 DEF Handled, Jar, Handlers, Known
      <3> QED
        BY <1>1, <1>3, <2>1, <3>1 DEF Handled, Jar, Handlers
    <2>2. CASE r # s
      BY <1>1, <1>3, <2>2 DEF Jar, Handlers
    <2> QED
      BY <2>1, <2>2
  <1>5. JarRows'
    BY <1>2, <1>3 DEF Jar, JarRows, Handled, Grows
  <1>6. Mine'
    BY <1>1, <1>2 DEF Jar, Mine, Handled
  <1>7. ASSUME NEW x \in Known, x # 0, Fine(x), \A r \in Slots : Presented(calls[r]) # x
        PROVE  Fine(x)'
    BY <1>7 DEF Known, Handled, Grows
  <1>8. Undelivered'
    <2> SUFFICES ASSUME NEW r \in Slots, NEW n, n = calls'[r].made, n # 0
                 PROVE  Unused(r, n)'
      BY DEF Undelivered
    <2>1. CASE r = s
      <3>1. c.made \in DOMAIN tokens' \ DOMAIN tokens /\ Fine(c.made)' /\ Presented(c) = 0
        BY <1>1, <2>1 DEF Handled, Grows
      <3>2. \A q \in Slots : calls[q].made # c.made /\ Presented(calls[q]) # c.made
        BY <1>1, <2>1, <3>1 DEF Jar, Handlers, Known
      <3>3. \A b \in Browsers : cookie[b] # c.made
        BY <1>1, <2>1, <3>1 DEF Jar, JarRows, Known
      <3> QED
        BY <1>1, <1>2, <2>1, <3>1, <3>2, <3>3 DEF Unused
    <2>2. CASE r # s
      <3>1. calls'[r] = calls[r] /\ Unused(r, calls[r].made) /\ calls[r].made \in Known
        BY <1>1, <2>2 DEF Jar, Undelivered, Handlers
      <3>2. Fine(calls[r].made)'
        BY <1>1, <1>7, <2>2, <3>1 DEF Unused
      <3>3. Presented(c) # calls[r].made /\ c.made # calls[r].made
        BY <1>1, <2>2, <3>1 DEF Handled, Unused, Grows, Known
      <3> QED
        BY <1>1, <1>2, <2>2, <3>1, <3>2, <3>3 DEF Unused
    <2> QED
      BY <2>1, <2>2
  <1>9. ASSUME NEW b \in Browsers PROVE Works(b)'
    <2>1. CASE cookie[b] = 0 \/ missed[b]
      BY <1>2, <2>1 DEF Works
    <2>2. ASSUME NEW r \in Slots, jar[r] = b, Renews(calls[r]) PROVE Works(b)'
      <3>1. r # s
        BY <2>2 DEF Handled, Renews
      <3> QED
        BY <1>1, <1>2, <2>2, <3>1 DEF Works
    <2>3. CASE cookie[b] # 0 /\ Fine(cookie[b])
      <3>1. cookie[b] \in DOMAIN tokens
        BY <2>3 DEF Jar, JarRows, Known
      <3>2. CASE Renews(c) /\ Presented(calls[s]) = cookie[b]
        <4>1. jar[s] = b
          BY <2>3, <3>2 DEF Jar, Mine
        <4> QED
          BY <1>1, <1>2, <3>2, <4>1 DEF Works
      <3>3. CASE ~(Renews(c) /\ Presented(calls[s]) = cookie[b])
        <4>1. Fine(cookie[b])'
          BY <1>2, <2>3, <3>1, <3>3, <1>0 DEF Handled, Grows
        <4> QED
          BY <1>2, <4>1 DEF Works
      <3> QED
        BY <3>2, <3>3
    <2> QED
      BY <2>1, <2>2, <2>3 DEF Jar, Works
  <1> QED
    BY <1>4, <1>5, <1>6, <1>8, <1>9 DEF Jar

\* A new request of a browser's tab, or of an administrator (Nobody).
Started(s, c, b) ==
    /\ calls[s].at = "idle"
    /\ calls' = [calls EXCEPT ![s] = c]
    /\ jar' = [jar EXCEPT ![s] = b]
    /\ b \in Browsers \cup {Nobody}
    /\ Placed(c) /\ c.op # "none" /\ (c.op \in AdminOps <=> b = Nobody)
    /\ c.at = "revoke" /\ c.op = "revoke" => c.token \in pulled'
    /\ c.made = 0
    /\ Presented(c) # 0 => b \in Browsers /\ Presented(c) = cookie[b]
    /\ pulled \subseteq pulled'
    /\ UNCHANGED <<browserOf, cookie, missed, tokens, sweeps>>

LEMMA StartedKeeps ==
    ASSUME Jar, NEW s \in Slots, NEW c, NEW b, Started(s, c, b), calls \in [Slots -> CallType]
    PROVE  Jar'
  <1>1. calls'[s] = c /\ \A r \in Slots : r # s => calls'[r] = calls[r]
    BY DEF Started
  <1>2. jar \in [Slots -> Browsers \cup {Nobody}]
    BY DEF Jar, JarRows
  <1>3. jar'[s] = b /\ \A r \in Slots : r # s => jar'[r] = jar[r]
    BY <1>2 DEF Started
  <1>4. Known' = Known /\ \A x : Fine(x) => Fine(x)'
    BY DEF Started, Known, Fine, Live
  <1>5. Presented(c) \in Known
    BY DEF Started, Jar, JarRows, Known
  <1>6. Handlers'
    <2> SUFFICES ASSUME NEW r \in Slots
                 PROVE  /\ Placed(calls'[r])
                        /\ calls'[r].at = "revoke" /\ calls'[r].op = "revoke" => calls'[r].token \in pulled'
                        /\ jar'[r] \in Browsers \cup {Nobody}
                        /\ calls'[r].op \in AdminOps \cup {"none"} <=> jar'[r] = Nobody
                        /\ calls'[r].made \in Known' /\ Presented(calls'[r]) \in Known'
                        /\ calls'[r].made # 0 => Renews(calls'[r]) /\ Presented(calls'[r]) = 0
      BY DEF Handlers
    <2>1. CASE r = s
      BY <1>1, <1>3, <1>4, <1>5, <2>1 DEF Started, Known
    <2>2. CASE r # s
      BY <1>1, <1>3, <1>4, <2>2 DEF Started, Jar, Handlers
    <2> QED
      BY <2>1, <2>2
  <1>7. JarRows'
    BY <1>2, <1>3, <1>4 DEF Started, Jar, JarRows
  <1>8. Mine'
    <2>1. \A a \in Browsers : Presented(c) = cookie[a] /\ cookie[a] # 0 => b = a
      BY DEF Started, Jar, Mine
    <2> QED
      BY <1>1, <1>3, <2>1 DEF Started, Jar, Mine
  <1>9. Undelivered'
    <2> SUFFICES ASSUME NEW r \in Slots, NEW n, n = calls'[r].made, n # 0
                 PROVE  Unused(r, n)'
      BY DEF Undelivered
    <2>1. r # s /\ calls'[r] = calls[r] /\ Unused(r, calls[r].made) /\ calls[r].made # 0
      BY <1>1 DEF Started, Jar, Undelivered
    <2>2. Presented(c) # calls[r].made /\ c.made # calls[r].made
      BY <2>1 DEF Started, Unused
    <2> QED
      BY <1>1, <1>4, <2>1, <2>2 DEF Unused, Started
  <1>10. ASSUME NEW a \in Browsers PROVE Works(a)'
    <2>1. ASSUME NEW r \in Slots, Renews(calls[r]) PROVE r # s
      BY <2>1 DEF Started, Renews
    <2> QED
      BY <1>1, <1>3, <1>4, <2>1 DEF Works, Jar, Started
  <1> QED
    BY <1>6, <1>7, <1>8, <1>9, <1>10 DEF Jar

\* The reply in s is delivered to the browser b, or lost.
Answered(s, b) ==
    /\ calls[s].at = "reply" /\ jar[s] = b /\ b \in Browsers
    /\ calls' = [calls EXCEPT ![s] = Idle]
    /\ jar' = [jar EXCEPT ![s] = Nobody]
    /\ UNCHANGED <<browserOf, tokens, sweeps, pulled>>
    /\ missed' \in [Browsers -> BOOLEAN] /\ \A a \in Browsers : missed[a] => missed'[a]
    /\ \/ cookie' = cookie /\ (Renews(calls[s]) => missed'[b])
       \/ cookie' = [cookie EXCEPT ![b] = calls[s].made] /\ Renews(calls[s])

LEMMA AnsweredKeeps ==
    ASSUME Jar, NEW s \in Slots, NEW b, Answered(s, b),
           calls \in [Slots -> CallType], tokens \in Seq(TokenType)
    PROVE  Jar'
  <1>1. calls'[s] = Idle /\ \A r \in Slots : r # s => calls'[r] = calls[r]
    BY DEF Answered
  <1>2. jar \in [Slots -> Browsers \cup {Nobody}] /\ cookie \in [Browsers -> Known]
    BY DEF Jar, JarRows
  <1>3. jar'[s] = Nobody /\ \A r \in Slots : r # s => jar'[r] = jar[r]
    BY <1>2 DEF Answered
  <1>4. Known' = Known /\ \A x : Fine(x)' <=> Fine(x)
    BY DEF Answered, Known, Fine, Live
  <1>5. Idle.at = "idle" /\ Idle.op = "none" /\ Idle.made = 0 /\ Presented(Idle) = 0 /\ Placed(Idle)
    BY DEF Idle, Presented, Placed, AdminOps
  <1>6. Handlers'
    BY <1>1, <1>3, <1>4, <1>5, BrowserAssumption DEF Answered, Jar, Handlers, Known, AdminOps
  \* A cookie that is set is one that nobody knew.
  <1>7. \A a \in Browsers : \/ cookie'[a] = cookie[a]
                            \/ a = b /\ cookie'[a] = calls[s].made /\ Renews(calls[s])
    BY <1>2 DEF Answered
  <1>8. calls[s].made # 0 => Unused(s, calls[s].made)
    BY DEF Jar, Undelivered
  <1>9. JarRows'
    <2>1. calls[s].made \in Known
      BY DEF Jar, Handlers
    <2> QED
      BY <1>2, <1>3, <1>4, <2>1 DEF Answered, Jar, JarRows
  <1>10. Mine'
    <2>1. ASSUME NEW a \in Browsers, NEW d \in Browsers, cookie'[a] = cookie'[d], cookie'[a] # 0
          PROVE  a = d
      BY <1>7, <1>8, <2>1 DEF Unused, Jar, Mine
    <2>2. ASSUME NEW r \in Slots, NEW a \in Browsers, Presented(calls'[r]) = cookie'[a], cookie'[a] # 0
          PROVE  jar'[r] = a
      <3>1. r # s /\ calls'[r] = calls[r] /\ jar'[r] = jar[r]
        BY <1>1, <1>3, <1>5, <2>2
      <3>2. cookie'[a] = cookie[a]
        BY <1>7, <1>8, <2>2, <3>1 DEF Unused
      <3> QED
        BY <2>2, <3>1, <3>2 DEF Jar, Mine
    <2> QED
      BY <2>1, <2>2 DEF Mine
  <1>11. Undelivered'
    <2> SUFFICES ASSUME NEW r \in Slots, NEW n, n = calls'[r].made, n # 0
                 PROVE  Unused(r, n)'
      BY DEF Undelivered
    <2>1. r # s /\ calls'[r] = calls[r] /\ Unused(r, n)
      BY <1>1, <1>5 DEF Jar, Undelivered
    <2>2. calls[s].made # n
      BY <2>1 DEF Unused
    <2> QED
      BY <1>1, <1>4, <1>5, <1>7, <2>1, <2>2 DEF Unused
  <1>12. ASSUME NEW a \in Browsers PROVE Works(a)'
    <2>1. CASE a = b /\ Renews(calls[s])
      <3>1. cookie'[a] = 0 \/ missed'[a] \/ (cookie'[a] = calls[s].made /\ calls[s].made # 0)
        BY <1>2, <2>1 DEF Answered
      <3> QED
        BY <1>4, <1>8, <3>1 DEF Works, Unused
    <2>2. CASE ~(a = b /\ Renews(calls[s]))
      <3>1. cookie'[a] = cookie[a]
        BY <1>7, <2>2
      <3>2. missed[a] => missed'[a]
        BY DEF Answered
      <3>3. ASSUME NEW r \in Slots, jar[r] = a, Renews(calls[r])
            PROVE  jar'[r] = a /\ Renews(calls'[r])
        <4>1. r # s
          BY <2>2, <3>3 DEF Answered
        <4> QED
          BY <1>1, <1>3, <3>3, <4>1
      <3> QED
        BY <1>4, <3>1, <3>2, <3>3 DEF Works, Jar
    <2> QED
      BY <2>1, <2>2
  <1> QED
    BY <1>6, <1>9, <1>10, <1>11, <1>12 DEF Jar

-----------------------------------------------------------------------------
(* What the server's steps do to the rows. *)

LEMMA RowsStay ==
    ASSUME Jar, UNCHANGED <<tokens, sweeps, pulled>>
    PROVE  \A t : Grows(t, 0)
  BY DEF Grows, Jar, JarRows, Fine, Live

LEMMA RowsSwept ==
    ASSUME SessionsTypeOK, Jar, tokens' = AllRevoked, sweeps' = sweeps + 1, UNCHANGED pulled
    PROVE  \A t : Grows(t, 0)
  <1>1. DOMAIN tokens' = DOMAIN tokens /\ \A x \in DOMAIN tokens : tokens[x] \in TokenType
    BY RevokedType, TokensTyped DEF SessionsTypeOK
  <1>2. ASSUME NEW x \in DOMAIN tokens
        PROVE  tokens'[x].born = tokens[x].born /\ tokens[x].born \in Nat
    <2>1. tokens'[x] = [tokens[x] EXCEPT !.revoked = TRUE]
      BY RevokedType DEF SessionsTypeOK
    <2> QED
      BY <1>1, <2>1 DEF TokenType
  <1>3. ASSUME NEW x \in DOMAIN tokens PROVE tokens'[x].born < sweeps'
    BY <1>2, <1>3, UserTyped DEF Jar, JarRows
  <1> QED
    BY <1>1, <1>2, <1>3, UserTyped DEF Grows, Fine, Jar, JarRows

LEMMA RowRevoked ==
    ASSUME SessionsTypeOK, Jar, NEW t \in DOMAIN tokens, tokens' = Revoked(t), UNCHANGED <<sweeps, pulled>>
    PROVE  Grows(t, 0) /\ (t \in pulled => Grows(0, 0))
  <1>1. /\ DOMAIN tokens' = DOMAIN tokens /\ tokens'[t] = [tokens[t] EXCEPT !.revoked = TRUE]
        /\ \A x \in DOMAIN tokens : x # t => tokens'[x] = tokens[x]
    BY OneRevokedType DEF SessionsTypeOK
  <1>2. tokens[t] \in TokenType
    BY TokensTyped DEF SessionsTypeOK
  <1>3. tokens'[t].born = tokens[t].born
    BY <1>1, <1>2 DEF TokenType
  <1> QED
    BY <1>1, <1>3 DEF Grows, Jar, JarRows, Fine, Live

LEMMA RowIssued ==
    ASSUME SessionsTypeOK, Jar, NEW s \in Slots, IssueRefreshToken(s), UNCHANGED pulled,
           NEW n, n = Len(tokens) + 1
    PROVE  Grows(0, n)
  <1> DEFINE x == Token(0, n, sweeps, calls[s].cred,
                        calls[s].crossed \/ calls[s].seen # sweeps, calls[s].code, calls[s].twice)
  <1>1. n \in Nat /\ tokens \in Seq(TokenType)
    BY DEF SessionsTypeOK
  <1>2. x \in TokenType
    BY <1>1, CallTyped, UserTyped, TokenFields
  <1>3. tokens' = Append(tokens, x) /\ sweeps' = sweeps /\ ~x.revoked /\ x.born = sweeps
    BY DEF IssueRefreshToken, Token
  <1> HIDE DEF x
  <1>4. /\ DOMAIN tokens' = DOMAIN tokens \cup {n} /\ n \notin DOMAIN tokens
        /\ tokens'[n] = x /\ \A i \in DOMAIN tokens : tokens'[i] = tokens[i]
    BY <1>1, <1>2, <1>3, AppendType
  <1> QED
    BY <1>3, <1>4, UserTyped DEF Grows, Jar, JarRows, Fine, Live

LEMMA RowRotated ==
    ASSUME SessionsTypeOK, Jar, NEW s \in Slots, Rotate(s), UNCHANGED pulled,
           NEW n, n = Len(tokens) + 1, NEW t, t = calls[s].token
    PROVE  Grows(t, n)
  <1>0. t \in DOMAIN tokens /\ sweeps' = sweeps
    BY RotateRows DEF Rotate
  <1>1. PICK x \in TokenType : tokens' = Append(Revoked(t), x) /\ x.born = sweeps /\ ~x.revoked
    BY RotateRows
  <1>2. /\ Revoked(t) \in Seq(TokenType) /\ Len(Revoked(t)) = Len(tokens)
        /\ DOMAIN Revoked(t) = DOMAIN tokens /\ Revoked(t)[t] = [tokens[t] EXCEPT !.revoked = TRUE]
        /\ \A i \in DOMAIN tokens : i # t => Revoked(t)[i] = tokens[i]
    BY <1>0, OneRevokedType DEF SessionsTypeOK
  <1>3. tokens[t] \in TokenType
    BY <1>0, TokensTyped DEF SessionsTypeOK
  <1>4. /\ DOMAIN tokens' = DOMAIN tokens \cup {n} /\ n \notin DOMAIN tokens
        /\ tokens'[n] = x /\ \A i \in DOMAIN tokens : tokens'[i] = Revoked(t)[i]
    BY <1>1, <1>2, AppendType
  <1>5. tokens'[t].born = tokens[t].born
    BY <1>0, <1>2, <1>3, <1>4 DEF TokenType
  <1>6. \A i \in DOMAIN tokens : i # t => tokens'[i] = tokens[i]
    BY <1>2, <1>4
  <1>7. \A i \in DOMAIN tokens' : tokens'[i].born <= sweeps'
    BY <1>0, <1>1, <1>4, <1>5, <1>6, UserTyped DEF Jar, JarRows
  <1>8. \A i \in DOMAIN tokens : i # t /\ Fine(i) => Fine(i)'
    BY <1>0, <1>6 DEF Fine, Live
  <1>9. Fine(n)'
    BY <1>1, <1>4 DEF Fine, Live
  <1> QED
    BY <1>4, <1>7, <1>8, <1>9 DEF Grows

-----------------------------------------------------------------------------
(* The server's steps are handled. *)

\* A handler that goes on.
LEMMA GoesOn ==
    ASSUME SessionsTypeOK, Jar, NEW s \in Slots, NEW c, calls' = [calls EXCEPT ![s] = c],
           calls[s].at \notin {"idle", "reply"}, c.at \notin {"idle", "reply", "revoke"}, Placed(c),
           c.op = calls[s].op, c.token = calls[s].token, c.made = calls[s].made, Grows(0, 0)
    PROVE  Handled(s, c)
  <1>1. calls[s].made = 0
    BY DEF Jar, Handlers, Renews
  <1> QED
    BY <1>1 DEF Handled, Presented, Renews

\* A handler that ends, and one that ends with a new token.
LEMMA ReplyIs ==
    ASSUME SessionsTypeOK, NEW s \in Slots, NEW ok, NEW token, NEW made, Reply(s, ok, token, made),
           calls[s].op # "none"
    PROVE  \E c : /\ calls' = [calls EXCEPT ![s] = c]
                  /\ Placed(c) /\ c.at \in {"idle", "reply"}
                  /\ IF calls[s].op \in AdminOps
                       THEN c.op = "none" /\ c.made = 0 /\ Presented(c) = 0 /\ ~Renews(c)
                       ELSE /\ c.op = calls[s].op /\ c.at = "reply"
                            /\ c.ok = ok /\ c.token = token /\ c.made = made
  <1>1. CASE calls[s].op \in AdminOps
    <2>1. calls' = [calls EXCEPT ![s] = Idle]
      BY <1>1 DEF Reply
    <2>2. Placed(Idle) /\ Idle.at = "idle" /\ Idle.op = "none" /\ Idle.made = 0
          /\ Presented(Idle) = 0 /\ ~Renews(Idle)
      BY DEF Idle, Placed, Presented, Renews, AdminOps
    <2> QED
      BY <1>1, <2>1, <2>2
  <1>2. CASE calls[s].op \notin AdminOps
    <2> DEFINE c == [Idle EXCEPT !.op = calls[s].op, !.at = "reply", !.ok = ok,
                                 !.token = token, !.made = made]
    <2>1. calls' = [calls EXCEPT ![s] = c]
      BY <1>2 DEF Reply
    <2>2. c.op = calls[s].op /\ c.at = "reply" /\ c.ok = ok /\ c.token = token /\ c.made = made
      BY DEF Idle
    <2> HIDE DEF c
    <2>3. Placed(c)
      BY <1>2, <2>2 DEF Placed
    <2> QED
      BY <1>2, <2>1, <2>2, <2>3
  <1> QED
    BY <1>1, <1>2

LEMMA Busy ==
    ASSUME Jar, NEW s \in Slots, calls[s].at # "idle"
    PROVE  calls[s].op # "none" /\ Placed(calls[s])
  BY DEF Jar, Handlers, Placed

LEMMA Ends ==
    ASSUME SessionsTypeOK, Jar, NEW s \in Slots, calls[s].at \notin {"idle", "reply"},
           NEW ok \in BOOLEAN, NEW token, Reply(s, ok, token, 0),
           calls[s].op \in {"refresh", "logout"} => token = 0,
           Grows(IF ok /\ calls[s].op = "logout" THEN calls[s].token ELSE 0, 0)
    PROVE  \E c : Handled(s, c)
  <1>1. PICK c : /\ calls' = [calls EXCEPT ![s] = c]
                 /\ Placed(c) /\ c.at \in {"idle", "reply"}
                 /\ IF calls[s].op \in AdminOps
                      THEN c.op = "none" /\ c.made = 0 /\ Presented(c) = 0 /\ ~Renews(c)
                      ELSE /\ c.op = calls[s].op /\ c.at = "reply"
                           /\ c.ok = ok /\ c.token = token /\ c.made = 0
    BY ReplyIs, Busy
  <1>2. Presented(c) = 0 /\ c.made = 0
    BY <1>1 DEF Presented
  <1>3. Renews(c) <=> ok /\ calls[s].op = "logout"
    BY <1>1 DEF Renews, AdminOps
  <1>4. calls[s].op = "logout" => Presented(calls[s]) = calls[s].token
    BY DEF Presented
  <1>5. Grows(IF Renews(c) THEN Presented(calls[s]) ELSE 0, c.made)
    BY <1>2, <1>3, <1>4
  <1> QED
    BY <1>1, <1>2, <1>5 DEF Handled

LEMMA EndsWithToken ==
    ASSUME SessionsTypeOK, Jar, NEW s \in Slots, calls[s].at \notin {"idle", "reply"},
           calls[s].op \notin AdminOps, NEW n, n # 0, NEW ok \in BOOLEAN, ok, Reply(s, ok, 0, n),
           Grows(Presented(calls[s]), n)
    PROVE  \E c : Handled(s, c)
  <1>0. calls[s].op # "none"
    BY Busy
  <1>1. PICK c : /\ calls' = [calls EXCEPT ![s] = c]
                 /\ Placed(c) /\ c.at = "reply" /\ c.op = calls[s].op
                 /\ c.ok = ok /\ c.token = 0 /\ c.made = n
    <2> DEFINE c == [Idle EXCEPT !.op = calls[s].op, !.at = "reply", !.ok = ok,
                                 !.token = 0, !.made = n]
    <2>1. calls' = [calls EXCEPT ![s] = c]
      BY DEF Reply
    <2>2. c.op = calls[s].op /\ c.at = "reply" /\ c.ok = ok /\ c.token = 0 /\ c.made = n
      BY DEF Idle
    <2> HIDE DEF c
    <2>3. Placed(c)
      BY <1>0, <2>2 DEF Placed
    <2> QED
      BY <2>1, <2>2, <2>3
  <1>2. Presented(c) = 0 /\ Renews(c)
    BY <1>1 DEF Presented, Renews
  <1>3. Grows(IF Renews(c) THEN Presented(calls[s]) ELSE 0, c.made)
    BY <1>1, <1>2
  <1> QED
    BY <1>1, <1>2, <1>3 DEF Handled

LEMMA ServeHandled ==
    ASSUME SessionsTypeOK, Jar, NEW s \in Slots, Step(s) \/ Abandon(s), UNCHANGED pulled
    PROVE  \E c : Handled(s, c)
  <1>0. calls \in [Slots -> CallType] /\ calls[s] \in CallType /\ Len(tokens) \in Nat
    BY CallTyped DEF SessionsTypeOK
  <1>1. UNCHANGED <<tokens, sweeps>> => Grows(0, 0) /\ Grows(calls[s].token, 0)
    BY RowsStay
  <1>2. calls[s].at # "idle" => Placed(calls[s])
    BY Busy
  <1>3. ASSUME NEW token, NEW ok \in BOOLEAN, Reply(s, ok, token, 0), calls[s].at \notin {"idle", "reply"},
               calls[s].op \in {"refresh", "logout"} => token = 0, Grows(0, 0), Grows(calls[s].token, 0)
        PROVE  \E c : Handled(s, c)
    BY <1>3, Ends
  <1>4. CASE Refuse(s)
    BY <1>1, <1>3, <1>4 DEF Refuse
  <1>5. CASE LoginRead(s)
    <2> DEFINE c == [calls[s] EXCEPT !.at = AfterPassword, !.seen = sweeps]
    <2>1. calls' = [calls EXCEPT ![s] = c]
      BY <1>5 DEF LoginRead
    <2>2. c.op = calls[s].op /\ c.token = calls[s].token /\ c.made = calls[s].made /\ c.at = AfterPassword
      BY <1>0 DEF CallType
    <2>3. c.at \in {"issue", "challenge"} /\ calls[s].op = "login" /\ calls[s].at = "read"
      BY <1>5, <2>2 DEF LoginRead, At, AfterPassword
    <2> HIDE DEF c
    <2>4. Placed(c)
      BY <2>2, <2>3 DEF Placed
    <2> QED
      BY <1>1, <1>5, <2>1, <2>2, <2>3, <2>4, GoesOn DEF LoginRead
  <1>6. CASE Challenge(s)
    BY <1>1, <1>2, <1>3, <1>6 DEF Challenge, Placed
  <1>7. CASE VerifyRead(s)
    <2> DEFINE to == IF mfa = "EMAIL" THEN "consume" ELSE "issue"
               c == [calls[s] EXCEPT !.at = to]
    <2>1. calls' = [calls EXCEPT ![s] = c]
      BY <1>7 DEF VerifyRead, Goto
    <2>2. c.op = calls[s].op /\ c.token = calls[s].token /\ c.made = calls[s].made /\ c.at = to
      BY <1>0 DEF CallType
    <2>3. c.at \in {"issue", "consume"} /\ calls[s].op = "verify" /\ calls[s].at = "read"
      BY <1>7, <2>2 DEF VerifyRead, At
    <2> HIDE DEF c
    <2>4. Placed(c)
      BY <2>2, <2>3 DEF Placed
    <2> QED
      BY <1>1, <1>7, <2>1, <2>2, <2>3, <2>4, GoesOn DEF VerifyRead
  <1>8. CASE ConsumeOtpCode(s)
    <2> DEFINE c == [calls[s] EXCEPT !.at = "issue", !.twice = codes[calls[s].code].consumed]
    <2>1. calls' = [calls EXCEPT ![s] = c]
      BY <1>8 DEF ConsumeOtpCode
    <2>2. c.op = calls[s].op /\ c.token = calls[s].token /\ c.made = calls[s].made /\ c.at = "issue"
      BY <1>0 DEF CallType
    <2> HIDE DEF c
    <2>3. calls[s].at = "consume"
      BY <1>8 DEF ConsumeOtpCode
    <2>4. Placed(c)
      BY <1>2, <2>2, <2>3 DEF Placed
    <2> QED
      BY <1>1, <1>8, <2>1, <2>2, <2>3, <2>4, GoesOn DEF ConsumeOtpCode
  <1>9. CASE IssueRefreshToken(s)
    <2> PICK n : n = Len(tokens) + 1
      OBVIOUS
    <2>0. Grows(0, n)
      BY <1>9, RowIssued
    <2>1. Grows(0, n) /\ n # 0 /\ Reply(s, TRUE, 0, n) /\ calls[s].at = "issue"
      BY <1>0, <1>9, <2>0 DEF IssueRefreshToken, Reply
    <2>2. calls[s].op \in {"login", "verify", "change"}
      BY <1>2, <2>1 DEF Placed
    <2>3. Presented(calls[s]) = 0 /\ calls[s].op \notin AdminOps
      BY <2>2 DEF Presented, AdminOps
    <2> QED
      BY <2>1, <2>3, EndsWithToken
  <1>10. CASE RefreshRead(s)
    <2> DEFINE to == IF tokens[calls[s].token].revoked THEN "alarm" ELSE "rotate"
               c == [calls[s] EXCEPT !.at = to, !.seen = sweeps]
    <2>1. calls' = [calls EXCEPT ![s] = c]
      BY <1>10 DEF RefreshRead
    <2>2. c.op = calls[s].op /\ c.token = calls[s].token /\ c.made = calls[s].made /\ c.at = to
      BY <1>0 DEF CallType
    <2>3. c.at \in {"alarm", "rotate"} /\ calls[s].op = "refresh" /\ calls[s].at = "read"
      BY <1>10, <2>2 DEF RefreshRead, At
    <2> HIDE DEF c
    <2>4. Placed(c)
      BY <2>2, <2>3 DEF Placed
    <2> QED
      BY <1>1, <1>10, <2>1, <2>2, <2>3, <2>4, GoesOn DEF RefreshRead
  <1>11. CASE Rotate(s)
    <2> PICK n : n = Len(tokens) + 1
      OBVIOUS
    <2> PICK t : t = calls[s].token
      OBVIOUS
    <2>0. Grows(t, n)
      BY <1>11, RowRotated
    <2>1. Grows(t, n) /\ n # 0 /\ Reply(s, TRUE, 0, n) /\ calls[s].at = "rotate"
      BY <1>0, <1>11, <2>0 DEF Rotate, Reply
    <2>2. calls[s].op = "refresh"
      BY <1>2, <2>1 DEF Placed
    <2>3. Presented(calls[s]) = t /\ calls[s].op \notin AdminOps
      BY <2>2 DEF Presented, AdminOps
    <2> QED
      BY <2>1, <2>3, EndsWithToken
  <1>12. CASE DetectReuse(s)
    <2>1. Grows(0, 0) /\ Grows(calls[s].token, 0)
      BY <1>12, RowsSwept DEF DetectReuse
    <2> QED
      BY <1>3, <1>12, <2>1 DEF DetectReuse
  <1>13. CASE RevokeRefreshToken(s)
    <2> PICK t : t = calls[s].token
      OBVIOUS
    <2>1. t \in DOMAIN tokens /\ calls[s].at = "revoke" /\ Reply(s, TRUE, 0, 0)
      BY <1>13, CallTyped DEF RevokeRefreshToken, Refers
    <2>2. Grows(t, 0) /\ (t \in pulled => Grows(0, 0))
      BY <1>13, <2>1, RowRevoked DEF RevokeRefreshToken
    <2>3. calls[s].op = "logout" \/ (calls[s].op = "revoke" /\ t \in pulled)
      BY <1>2, <2>1 DEF Placed, Jar, Handlers
    <2>4. Grows(IF TRUE /\ calls[s].op = "logout" THEN calls[s].token ELSE 0, 0)
      BY <2>2, <2>3
    <2> QED
      BY <2>1, <2>4, Ends
  <1>14. CASE ChangeRead(s)
    <2> DEFINE c == [calls[s] EXCEPT !.at = "update"]
    <2>1. calls' = [calls EXCEPT ![s] = c]
      BY <1>14 DEF ChangeRead, Goto
    <2>2. c.op = calls[s].op /\ c.token = calls[s].token /\ c.made = calls[s].made /\ c.at = "update"
      BY <1>0 DEF CallType
    <2>3. calls[s].op = "change" /\ calls[s].at = "read"
      BY <1>14 DEF ChangeRead, At
    <2> HIDE DEF c
    <2>4. Placed(c)
      BY <2>2, <2>3 DEF Placed
    <2> QED
      BY <1>1, <1>14, <2>1, <2>2, <2>3, <2>4, GoesOn DEF ChangeRead
  <1>15. CASE ChangeUpdate(s)
    <2> DEFINE c == [calls[s] EXCEPT !.at = "sweep", !.cred = user.password + 1]
    <2>1. calls' = [calls EXCEPT ![s] = c]
      BY <1>15 DEF ChangeUpdate
    <2>2. c.op = calls[s].op /\ c.token = calls[s].token /\ c.made = calls[s].made /\ c.at = "sweep"
      BY <1>0 DEF CallType
    <2>3. calls[s].op = "change" /\ calls[s].at = "update"
      BY <1>15 DEF ChangeUpdate, At
    <2> HIDE DEF c
    <2>4. Placed(c)
      BY <2>2, <2>3 DEF Placed
    <2> QED
      BY <1>1, <1>15, <2>1, <2>2, <2>3, <2>4, GoesOn DEF ChangeUpdate
  <1>16. CASE ChangeSweep(s)
    <2> DEFINE c == [calls[s] EXCEPT !.at = "issue", !.seen = IF @ = sweeps THEN sweeps + 1 ELSE @]
    <2>1. calls' = [calls EXCEPT ![s] = c]
      BY <1>16 DEF ChangeSweep
    <2>2. c.op = calls[s].op /\ c.token = calls[s].token /\ c.made = calls[s].made /\ c.at = "issue"
      BY <1>0 DEF CallType
    <2>3. calls[s].op = "change" /\ calls[s].at = "sweep"
      BY <1>16 DEF ChangeSweep, At
    <2> HIDE DEF c
    <2>4. Placed(c)
      BY <2>2, <2>3 DEF Placed
    <2>5. Grows(0, 0)
      BY <1>16, RowsSwept DEF ChangeSweep
    <2> QED
      BY <2>1, <2>2, <2>3, <2>4, <2>5, GoesOn
  <1>17. CASE AdminUpdate(s)
    <2>0. calls[s].op \in AdminOps /\ calls[s].at = "update"
      BY <1>17 DEF AdminUpdate
    <2>1. CASE Sweeps(calls[s].op)
      <3> DEFINE c == [calls[s] EXCEPT !.at = "sweep"]
      <3>1. calls' = [calls EXCEPT ![s] = c]
        BY <1>17, <2>1 DEF AdminUpdate, Goto
      <3>2. c.op = calls[s].op /\ c.token = calls[s].token /\ c.made = calls[s].made /\ c.at = "sweep"
        BY <1>0 DEF CallType
      <3> HIDE DEF c
      <3>3. Placed(c)
        BY <2>0, <3>2 DEF Placed, AdminOps
      <3> QED
        BY <1>1, <1>17, <2>0, <3>1, <3>2, <3>3, GoesOn DEF AdminUpdate
    <2>2. CASE ~Sweeps(calls[s].op)
      BY <1>1, <1>3, <1>17, <2>0, <2>2 DEF AdminUpdate
    <2> QED
      BY <2>1, <2>2
  <1>18. CASE AdminSweep(s)
    <2>1. Grows(0, 0) /\ Grows(calls[s].token, 0)
      BY <1>18, RowsSwept DEF AdminSweep
    <2> QED
      BY <1>3, <1>18, <2>1 DEF AdminSweep
  <1>19. CASE Abandon(s)
    BY <1>1, <1>3, <1>19 DEF Abandon
  <1> QED
    BY <1>4, <1>5, <1>6, <1>7, <1>8, <1>9, <1>10, <1>11, <1>12, <1>13, <1>14, <1>15, <1>16, <1>17, <1>18,
       <1>19 DEF Step

-----------------------------------------------------------------------------
(* The tabs, the administrators and the replies. *)

LEMMA RequestFields ==
    ASSUME NEW op, NEW at, NEW token, NEW cred
    PROVE  LET c == Request(op, at, token, cred)
           IN  c.op = op /\ c.at = at /\ c.token = token /\ c.made = 0
  BY DEF Request, Idle

\* A request of a tab.
LEMMA TabStarts ==
    ASSUME Jar, NEW s \in Slots, NEW t \in Tabs, NEW c, Begin(s, c),
           c.op \in {"login", "verify", "refresh", "logout", "change"},
           c.at \in {"read", "revoke", "reply"}, c.at = "revoke" => c.op = "logout", c.made = 0,
           Presented(c) \in {0, Cookie(t)},
           jar' = [jar EXCEPT ![s] = browserOf[t]], UNCHANGED <<browserOf, cookie, missed, pulled>>
    PROVE  \E d, b : Started(s, d, b)
  <1>1. browserOf[t] \in Browsers /\ Nobody \notin Browsers
    BY BrowserAssumption DEF Jar, JarRows
  <1>2. Placed(c) /\ c.op # "none" /\ c.op \notin AdminOps
    BY DEF Placed, AdminOps
  <1>3. calls[s].at = "idle" /\ calls' = [calls EXCEPT ![s] = c] /\ UNCHANGED <<tokens, sweeps>>
    BY DEF Begin
  <1>4. Presented(c) # 0 => Presented(c) = cookie[browserOf[t]]
    BY DEF Cookie
  <1>5. Started(s, c, browserOf[t])
    BY <1>1, <1>2, <1>3, <1>4 DEF Started
  <1> QED
    BY <1>5

LEMMA TabsKeep ==
    ASSUME SessionsTypeOK, Jar, NEW s \in Slots, NEW t \in Tabs, UseTab(s, t)
    PROVE  \/ \E c, b : Started(s, c, b)
           \/ UNCHANGED <<calls, tokens, sweeps, browserOf, cookie, jar, missed, pulled>>
  <1>1. ASSUME Refresh(s, Cookie(t)), jar' = [jar EXCEPT ![s] = browserOf[t]],
               UNCHANGED <<browserOf, cookie, missed, pulled>>
        PROVE  \E c, b : Started(s, c, b)
    <2> PICK c : c = Request("refresh", "read", Cookie(t), 0)
      OBVIOUS
    <2>1. Begin(s, c)
      BY <1>1 DEF Refresh, Begin
    <2>2. c.op = "refresh" /\ c.at = "read" /\ c.token = Cookie(t) /\ c.made = 0
      BY RequestFields
    <2>3. Presented(c) = Cookie(t)
      BY <2>2 DEF Presented
    <2> QED
      BY <1>1, <2>1, <2>2, <2>3, TabStarts
  <1>2. CASE OpenTab(s, t)
    BY <1>1, <1>2 DEF OpenTab, sessionVars
  <1>3. CASE SubmitLogin(s, t)
    <2> PICK c : c = Request("login", "read", 0, user.password)
      OBVIOUS
    <2>1. Begin(s, c)
      BY <1>3 DEF SubmitLogin, Login, Begin
    <2>2. c.op = "login" /\ c.at = "read" /\ c.made = 0
      BY RequestFields
    <2>3. Presented(c) = 0
      BY <2>2 DEF Presented
    <2> QED
      BY <1>3, <2>1, <2>2, <2>3, TabStarts DEF SubmitLogin, Send
  <1>4. CASE SubmitChange(s, t)
    <2> DEFINE q == Request("change", "read", tab[t].access, user.password)
    <2> PICK c : c = [q EXCEPT !.seen = tokens[tab[t].access].born, !.crossed = tokens[tab[t].access].crossed]
      OBVIOUS
    <2>1. Begin(s, c)
      BY <1>4 DEF SubmitChange, ChangePassword, Begin
    <2>2. c.op = "change" /\ c.at = "read" /\ c.made = 0
      BY DEF Request, Idle
    <2>3. Presented(c) = 0
      BY <2>2 DEF Presented
    <2> QED
      BY <1>4, <2>1, <2>2, <2>3, TabStarts DEF SubmitChange, Send
  <1>5. ASSUME NEW k \in Mailed, SubmitCode(s, t, k) PROVE \E c, b : Started(s, c, b)
    <2> DEFINE i == tab[t].pending
    <2> PICK c : c = [Request("verify", "read", 0, pendings[i].cred) EXCEPT !.seen = pendings[i].seen, !.code = k]
      OBVIOUS
    <2>1. Begin(s, c)
      BY <1>5 DEF SubmitCode, VerifyMfa, Begin
    <2>2. c.op = "verify" /\ c.at = "read" /\ c.made = 0
      BY DEF Request, Idle
    <2>3. Presented(c) = 0
      BY <2>2 DEF Presented
    <2> QED
      BY <1>5, <2>1, <2>2, <2>3, TabStarts DEF SubmitCode, Send
  <1>6. CASE ClickLogout(s, t)
    <2> DEFINE at == IF Cookie(t) = 0 THEN "reply" ELSE "revoke"
    <2> PICK c : c = [Request("logout", at, Cookie(t), 0) EXCEPT !.ok = (Cookie(t) = 0)]
      OBVIOUS
    <2>1. Begin(s, c)
      BY <1>6 DEF ClickLogout, Logout, Begin
    <2>2. c.op = "logout" /\ c.at = at /\ c.token = Cookie(t) /\ c.made = 0
      BY DEF Request, Idle
    <2>3. Presented(c) = Cookie(t)
      BY <2>2 DEF Presented
    <2> QED
      BY <1>6, <2>1, <2>2, <2>3, TabStarts DEF ClickLogout, Send
  <1>7. CASE RefreshAccessToken(s, t)
    BY <1>1, <1>7 DEF RefreshAccessToken, Send
  <1> QED
    BY <1>2, <1>3, <1>4, <1>5, <1>6, <1>7 DEF UseTab

LEMMA AdministratorsStart ==
    ASSUME Jar, NEW s \in Slots, Supervise(s)
    PROVE  \E c, b : Started(s, c, b)
  <1>1. Nobody \notin Browsers
    BY BrowserAssumption
  <1>2. ASSUME NEW op \in AdminOps, NEW at \in {"update", "sweep", "revoke"}, NEW x,
               Begin(s, Request(op, at, x, 0)), at = "revoke" => op = "revoke" /\ x \in pulled',
               pulled \subseteq pulled'
        PROVE  \E c, b : Started(s, c, b)
    <2> PICK c : c = Request(op, at, x, 0)
      OBVIOUS
    <2>1. c.op = op /\ c.at = at /\ c.token = x /\ c.made = 0
      BY RequestFields
    <2>2. Placed(c) /\ c.op # "none" /\ Presented(c) = 0
      BY <1>2, <2>1 DEF Placed, Presented, AdminOps
    <2>3. calls[s].at = "idle" /\ calls' = [calls EXCEPT ![s] = c] /\ UNCHANGED <<tokens, sweeps>>
      BY <1>2 DEF Begin
    <2>4. jar[s] = Nobody /\ jar \in [Slots -> Browsers \cup {Nobody}]
      BY <2>3 DEF Jar, JarRows, Handlers, Placed
    <2>5. jar' = [jar EXCEPT ![s] = Nobody] /\ UNCHANGED <<browserOf, cookie, missed>>
      BY <2>4 DEF Supervise
    <2> QED
      BY <1>1, <1>2, <2>1, <2>2, <2>3, <2>5 DEF Started
  <1>3. CASE SetAgentStatus(s, "suspend") /\ UNCHANGED pulled
    BY <1>2, <1>3 DEF SetAgentStatus, AdminOps
  <1>4. CASE SetAgentStatus(s, "reactivate") /\ UNCHANGED pulled
    BY <1>2, <1>4 DEF SetAgentStatus, AdminOps
  <1>5. CASE ResetAgentPassword(s) /\ UNCHANGED pulled
    BY <1>2, <1>5 DEF ResetAgentPassword, AdminOps
  <1>6. CASE ForceLogout(s) /\ UNCHANGED pulled
    BY <1>2, <1>6 DEF ForceLogout, AdminOps
  <1>7. ASSUME NEW x, RevokeSession(s, x), pulled' = pulled \cup {x}
        PROVE  \E c, b : Started(s, c, b)
    BY <1>2, <1>7 DEF RevokeSession, AdminOps
  <1> QED
    BY <1>3, <1>4, <1>5, <1>6, <1>7 DEF Supervise

LEMMA RepliesAnswer ==
    ASSUME SessionsTypeOK, Jar, NEW s \in Slots, Deliver(s) \/ LoseReply(s)
    PROVE  \E b : Answered(s, b)
  <1> PICK b : b = jar[s]
    OBVIOUS
  <1>1. /\ b \in Browsers /\ Respond(s) /\ jar' = [jar EXCEPT ![s] = Nobody]
        /\ UNCHANGED <<browserOf, pulled>>
    BY DEF Deliver, LoseReply, Forget
  <1>2. /\ calls[s].at = "reply" /\ calls' = [calls EXCEPT ![s] = Idle]
        /\ UNCHANGED <<tokens, sweeps>>
    BY <1>1 DEF Respond
  <1>3. missed \in [Browsers -> BOOLEAN] /\ cookie \in [Browsers -> Known]
    BY DEF Jar, JarRows
  <1>4. calls[s].ok \in BOOLEAN
    BY CallTyped DEF CallType
  <1>5. CASE Deliver(s)
    <2>1. missed' \in [Browsers -> BOOLEAN] /\ \A a \in Browsers : missed[a] => missed'[a]
      BY <1>3, <1>4, <1>5 DEF Deliver
    <2>2. cookie' = [cookie EXCEPT ![b] = IF Renews(calls[s]) THEN calls[s].made ELSE cookie[b]]
      BY <1>2, <1>5 DEF Deliver, CookieAfter, Renews
    <2>3. ~Renews(calls[s]) => cookie' = cookie
      BY <1>3, <2>2
    <2> QED
      BY <1>1, <1>2, <2>1, <2>2, <2>3 DEF Answered
  <1>6. CASE LoseReply(s)
    <2>1. missed' = [missed EXCEPT ![b] = @ \/ calls[s].made # 0 \/ calls[s].op = "logout"]
      BY <1>6 DEF LoseReply
    <2>2. missed' \in [Browsers -> BOOLEAN] /\ \A a \in Browsers : missed[a] => missed'[a]
      BY <1>3, <2>1
    <2>3. Renews(calls[s]) => missed'[b]
      BY <1>1, <1>3, <2>1 DEF Renews
    <2> QED
      BY <1>1, <1>2, <1>6, <2>2, <2>3 DEF Answered, LoseReply
  <1> QED
    BY <1>5, <1>6

-----------------------------------------------------------------------------
LEMMA InitialJar == BInit => Jar
  <1> SUFFICES ASSUME BInit PROVE Jar
    OBVIOUS
  <1>1. /\ tokens = << >> /\ \A s \in Slots : calls[s] = Idle
        /\ jar = [s \in Slots |-> Nobody] /\ cookie = [b \in Browsers |-> 0]
        /\ missed = [b \in Browsers |-> FALSE] /\ browserOf \in [Tabs -> Browsers]
    BY DEF BInit, Init
  <1>2. Idle.at = "idle" /\ Idle.op = "none" /\ Idle.made = 0 /\ Presented(Idle) = 0 /\ Placed(Idle)
    BY DEF Idle, Presented, Placed, AdminOps
  <1>3. Handlers
    BY <1>1, <1>2 DEF Handlers, Known
  <1>4. JarRows
    BY <1>1 DEF JarRows, Known
  <1>5. Mine /\ Undelivered /\ \A b \in Browsers : Works(b)
    BY <1>1, <1>2 DEF Mine, Undelivered, Works
  <1> QED
    BY <1>3, <1>4, <1>5 DEF Jar

LEMMA JarSame ==
    ASSUME Jar, UNCHANGED <<calls, tokens, sweeps, browserOf, cookie, jar, missed, pulled>>
    PROVE  Jar'
  BY DEF Jar, Handlers, JarRows, Mine, Undelivered, Unused, Works, Fine, Live, Known, Renews, Presented, Placed

LEMMA JarStep == SessionsTypeOK /\ Jar /\ [BNext]_vars => Jar'
  <1> SUFFICES ASSUME SessionsTypeOK, Jar, [BNext]_vars PROVE Jar'
    OBVIOUS
  <1>0. calls \in [Slots -> CallType] /\ tokens \in Seq(TokenType)
    BY DEF SessionsTypeOK
  <1>1. ASSUME NEW s \in Slots, NEW t \in Tabs, UseTab(s, t) PROVE Jar'
    BY <1>0, <1>1, TabsKeep, StartedKeeps, JarSame
  <1>2. ASSUME NEW t \in Tabs, RefreshWithoutCookie(t) PROVE Jar'
    BY <1>2, JarSame DEF RefreshWithoutCookie, sessionVars
  <1>3. ASSUME NEW s \in Slots, Serve(s) PROVE Jar'
    <2>1. UNCHANGED clientVars /\ UNCHANGED pulled /\ (Step(s) \/ Abandon(s))
      BY <1>3 DEF Serve, clientVars
    <2> QED
      BY <1>0, <2>1, ServeHandled, HandledKeeps
  <1>4. ASSUME NEW s \in Slots, Supervise(s) PROVE Jar'
    BY <1>0, <1>4, AdministratorsStart, StartedKeeps
  <1>5. ASSUME NEW s \in Slots, Deliver(s) \/ LoseReply(s) PROVE Jar'
    BY <1>0, <1>5, RepliesAnswer, AnsweredKeeps
  <1>6. CASE UNCHANGED vars
    BY <1>6, JarSame DEF vars, sessionVars, clientVars
  <1> QED
    BY <1>1, <1>2, <1>3, <1>4, <1>5, <1>6 DEF BNext

(* A browser that missed no reply, and waits for none, has a cookie that is *)
(* live, or that the server revoked on its own account, in whatever order   *)
(* the replies to its tabs came (auth.controller.ts, httpClient.ts).        *)
THEOREM CookieIsLiveHolds == BSpec => []CookieIsLive
  <1>1. Jar => CookieIsLive
    BY DEF Jar, Works, Fine, CookieIsLive
  <1> QED
    BY <1>1, InitialJar, JarStep, TabsAreCallers, SessionsTypeCorrect, PTL DEF BSpec
=============================================================================
