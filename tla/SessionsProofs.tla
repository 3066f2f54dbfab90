--------------------------- MODULE SessionsProofs ---------------------------
(* Proofs about Sessions, for any number of requests and tokens. *)
EXTENDS Sessions, SequenceTheorems, TLAPS

-----------------------------------------------------------------------------
(* Well-typedness. *)

LEMMA IdleType == Idle \in CallType /\ Idle.at = "idle" /\ Idle.op = "none"
  BY DEF Idle, CallType, Ops, AdminOps, Steps

\* What a handler refers to exists.
Refers(c, ts, cs) ==
    /\ c.at \in {"rotate", "revoke"} \/ (c.op = "refresh" /\ c.at = "read")
          => c.token \in DOMAIN ts
    /\ c.at = "consume" => c.code \in DOMAIN cs

\* A request that starts, with a record of its own.
LEMMA BeginType ==
    ASSUME SessionsTypeOK, NEW s \in Slots, NEW c \in CallType,
           Refers(c, tokens, codes), Begin(s, c)
    PROVE  SessionsTypeOK'
  BY DEF SessionsTypeOK, Begin, Refers, At

LEMMA SeqElement ==
    ASSUME NEW S, NEW q \in Seq(S), NEW i \in DOMAIN q
    PROVE  q[i] \in S
  OBVIOUS

LEMMA TokensTyped ==
    ASSUME tokens \in Seq(TokenType)
    PROVE  /\ DOMAIN tokens = 1 .. Len(tokens) /\ Len(tokens) \in Nat
           /\ \A i \in DOMAIN tokens : tokens[i] \in TokenType
  OBVIOUS

LEMMA RevokedType ==
    ASSUME tokens \in Seq(TokenType)
    PROVE  /\ AllRevoked \in Seq(TokenType)
           /\ DOMAIN AllRevoked = DOMAIN tokens
           /\ Len(AllRevoked) = Len(tokens)
           /\ \A i \in DOMAIN tokens :
                /\ AllRevoked[i] = [tokens[i] EXCEPT !.revoked = TRUE]
                /\ AllRevoked[i].revoked
  <1>1. \A i \in DOMAIN tokens : tokens[i] \in TokenType
    BY TokensTyped
  <1>2. \A i \in DOMAIN tokens : /\ [tokens[i] EXCEPT !.revoked = TRUE] \in TokenType
                                 /\ [tokens[i] EXCEPT !.revoked = TRUE].revoked
    BY <1>1 DEF TokenType
  <1>3. AllRevoked \in [1 .. Len(tokens) -> TokenType]
    BY <1>2, TokensTyped DEF AllRevoked
  <1>4. AllRevoked \in Seq(TokenType) /\ Len(AllRevoked) = Len(tokens)
    BY <1>3, TokensTyped
  <1> QED
    BY <1>2, <1>3, <1>4, TokensTyped DEF AllRevoked

LEMMA OneRevokedType ==
    ASSUME tokens \in Seq(TokenType), NEW t \in DOMAIN tokens
    PROVE  /\ Revoked(t) \in Seq(TokenType)
           /\ DOMAIN Revoked(t) = DOMAIN tokens
           /\ Len(Revoked(t)) = Len(tokens)
           /\ Revoked(t)[t] = [tokens[t] EXCEPT !.revoked = TRUE]
           /\ Revoked(t)[t].revoked
           /\ \A i \in DOMAIN tokens : i # t => Revoked(t)[i] = tokens[i]
  <1>1. tokens[t] \in TokenType
    BY TokensTyped
  <1>2. [tokens[t] EXCEPT !.revoked = TRUE] \in TokenType /\ [tokens[t] EXCEPT !.revoked = TRUE].revoked
    BY <1>1 DEF TokenType
  <1> DEFINE x == [tokens[t] EXCEPT !.revoked = TRUE]
  <1>3. Revoked(t) = [tokens EXCEPT ![t] = x]
    BY DEF Revoked
  <1> HIDE DEF x
  <1>4. Revoked(t) \in [1 .. Len(tokens) -> TokenType]
    BY <1>2, <1>3, TokensTyped DEF x
  <1>5. Revoked(t) \in Seq(TokenType) /\ Len(Revoked(t)) = Len(tokens)
    BY <1>4, TokensTyped
  <1>6. Revoked(t)[t] = x /\ \A i \in DOMAIN tokens : i # t => Revoked(t)[i] = tokens[i]
    BY <1>3
  <1> QED
    BY <1>2, <1>4, <1>5, <1>6, TokensTyped DEF x

\* The tables, apart from the handlers.
TablesOK ==
    /\ user \in [status : {"ACTIVE", "SUSPENDED"}, password : Nat]
    /\ mfa \in Methods
    /\ tokens \in Seq(TokenType)
    /\ codes \in Seq([consumed : BOOLEAN])
    /\ pendings \in Seq([cred : Nat, seen : Nat])
    /\ started \in Nat /\ sweeps \in Nat /\ lost \in BOOLEAN

\* One handler takes a step, and what it leaves has its shape.
LEMMA StepType ==
    ASSUME SessionsTypeOK, NEW s \in Slots, NEW c \in CallType,
           calls' = [calls EXCEPT ![s] = c], Refers(c, tokens', codes'),
           TablesOK', Len(tokens) =< Len(tokens'), Len(codes) =< Len(codes')
    PROVE  SessionsTypeOK'
  <1>1. DOMAIN tokens \subseteq DOMAIN tokens' /\ DOMAIN codes \subseteq DOMAIN codes'
    BY DEF SessionsTypeOK, TablesOK
  <1>2. calls' \in [Slots -> CallType]
    BY DEF SessionsTypeOK
  <1>3. ASSUME NEW r \in Slots PROVE Refers(calls'[r], tokens', codes')
    <2>1. CASE r = s
      BY <2>1 DEF SessionsTypeOK
    <2>2. CASE r # s
      BY <2>2, <1>1 DEF SessionsTypeOK, Refers, At
    <2> QED
      BY <2>1, <2>2
  <1> QED
    BY <1>2, <1>3 DEF SessionsTypeOK, TablesOK, Refers, At

LEMMA ReplyType ==
    ASSUME SessionsTypeOK, NEW s \in Slots, NEW ok \in BOOLEAN, NEW token \in Nat,
           NEW made \in Nat, Reply(s, ok, token, made)
    PROVE  \E c \in CallType :
             /\ calls' = [calls EXCEPT ![s] = c]
             /\ c.at \in {"idle", "reply"}
  <1>1. CASE calls[s].op \in AdminOps
    BY <1>1, IdleType DEF Reply
  <1>2. CASE calls[s].op \notin AdminOps
    <2> DEFINE c == [Idle EXCEPT !.op = calls[s].op, !.at = "reply", !.ok = ok,
                                 !.token = token, !.made = made]
    <2>1. calls' = [calls EXCEPT ![s] = c]
      BY <1>2 DEF Reply
    <2>2. calls[s].op \in Ops
      BY DEF SessionsTypeOK, CallType
    <2>3. c \in CallType /\ c.at = "reply"
      BY <2>2 DEF Idle, CallType, Steps
    <2> QED
      BY <2>1, <2>3
  <1> QED
    BY <1>1, <1>2

\* A handler that replies, whatever else it wrote.
LEMMA ReplyStepType ==
    ASSUME SessionsTypeOK, NEW s \in Slots, NEW ok \in BOOLEAN, NEW token \in Nat,
           NEW made \in Nat, Reply(s, ok, token, made),
           TablesOK', Len(tokens) =< Len(tokens'), Len(codes) =< Len(codes')
    PROVE  SessionsTypeOK'
  <1>1. PICK c \in CallType : /\ calls' = [calls EXCEPT ![s] = c]
                              /\ c.at \in {"idle", "reply"}
    BY ReplyType
  <1>2. c.at \notin {"rotate", "revoke", "read", "consume"}
    BY <1>1
  <1> QED
    BY <1>1, <1>2, StepType DEF Refers

LEMMA AskType ==
    ASSUME SessionsTypeOK, NEW s \in Slots, Ask(s)
    PROVE  SessionsTypeOK'
  <1>0. user.password \in Nat /\ \A p \in 1 .. user.password : p \in Nat
    BY DEF SessionsTypeOK
  <1>1. ASSUME NEW p \in 1 .. user.password, Login(s, p) PROVE SessionsTypeOK'
    <2>1. Request("login", "read", 0, p) \in CallType
          /\ Refers(Request("login", "read", 0, p), tokens, codes)
      BY <1>0 DEF Refers, Request, Idle, CallType, Ops, AdminOps, Steps
    <2> QED
      BY <1>1, <2>1, BeginType DEF Login
  <1>2. ASSUME NEW i \in DOMAIN pendings, NEW k \in 0 .. Len(codes), VerifyMfa(s, i, k)
        PROVE SessionsTypeOK'
    <2> DEFINE c == [Request("verify", "read", 0, pendings[i].cred)
                       EXCEPT !.seen = pendings[i].seen, !.code = k]
    <2>0. k \in Nat
      BY DEF SessionsTypeOK
    <2>1. pendings[i].cred \in Nat /\ pendings[i].seen \in Nat
      <3>1. pendings \in Seq([cred : Nat, seen : Nat])
        BY DEF SessionsTypeOK
      <3>2. pendings[i] \in [cred : Nat, seen : Nat]
        BY <3>1, SeqElement
      <3> QED
        BY <3>2
    <2>2. Request("verify", "read", 0, pendings[i].cred) \in CallType
          /\ Request("verify", "read", 0, pendings[i].cred).op = "verify"
          /\ Request("verify", "read", 0, pendings[i].cred).at = "read"
      BY <2>1 DEF Request, Idle, CallType, Ops, AdminOps, Steps
    <2>3. c \in CallType /\ Refers(c, tokens, codes)
      BY <2>0, <2>1, <2>2 DEF CallType, Refers
    <2> QED
      BY <1>2, <2>3, BeginType DEF VerifyMfa
  <1>3. ASSUME NEW t \in DOMAIN tokens, Refresh(s, t) PROVE SessionsTypeOK'
    <2>1. t \in Nat
      BY TokensTyped DEF SessionsTypeOK
    <2>2. Request("refresh", "read", t, 0) \in CallType
          /\ Refers(Request("refresh", "read", t, 0), tokens, codes)
      BY <2>1 DEF Refers, Request, Idle, CallType, Ops, AdminOps, Steps
    <2> QED
      BY <1>3, <2>2, BeginType DEF Refresh
  <1>4. ASSUME NEW t \in DOMAIN tokens \cup {0}, Logout(s, t) PROVE SessionsTypeOK'
    <2> DEFINE at == IF t = 0 THEN "reply" ELSE "revoke"
    <2> DEFINE c == [Request("logout", at, t, 0) EXCEPT !.ok = (t = 0)]
    <2>1. t \in Nat /\ at \in Steps /\ "logout" \in Ops
      BY TokensTyped DEF SessionsTypeOK, Ops, Steps
    <2>2. /\ Request("logout", at, t, 0) \in CallType
          /\ Request("logout", at, t, 0).op = "logout"
          /\ Request("logout", at, t, 0).at = at
          /\ Request("logout", at, t, 0).token = t
      BY <2>1 DEF Request, Idle, CallType
    <2>3. c \in CallType
      BY <2>2 DEF CallType
    <2>4. c.op = "logout" /\ c.at = at /\ c.token = t
      BY <2>2 DEF CallType
    <2>5. Refers(c, tokens, codes)
      BY <2>4 DEF Refers
    <2> QED
      BY <1>4, <2>3, <2>5, BeginType DEF Logout
  <1>5. ASSUME NEW t \in DOMAIN tokens, NEW p \in 1 .. user.password, ChangePassword(s, t, p)
        PROVE SessionsTypeOK'
    <2> DEFINE c == [Request("change", "read", t, p)
                       EXCEPT !.seen = tokens[t].born, !.crossed = tokens[t].crossed]
    <2>1. t \in Nat /\ tokens[t] \in TokenType
      BY TokensTyped DEF SessionsTypeOK
    <2>2. tokens[t].born \in Nat /\ tokens[t].crossed \in BOOLEAN
      BY <2>1 DEF TokenType
    <2>3. Request("change", "read", t, p) \in CallType
          /\ Request("change", "read", t, p).op = "change"
          /\ Request("change", "read", t, p).at = "read"
      BY <2>1, <1>0 DEF Request, Idle, CallType, Ops, AdminOps, Steps
    <2>4. c \in CallType /\ Refers(c, tokens, codes)
      BY <2>2, <2>3 DEF CallType, Refers
    <2> QED
      BY <1>5, <2>4, BeginType DEF ChangePassword
  <1> QED
    BY <1>1, <1>2, <1>3, <1>4, <1>5 DEF Ask

LEMMA AdministerType ==
    ASSUME SessionsTypeOK, NEW s \in Slots, Administer(s)
    PROVE  SessionsTypeOK'
  <1>1. ASSUME NEW op \in {"suspend", "reactivate"}, SetAgentStatus(s, op)
        PROVE SessionsTypeOK'
    <2>1. /\ Request(op, "update", 0, 0) \in CallType
          /\ Request(op, "update", 0, 0).at = "update"
          /\ Request(op, "update", 0, 0).op = op
          /\ Request(op, "update", 0, 0).token = 0
      BY DEF Request, Idle, CallType, Ops, AdminOps, Steps
    <2> QED
      BY <1>1, <2>1, BeginType DEF Refers, SetAgentStatus
  <1>2. ASSUME ResetAgentPassword(s) PROVE SessionsTypeOK'
    <2>1. /\ Request("reset", "update", 0, 0) \in CallType
          /\ Request("reset", "update", 0, 0).at = "update"
          /\ Request("reset", "update", 0, 0).op = "reset"
          /\ Request("reset", "update", 0, 0).token = 0
      BY DEF Request, Idle, CallType, Ops, AdminOps, Steps
    <2> QED
      BY <1>2, <2>1, BeginType DEF Refers, ResetAgentPassword
  <1>3. ASSUME ForceLogout(s) PROVE SessionsTypeOK'
    <2>1. /\ Request("force", "sweep", 0, 0) \in CallType
          /\ Request("force", "sweep", 0, 0).at = "sweep"
          /\ Request("force", "sweep", 0, 0).op = "force"
          /\ Request("force", "sweep", 0, 0).token = 0
      BY DEF Request, Idle, CallType, Ops, AdminOps, Steps
    <2> QED
      BY <1>3, <2>1, BeginType DEF Refers, ForceLogout
  <1>4. ASSUME NEW t \in DOMAIN tokens, RevokeSession(s, t) PROVE SessionsTypeOK'
    <2>1. t \in Nat
      BY TokensTyped DEF SessionsTypeOK
    <2>2. /\ Request("revoke", "revoke", t, 0) \in CallType
          /\ Request("revoke", "revoke", t, 0).at = "revoke"
          /\ Request("revoke", "revoke", t, 0).op = "revoke"
          /\ Request("revoke", "revoke", t, 0).token = t
      BY <2>1 DEF Request, Idle, CallType, Ops, AdminOps, Steps
    <2> QED
      BY <1>4, <2>2, BeginType DEF Refers, RevokeSession
  <1> QED
    BY <1>1, <1>2, <1>3, <1>4 DEF Administer

LEMMA AppendType ==
    ASSUME NEW ts \in Seq(TokenType), Len(ts) = Len(tokens), NEW x \in TokenType
    PROVE  /\ Append(ts, x) \in Seq(TokenType)
           /\ Len(Append(ts, x)) = Len(tokens) + 1
           /\ DOMAIN Append(ts, x) = DOMAIN ts \cup {Len(tokens) + 1}
           /\ \A i \in DOMAIN ts : Append(ts, x)[i] = ts[i]
           /\ Append(ts, x)[Len(tokens) + 1] = x
           /\ Len(tokens) + 1 \notin DOMAIN ts
  OBVIOUS

LEMMA TokenFields ==
    ASSUME NEW parent \in Nat, NEW branch \in Nat, NEW born \in Nat, NEW cred \in Nat,
           NEW crossed \in BOOLEAN, NEW code \in Nat, NEW twice \in BOOLEAN
    PROVE  Token(parent, branch, born, cred, crossed, code, twice) \in TokenType
  BY DEF Token, TokenType

\* A handler that goes on to its next step and writes no table.
LEMMA QuietType ==
    ASSUME SessionsTypeOK, NEW s \in Slots, NEW c \in CallType,
           calls' = [calls EXCEPT ![s] = c], Refers(c, tokens, codes),
           UNCHANGED <<user, mfa, tokens, codes, pendings, started, sweeps, lost>>
    PROVE  SessionsTypeOK'
  BY DEF SessionsTypeOK, Refers, At

LEMMA UserTyped ==
    ASSUME SessionsTypeOK
    PROVE  /\ user.password \in Nat /\ sweeps \in Nat /\ lost \in BOOLEAN
           /\ \A S \in {"ACTIVE", "SUSPENDED"} :
                [user EXCEPT !.status = S] \in [status : {"ACTIVE", "SUSPENDED"}, password : Nat]
           /\ [user EXCEPT !.password = @ + 1]
                \in [status : {"ACTIVE", "SUSPENDED"}, password : Nat]
  BY DEF SessionsTypeOK

\* The fields of the handler that takes a step.
LEMMA CallTyped ==
    ASSUME SessionsTypeOK, NEW s \in Slots
    PROVE  /\ calls[s] \in CallType
           /\ calls[s].cred \in Nat /\ calls[s].seen \in Nat
           /\ calls[s].token \in Nat /\ calls[s].code \in Nat
           /\ calls[s].crossed \in BOOLEAN /\ calls[s].twice \in BOOLEAN
           /\ Refers(calls[s], tokens, codes)
  BY DEF SessionsTypeOK, CallType, Refers, At

LEMMA GotoType ==
    ASSUME SessionsTypeOK, NEW s \in Slots, NEW at \in Steps
    PROVE  /\ [calls[s] EXCEPT !.at = at] \in CallType
           /\ \A n \in Nat : [calls[s] EXCEPT !.at = at, !.seen = n] \in CallType
           /\ \A n \in Nat : [calls[s] EXCEPT !.at = at, !.cred = n] \in CallType
           /\ \A b \in BOOLEAN : [calls[s] EXCEPT !.at = at, !.twice = b] \in CallType
  BY CallTyped DEF CallType

LEMMA QuietReplyType ==
    ASSUME SessionsTypeOK, NEW s \in Slots, NEW ok \in BOOLEAN, Reply(s, ok, 0, 0),
           UNCHANGED <<user, mfa, tokens, codes, pendings, started, sweeps, lost>>
    PROVE  SessionsTypeOK'
  <1>1. PICK c \in CallType : /\ calls' = [calls EXCEPT ![s] = c]
                              /\ c.at \in {"idle", "reply"}
    BY ReplyType
  <1> QED
    BY <1>1, QuietType DEF Refers

LEMMA TypeOfRefuse == ASSUME SessionsTypeOK, NEW s \in Slots, Refuse(s) PROVE SessionsTypeOK'
  BY QuietReplyType DEF Refuse

LEMMA TypeOfLoginRead ==
    ASSUME SessionsTypeOK, NEW s \in Slots, LoginRead(s) PROVE SessionsTypeOK'
  <1> DEFINE c == [calls[s] EXCEPT !.at = AfterPassword, !.seen = sweeps]
  <1>1. AfterPassword \in Steps /\ AfterPassword \notin {"rotate", "revoke", "read", "consume"}
    BY DEF AfterPassword, Steps
  <1>2. c \in CallType /\ c.at = AfterPassword
    <2>1. c \in CallType
      BY <1>1, UserTyped, GotoType
    <2>2. c.at = AfterPassword
      BY CallTyped DEF CallType
    <2> QED
      BY <2>1, <2>2
  <1>3. calls' = [calls EXCEPT ![s] = c]
    BY DEF LoginRead
  <1> QED
    BY <1>1, <1>2, <1>3, QuietType DEF LoginRead, Refers

LEMMA TypeOfChallenge ==
    ASSUME SessionsTypeOK, NEW s \in Slots, Challenge(s) PROVE SessionsTypeOK'
  <1> DEFINE C == [consumed : BOOLEAN]
             P == [cred : Nat, seen : Nat]
             p == [cred |-> calls[s].cred, seen |-> calls[s].seen]
  <1>1. [consumed |-> FALSE] \in C /\ p \in P
    BY CallTyped
  <1>2. codes \in Seq(C) /\ pendings \in Seq(P)
    BY DEF SessionsTypeOK
  <1>3. pendings' = Append(pendings, p) /\ codes' \in {codes, Append(codes, [consumed |-> FALSE])}
    BY DEF Challenge
  <1> HIDE DEF C, P, p
  <1>4. pendings' \in Seq(P) /\ Len(pendings) + 1 \in Nat
    BY <1>1, <1>2, <1>3
  <1>5. codes' \in Seq(C) /\ Len(codes) =< Len(codes')
    <2>1. CASE codes' = codes
      BY <2>1, <1>2
    <2>2. CASE codes' = Append(codes, [consumed |-> FALSE])
      <3>1. Append(codes, [consumed |-> FALSE]) \in Seq(C)
        BY <1>1, <1>2, AppendProperties
      <3>2. Len(Append(codes, [consumed |-> FALSE])) = Len(codes) + 1 /\ Len(codes) \in Nat
        BY <1>1, <1>2, AppendProperties
      <3> QED
        BY <2>2, <3>1, <3>2
    <2> QED
      BY <1>3, <2>1, <2>2
  <1>6. /\ Reply(s, TRUE, Len(pendings) + 1, 0)
        /\ UNCHANGED <<user, mfa, tokens, started, sweeps, lost>>
    BY DEF Challenge
  <1>7. TablesOK' /\ Len(tokens) =< Len(tokens')
    BY <1>4, <1>5, <1>6 DEF SessionsTypeOK, TablesOK, C, P
  <1> QED
    BY <1>4, <1>5, <1>6, <1>7, ReplyStepType

LEMMA TypeOfVerifyRead ==
    ASSUME SessionsTypeOK, NEW s \in Slots, VerifyRead(s) PROVE SessionsTypeOK'
  <1> DEFINE at == IF mfa = "EMAIL" THEN "consume" ELSE "issue"
             c == [calls[s] EXCEPT !.at = at]
  <1>1. at \in Steps /\ at \in {"consume", "issue"}
    BY DEF Steps
  <1>2. c \in CallType /\ c.at = at /\ c.code = calls[s].code
    <2>1. c \in CallType
      BY <1>1, GotoType
    <2>2. c.at = at /\ c.code = calls[s].code
      BY CallTyped DEF CallType
    <2> QED
      BY <2>1, <2>2
  <1>3. calls' = [calls EXCEPT ![s] = c]
    BY DEF VerifyRead, Goto
  <1>4. at = "consume" => calls[s].code \in DOMAIN codes
    BY DEF VerifyRead, IsCandidate
  <1>5. Refers(c, tokens, codes)
    BY <1>1, <1>2, <1>4 DEF Refers
  <1> QED
    BY <1>2, <1>3, <1>5, QuietType DEF VerifyRead

LEMMA ConsumedType ==
    ASSUME codes \in Seq([consumed : BOOLEAN]), NEW k \in DOMAIN codes
    PROVE  /\ Consumed(k) \in Seq([consumed : BOOLEAN])
           /\ Len(Consumed(k)) = Len(codes) /\ DOMAIN Consumed(k) = DOMAIN codes
           /\ Consumed(k)[k].consumed
           /\ \A i \in DOMAIN codes : codes[i].consumed => Consumed(k)[i].consumed
           /\ codes[k].consumed \in BOOLEAN
  <1> DEFINE C == [consumed : BOOLEAN]
             x == [codes[k] EXCEPT !.consumed = TRUE]
  <1>0. codes \in Seq(C)
    OBVIOUS
  <1> HIDE DEF C
  <1>1. codes[k] \in C
    BY <1>0, SeqElement
  <1>2. x \in C /\ x.consumed /\ codes[k].consumed \in BOOLEAN
    BY <1>1 DEF C
  <1>3. Consumed(k) = [codes EXCEPT ![k] = x]
    BY DEF Consumed
  <1> HIDE DEF x
  <1>4. Consumed(k) \in [1 .. Len(codes) -> C]
    BY <1>0, <1>2, <1>3
  <1>5. Consumed(k) \in Seq(C) /\ Len(Consumed(k)) = Len(codes)
    BY <1>0, <1>4
  <1>6. Consumed(k)[k] = x /\ \A i \in DOMAIN codes : i # k => Consumed(k)[i] = codes[i]
    BY <1>3
  <1> QED
    BY <1>0, <1>2, <1>4, <1>5, <1>6 DEF C

LEMMA TypeOfConsume ==
    ASSUME SessionsTypeOK, NEW s \in Slots, ConsumeOtpCode(s) PROVE SessionsTypeOK'
  <1> DEFINE k == calls[s].code
             c == [calls[s] EXCEPT !.at = "issue", !.twice = codes[k].consumed]
  <1>1. k \in DOMAIN codes
    BY CallTyped DEF ConsumeOtpCode, Refers
  <1>2. /\ codes' \in Seq([consumed : BOOLEAN]) /\ Len(codes') = Len(codes)
        /\ codes[k].consumed \in BOOLEAN
    BY <1>1, ConsumedType DEF ConsumeOtpCode, SessionsTypeOK
  <1>3. c \in CallType /\ c.at = "issue"
    BY <1>2, CallTyped DEF CallType, Steps
  <1>4. calls' = [calls EXCEPT ![s] = c]
    BY DEF ConsumeOtpCode
  <1>5. Len(codes) \in Nat /\ Len(tokens) \in Nat
    BY DEF SessionsTypeOK
  <1> HIDE DEF c, k
  <1>6. Refers(c, tokens', codes')
    BY <1>3 DEF Refers
  <1>7. UNCHANGED <<user, mfa, tokens, pendings, started, sweeps, lost>>
    BY DEF ConsumeOtpCode
  <1>8. TablesOK' /\ Len(tokens) =< Len(tokens')
    BY <1>2, <1>7 DEF SessionsTypeOK, TablesOK
  <1>9. Len(codes) =< Len(codes')
    BY <1>2, <1>5
  <1> QED
    BY <1>3, <1>4, <1>6, <1>8, <1>9, StepType

LEMMA TypeOfIssue ==
    ASSUME SessionsTypeOK, NEW s \in Slots, IssueRefreshToken(s) PROVE SessionsTypeOK'
  <1> DEFINE n == Len(tokens) + 1
             x == Token(0, n, sweeps, calls[s].cred,
                        calls[s].crossed \/ calls[s].seen # sweeps, calls[s].code, calls[s].twice)
  <1>1. n \in Nat /\ Len(tokens) \in Nat /\ tokens \in Seq(TokenType)
    BY DEF SessionsTypeOK
  <1>2. x \in TokenType
    BY <1>1, CallTyped, UserTyped, TokenFields
  <1>3. tokens' = Append(tokens, x)
    BY DEF IssueRefreshToken
  <1>4. Reply(s, TRUE, 0, n) /\ UNCHANGED <<user, mfa, codes, pendings, started, sweeps, lost>>
    BY DEF IssueRefreshToken
  <1> HIDE DEF x
  <1>5. tokens' \in Seq(TokenType) /\ Len(tokens') = n
    BY <1>1, <1>2, <1>3, AppendType
  <1>6. TablesOK' /\ Len(codes) =< Len(codes')
    BY <1>4, <1>5 DEF SessionsTypeOK, TablesOK
  <1>7. Len(tokens) =< Len(tokens')
    BY <1>1, <1>5
  <1> HIDE DEF n
  <1> QED
    BY <1>1, <1>4, <1>6, <1>7, ReplyStepType

LEMMA TypeOfRefreshRead ==
    ASSUME SessionsTypeOK, NEW s \in Slots, RefreshRead(s) PROVE SessionsTypeOK'
  <1> DEFINE at == IF tokens[calls[s].token].revoked THEN "alarm" ELSE "rotate"
             c == [calls[s] EXCEPT !.at = at, !.seen = sweeps]
  <1>1. at \in Steps /\ at \in {"alarm", "rotate"}
    BY DEF Steps
  <1>2. c \in CallType /\ c.at = at /\ c.token = calls[s].token
    <2>1. c \in CallType
      BY <1>1, UserTyped, GotoType
    <2>2. c.at = at /\ c.token = calls[s].token
      BY CallTyped DEF CallType
    <2> QED
      BY <2>1, <2>2
  <1>3. calls' = [calls EXCEPT ![s] = c]
    BY DEF RefreshRead
  <1>4. calls[s].token \in DOMAIN tokens
    BY CallTyped DEF RefreshRead, Refers, At
  <1>5. Refers(c, tokens, codes)
    BY <1>1, <1>2, <1>4 DEF Refers
  <1> QED
    BY <1>2, <1>3, <1>5, QuietType DEF RefreshRead

\* The token a rotation makes, and the rows after it.
LEMMA RotateRows ==
    ASSUME SessionsTypeOK, NEW s \in Slots, Rotate(s)
    PROVE  /\ calls[s].token \in DOMAIN tokens
           /\ \E x \in TokenType :
                /\ tokens' = Append(Revoked(calls[s].token), x)
                /\ x.parent = calls[s].token /\ x.born = sweeps /\ ~x.revoked
                /\ x.cred = tokens[calls[s].token].cred
                /\ x.crossed = (tokens[calls[s].token].crossed \/ calls[s].seen # sweeps)
                /\ x.branch = IF tokens[calls[s].token].revoked THEN Len(tokens) + 1
                              ELSE tokens[calls[s].token].branch
  <1> DEFINE t == calls[s].token
             old == tokens[t]
             b == IF old.revoked THEN Len(tokens) + 1 ELSE old.branch
             d == old.crossed \/ calls[s].seen # sweeps
             x == Token(t, b, sweeps, old.cred, d, old.code, old.twice)
  <1>1. t \in DOMAIN tokens
    BY CallTyped DEF Rotate, Refers
  <1>2. tokens \in Seq(TokenType) /\ Len(tokens) + 1 \in Nat /\ t \in Nat /\ sweeps \in Nat
    BY CallTyped DEF SessionsTypeOK
  <1>3. old \in TokenType
    BY <1>1, <1>2, TokensTyped
  <1>4. /\ old.branch \in Nat /\ old.cred \in Nat /\ old.crossed \in BOOLEAN
        /\ old.code \in Nat /\ old.twice \in BOOLEAN
    BY <1>3 DEF TokenType
  <1>5. b \in Nat /\ d \in BOOLEAN
    BY <1>2, <1>4
  <1>6. tokens' = Append(Revoked(t), x)
    BY DEF Rotate
  <1>7. x \in TokenType
    <2> HIDE DEF t, old, b, d
    <2> QED
      BY <1>2, <1>4, <1>5, TokenFields
  <1>8. x.parent = t /\ x.born = sweeps /\ ~x.revoked /\ x.cred = old.cred /\ x.crossed = d /\ x.branch = b
    BY DEF Token
  <1> HIDE DEF x
  <1> QED
    BY <1>1, <1>6, <1>7, <1>8

LEMMA TypeOfRotate ==
    ASSUME SessionsTypeOK, NEW s \in Slots, Rotate(s) PROVE SessionsTypeOK'
  <1>1. PICK x \in TokenType : tokens' = Append(Revoked(calls[s].token), x)
    BY RotateRows
  <1>2. calls[s].token \in DOMAIN tokens
    BY RotateRows
  <1>3. tokens \in Seq(TokenType) /\ Len(tokens) \in Nat
    BY DEF SessionsTypeOK
  <1>4. Revoked(calls[s].token) \in Seq(TokenType) /\ Len(Revoked(calls[s].token)) = Len(tokens)
    BY <1>2, <1>3, OneRevokedType
  <1>5. tokens' \in Seq(TokenType) /\ Len(tokens') = Len(tokens) + 1
    BY <1>1, <1>4, AppendType
  <1>6. /\ Reply(s, TRUE, 0, Len(tokens) + 1)
        /\ UNCHANGED <<user, mfa, codes, pendings, started, sweeps, lost>>
    BY DEF Rotate
  <1>7. TablesOK' /\ Len(codes) =< Len(codes')
    BY <1>5, <1>6 DEF SessionsTypeOK, TablesOK
  <1>8. Len(tokens) =< Len(tokens') /\ Len(tokens) + 1 \in Nat
    BY <1>3, <1>5
  <1> QED
    BY <1>6, <1>7, <1>8, ReplyStepType

\* All tokens are revoked, and the handler goes on or replies.
LEMMA SweepTables ==
    ASSUME SessionsTypeOK, tokens' = AllRevoked, sweeps' = sweeps + 1, lost' \in BOOLEAN,
           UNCHANGED <<user, mfa, codes, pendings, started>>
    PROVE  TablesOK' /\ Len(tokens) =< Len(tokens') /\ Len(codes) =< Len(codes')
  <1>1. tokens' \in Seq(TokenType) /\ Len(tokens') = Len(tokens) /\ Len(tokens) \in Nat
    BY RevokedType DEF SessionsTypeOK
  <1> QED
    BY <1>1 DEF SessionsTypeOK, TablesOK

LEMMA TypeOfDetectReuse ==
    ASSUME SessionsTypeOK, NEW s \in Slots, DetectReuse(s) PROVE SessionsTypeOK'
  BY SweepTables, ReplyStepType DEF DetectReuse

LEMMA TypeOfRevoke ==
    ASSUME SessionsTypeOK, NEW s \in Slots, RevokeRefreshToken(s) PROVE SessionsTypeOK'
  <1>1. calls[s].token \in DOMAIN tokens
    BY CallTyped DEF RevokeRefreshToken, Refers
  <1>2. tokens \in Seq(TokenType) /\ Len(tokens) \in Nat
    BY DEF SessionsTypeOK
  <1>3. tokens' = Revoked(calls[s].token)
    BY DEF RevokeRefreshToken
  <1>4. tokens' \in Seq(TokenType) /\ Len(tokens') = Len(tokens)
    BY <1>1, <1>2, <1>3, OneRevokedType
  <1>5. TablesOK' /\ Len(codes) =< Len(codes')
    BY <1>4 DEF RevokeRefreshToken, SessionsTypeOK, TablesOK
  <1>6. Len(tokens) =< Len(tokens')
    BY <1>2, <1>4
  <1> QED
    BY <1>5, <1>6, ReplyStepType DEF RevokeRefreshToken

LEMMA TypeOfChangeRead ==
    ASSUME SessionsTypeOK, NEW s \in Slots, ChangeRead(s) PROVE SessionsTypeOK'
  <1> DEFINE c == [calls[s] EXCEPT !.at = "update"]
  <1>1. c \in CallType /\ c.at = "update"
    BY CallTyped DEF CallType, Steps
  <1>2. calls' = [calls EXCEPT ![s] = c]
    BY DEF ChangeRead, Goto
  <1> HIDE DEF c
  <1> QED
    BY <1>1, <1>2, QuietType DEF ChangeRead, Refers

LEMMA TypeOfChangeUpdate ==
    ASSUME SessionsTypeOK, NEW s \in Slots, ChangeUpdate(s) PROVE SessionsTypeOK'
  <1> DEFINE c == [calls[s] EXCEPT !.at = "sweep", !.cred = user.password + 1]
  <1>1. c \in CallType /\ c.at = "sweep"
    <2>1. "sweep" \in Steps
      BY DEF Steps
    <2>2. c \in CallType
      BY <2>1, UserTyped, GotoType
    <2>3. c.at = "sweep"
      BY CallTyped DEF CallType
    <2> QED
      BY <2>2, <2>3
  <1>2. calls' = [calls EXCEPT ![s] = c]
    BY DEF ChangeUpdate
  <1>3. TablesOK' /\ Len(tokens) =< Len(tokens') /\ Len(codes) =< Len(codes')
    BY UserTyped DEF ChangeUpdate, SessionsTypeOK, TablesOK
  <1> HIDE DEF c
  <1> QED
    BY <1>1, <1>2, <1>3, StepType DEF Refers

LEMMA TypeOfChangeSweep ==
    ASSUME SessionsTypeOK, NEW s \in Slots, ChangeSweep(s) PROVE SessionsTypeOK'
  <1> DEFINE seen == IF calls[s].seen = sweeps THEN sweeps + 1 ELSE calls[s].seen
             c == [calls[s] EXCEPT !.at = "issue", !.seen = seen]
  <1>1. seen \in Nat
    BY CallTyped, UserTyped
  <1>2. c \in CallType /\ c.at = "issue"
    BY <1>1, CallTyped DEF CallType, Steps
  <1>3. calls' = [calls EXCEPT ![s] = c]
    BY DEF ChangeSweep
  <1>4. TablesOK' /\ Len(tokens) =< Len(tokens') /\ Len(codes) =< Len(codes')
    BY SweepTables, UserTyped DEF ChangeSweep
  <1> HIDE DEF c
  <1> QED
    BY <1>2, <1>3, <1>4, StepType DEF Refers

LEMMA TypeOfAdminUpdate ==
    ASSUME SessionsTypeOK, NEW s \in Slots, AdminUpdate(s) PROVE SessionsTypeOK'
  <1> DEFINE c == [calls[s] EXCEPT !.at = "sweep"]
  <1>1. c \in CallType /\ c.at = "sweep"
    BY CallTyped DEF CallType, Steps
  <1>2. user' \in [status : {"ACTIVE", "SUSPENDED"}, password : Nat]
    BY UserTyped DEF AdminUpdate
  <1>3. TablesOK' /\ Len(tokens) =< Len(tokens') /\ Len(codes) =< Len(codes')
    BY <1>2 DEF AdminUpdate, SessionsTypeOK, TablesOK
  <1>4. CASE Sweeps(calls[s].op)
    <2>1. calls' = [calls EXCEPT ![s] = c]
      BY <1>4 DEF AdminUpdate, Goto
    <2> HIDE DEF c
    <2> QED
      BY <1>1, <1>3, <2>1, StepType DEF Refers
  <1>5. CASE ~Sweeps(calls[s].op)
    <2>1. Reply(s, TRUE, 0, 0)
      BY <1>5 DEF AdminUpdate
    <2> QED
      BY <1>3, <2>1, ReplyStepType
  <1> QED
    BY <1>4, <1>5

LEMMA TypeOfAdminSweep ==
    ASSUME SessionsTypeOK, NEW s \in Slots, AdminSweep(s) PROVE SessionsTypeOK'
  BY SweepTables, ReplyStepType DEF AdminSweep

LEMMA TypeOfAbandon ==
    ASSUME SessionsTypeOK, NEW s \in Slots, Abandon(s) PROVE SessionsTypeOK'
  <1>1. TablesOK' /\ Len(tokens) =< Len(tokens') /\ Len(codes) =< Len(codes')
    BY UserTyped DEF Abandon, SessionsTypeOK, TablesOK
  <1> QED
    BY <1>1, ReplyStepType DEF Abandon

LEMMA TypeOfRespond ==
    ASSUME SessionsTypeOK, NEW s \in Slots, Respond(s) PROVE SessionsTypeOK'
  BY IdleType, QuietType DEF Respond, Refers

LEMMA TypeStep ==
    ASSUME SessionsTypeOK, [Next]_sessionVars PROVE SessionsTypeOK'
  <1>1. CASE UNCHANGED sessionVars
    BY <1>1 DEF SessionsTypeOK, sessionVars, At
  <1>2. ASSUME SessionsTypeOK, NEW s \in Slots,
               Ask(s) \/ Administer(s) \/ Step(s) \/ Abandon(s) \/ Respond(s)
        PROVE SessionsTypeOK'
    BY <1>2, AskType, AdministerType, TypeOfAbandon, TypeOfRespond, TypeOfRefuse,
       TypeOfLoginRead, TypeOfChallenge, TypeOfVerifyRead, TypeOfConsume, TypeOfIssue,
       TypeOfRefreshRead, TypeOfRotate, TypeOfDetectReuse, TypeOfRevoke, TypeOfChangeRead,
       TypeOfChangeUpdate, TypeOfChangeSweep, TypeOfAdminUpdate, TypeOfAdminSweep
    DEF Step
  <1> QED
    BY <1>1, <1>2 DEF Next

(* Every row and every handler keeps its shape, and refers to what exists. *)
THEOREM SessionsTypeCorrect == Spec => []SessionsTypeOK
  <1>1. Init => SessionsTypeOK
    <2> SUFFICES ASSUME Init PROVE SessionsTypeOK
      OBVIOUS
    <2>1. calls \in [Slots -> CallType] /\ \A s \in Slots : calls[s].at = "idle"
      BY IdleType DEF Init
    <2>2. TablesOK
      <3>1. /\ user \in [status : {"ACTIVE", "SUSPENDED"}, password : Nat]
            /\ mfa \in Methods /\ started \in Nat /\ sweeps \in Nat /\ lost \in BOOLEAN
        BY DEF Init
      <3>2. /\ tokens \in Seq(TokenType)
            /\ codes \in Seq([consumed : BOOLEAN])
            /\ pendings \in Seq([cred : Nat, seen : Nat])
        BY EmptySeq DEF Init
      <3> QED
        BY <3>1, <3>2 DEF TablesOK
    <2> QED
      BY <2>1, <2>2 DEF SessionsTypeOK, TablesOK, At
  <1>2. SessionsTypeOK /\ [Next]_sessionVars => SessionsTypeOK'
    BY TypeStep
  <1> QED
    BY <1>1, <1>2, PTL DEF Spec

-----------------------------------------------------------------------------
(* Rotation forks no session. *)

\* A branch is named after the token that began it.
Unforked(ts) ==
    /\ \A i \in DOMAIN ts : ts[i].branch \in 1 .. Len(ts)
    /\ \A i, j \in DOMAIN ts :
          ~ts[i].revoked /\ ~ts[j].revoked /\ ts[i].branch = ts[j].branch => i = j

\* Every change of the tokens is one of four.
TokensStep ==
    \/ UNCHANGED tokens
    \/ tokens' = AllRevoked
    \/ \E t \in DOMAIN tokens : tokens' = Revoked(t)
    \/ \E x \in TokenType : x.branch = Len(tokens) + 1 /\ tokens' = Append(tokens, x)
    \/ \E t \in DOMAIN tokens, x \in TokenType :
          /\ x.branch = IF tokens[t].revoked THEN Len(tokens) + 1 ELSE tokens[t].branch
          /\ tokens' = Append(Revoked(t), x)

LEMMA NextTokens ==
    ASSUME SessionsTypeOK, [Next]_sessionVars
    PROVE  TokensStep
  <1>1. CASE UNCHANGED sessionVars
    BY <1>1 DEF sessionVars, TokensStep
  <1>2. ASSUME NEW s \in Slots, Ask(s) \/ Administer(s) PROVE TokensStep
    BY <1>2 DEF Ask, Administer, Login, VerifyMfa, Refresh, Logout, ChangePassword,
         SetAgentStatus, ResetAgentPassword, ForceLogout, RevokeSession, Begin, TokensStep
  <1>3. ASSUME NEW s \in Slots, Step(s) \/ Abandon(s) \/ Respond(s) PROVE TokensStep
    <2>1. ASSUME IssueRefreshToken(s) PROVE TokensStep
      <3> DEFINE n == Len(tokens) + 1
                 x == Token(0, n, sweeps, calls[s].cred,
                        calls[s].crossed \/ calls[s].seen # sweeps, calls[s].code, calls[s].twice)
      <3>1. n \in Nat
        BY DEF SessionsTypeOK
      <3>2. x \in TokenType
        BY <3>1, CallTyped, UserTyped, TokenFields
      <3>3. tokens' = Append(tokens, x) /\ x.branch = n
        BY <2>1 DEF IssueRefreshToken, Token
      <3> HIDE DEF x
      <3> QED
        BY <3>2, <3>3 DEF TokensStep
    <2>2. ASSUME Rotate(s) PROVE TokensStep
      BY <2>2, RotateRows DEF TokensStep
    <2>3. ASSUME RevokeRefreshToken(s) PROVE TokensStep
      <3>1. calls[s].token \in DOMAIN tokens
        BY <2>3, CallTyped DEF RevokeRefreshToken, Refers
      <3> QED
        BY <2>3, <3>1 DEF RevokeRefreshToken, TokensStep
    <2>4. ASSUME DetectReuse(s) \/ ChangeSweep(s) \/ AdminSweep(s) PROVE TokensStep
      BY <2>4 DEF DetectReuse, ChangeSweep, AdminSweep, TokensStep
    <2>5. ASSUME \/ Refuse(s) \/ LoginRead(s) \/ Challenge(s) \/ VerifyRead(s)
                 \/ ConsumeOtpCode(s) \/ RefreshRead(s) \/ ChangeRead(s) \/ ChangeUpdate(s)
                 \/ AdminUpdate(s) \/ Abandon(s) \/ Respond(s)
          PROVE TokensStep
      BY <2>5 DEF Refuse, LoginRead, Challenge, VerifyRead, ConsumeOtpCode, RefreshRead,
           ChangeRead, ChangeUpdate, AdminUpdate, Abandon, Respond, TokensStep
    <2> QED
      BY <1>3, <2>1, <2>2, <2>3, <2>4, <2>5 DEF Step
  <1> QED
    BY <1>1, <1>2, <1>3 DEF Next

LEMMA BranchStep ==
    ASSUME tokens \in Seq(TokenType), Unforked(tokens), TokensStep
    PROVE  Unforked(tokens')
  <1>0. /\ Len(tokens) \in Nat /\ DOMAIN tokens = 1 .. Len(tokens)
        /\ \A i \in DOMAIN tokens : tokens[i] \in TokenType
    BY TokensTyped
  <1>a. \A i \in DOMAIN tokens : tokens[i].branch \in 1 .. Len(tokens)
    BY DEF Unforked
  <1>b. \A i, j \in DOMAIN tokens :
          ~tokens[i].revoked /\ ~tokens[j].revoked /\ tokens[i].branch = tokens[j].branch => i = j
    BY DEF Unforked
  <1>1. CASE UNCHANGED tokens
    BY <1>1
  \* Revoking forks nothing.
  <1>2. ASSUME NEW ts \in Seq(TokenType), DOMAIN ts = DOMAIN tokens, Len(ts) = Len(tokens),
               \A i \in DOMAIN tokens : ts[i].branch = tokens[i].branch,
               \A i \in DOMAIN tokens : ~ts[i].revoked => ~tokens[i].revoked
        PROVE Unforked(ts)
    <2>1. ASSUME NEW i \in DOMAIN ts PROVE ts[i].branch \in 1 .. Len(ts)
      BY <1>2, <1>a
    <2>2. ASSUME NEW i \in DOMAIN ts, NEW j \in DOMAIN ts, ~ts[i].revoked, ~ts[j].revoked,
                 ts[i].branch = ts[j].branch
          PROVE i = j
      BY <1>2, <1>b, <2>2
    <2> QED
      BY <2>1, <2>2 DEF Unforked
  <1>3. CASE tokens' = AllRevoked
    <2>1. /\ DOMAIN AllRevoked = DOMAIN tokens /\ Len(AllRevoked) = Len(tokens)
          /\ AllRevoked \in Seq(TokenType)
          /\ \A i \in DOMAIN tokens : AllRevoked[i] = [tokens[i] EXCEPT !.revoked = TRUE]
                                      /\ AllRevoked[i].revoked
      BY <1>0, RevokedType
    <2>2. \A i \in DOMAIN tokens : AllRevoked[i].branch = tokens[i].branch
      BY <1>0, <2>1 DEF TokenType
    <2>3. Unforked(AllRevoked)
      BY <1>2, <2>1, <2>2
    <2> QED
      BY <1>3, <2>3
  <1>4. ASSUME NEW t \in DOMAIN tokens
        PROVE /\ Revoked(t) \in Seq(TokenType) /\ Len(Revoked(t)) = Len(tokens)
              /\ DOMAIN Revoked(t) = DOMAIN tokens
              /\ \A i \in DOMAIN tokens : Revoked(t)[i].branch = tokens[i].branch
              /\ \A i \in DOMAIN tokens : ~Revoked(t)[i].revoked => ~tokens[i].revoked /\ i # t
    <2>1. tokens[t] \in TokenType
      BY <1>0
    <2>2. [tokens[t] EXCEPT !.revoked = TRUE].branch = tokens[t].branch
      BY <2>1 DEF TokenType
    <2> QED
      BY <1>0, <2>2, OneRevokedType
  <1>5. ASSUME NEW t \in DOMAIN tokens, tokens' = Revoked(t) PROVE Unforked(tokens')
    <2>1. Unforked(Revoked(t))
      BY <1>2, <1>4
    <2> QED
      BY <1>5, <2>1
  \* A new token on a branch without a live one forks nothing.
  <1>6. ASSUME NEW ts \in Seq(TokenType), Len(ts) = Len(tokens), NEW x \in TokenType,
               Unforked(ts), DOMAIN ts = DOMAIN tokens,
               \A i \in DOMAIN tokens : ~ts[i].revoked => ts[i].branch # x.branch,
               x.branch \in 1 .. Len(tokens) + 1,
               tokens' = Append(ts, x)
        PROVE Unforked(tokens')
    <2> DEFINE n == Len(tokens) + 1
    <2>1. /\ Len(tokens') = n
          /\ DOMAIN tokens' = DOMAIN ts \cup {n}
          /\ \A i \in DOMAIN ts : tokens'[i] = ts[i]
          /\ tokens'[n] = x
          /\ n \notin DOMAIN ts
      BY <1>6, AppendType
    <2>2. ASSUME NEW i \in DOMAIN tokens' PROVE tokens'[i].branch \in 1 .. Len(tokens')
      <3>1. CASE i = n
        BY <3>1, <2>1, <1>6
      <3>2. CASE i \in DOMAIN ts
        <4>1. ts[i].branch \in 1 .. Len(tokens)
          BY <3>2, <1>6 DEF Unforked
        <4> QED
          BY <3>2, <4>1, <2>1, <1>0
      <3> QED
        BY <2>1, <3>1, <3>2
    <2>3. ASSUME NEW i \in DOMAIN tokens', NEW j \in DOMAIN tokens',
                 ~tokens'[i].revoked, ~tokens'[j].revoked, tokens'[i].branch = tokens'[j].branch
          PROVE i = j
      <3>1. CASE i \in DOMAIN ts /\ j \in DOMAIN ts
        <4>1. tokens'[i] = ts[i] /\ tokens'[j] = ts[j]
          BY <3>1, <2>1
        <4> QED
          BY <2>3, <3>1, <4>1, <1>6 DEF Unforked
      <3>2. CASE i \in DOMAIN ts /\ j = n
        BY <2>1, <2>3, <3>2, <1>6
      <3>3. CASE i = n /\ j \in DOMAIN ts
        BY <2>1, <2>3, <3>3, <1>6
      <3>4. CASE i = n /\ j = n
        BY <3>4
      <3> QED
        BY <2>1, <3>1, <3>2, <3>3, <3>4
    <2> QED
      BY <2>2, <2>3 DEF Unforked
  <1>7. ASSUME NEW x \in TokenType, x.branch = Len(tokens) + 1, tokens' = Append(tokens, x)
        PROVE Unforked(tokens')
    <2>1. \A i \in DOMAIN tokens : tokens[i].branch # x.branch
      BY <1>0, <1>7, <1>a
    <2>2. x.branch \in 1 .. Len(tokens) + 1
      BY <1>0, <1>7
    <2> QED
      BY <1>0, <1>6, <1>7, <2>1, <2>2
  <1>8. ASSUME NEW t \in DOMAIN tokens, NEW x \in TokenType,
               x.branch = IF tokens[t].revoked THEN Len(tokens) + 1 ELSE tokens[t].branch,
               tokens' = Append(Revoked(t), x)
        PROVE Unforked(tokens')
    <2>1. Unforked(Revoked(t))
      BY <1>2, <1>4
    <2>2. x.branch \in 1 .. Len(tokens) + 1
      BY <1>0, <1>8, <1>a
    <2>3. \A i \in DOMAIN tokens : ~Revoked(t)[i].revoked => Revoked(t)[i].branch # x.branch
      <3>1. CASE tokens[t].revoked
        <4>1. x.branch = Len(tokens) + 1
          BY <3>1, <1>8
        <4>2. ASSUME NEW i \in DOMAIN tokens PROVE Revoked(t)[i].branch # x.branch
          <5>1. Revoked(t)[i].branch = tokens[i].branch
            BY <1>4, <1>8
          <5>2. tokens[i].branch \in 1 .. Len(tokens)
            BY <1>a
          <5> QED
            BY <1>0, <4>1, <5>1, <5>2
        <4> QED
          BY <4>2
      <3>2. CASE ~tokens[t].revoked
        <4>1. x.branch = tokens[t].branch
          BY <3>2, <1>8
        <4> QED
          BY <3>2, <4>1, <1>4, <1>8, <1>b
      <3> QED
        BY <3>1, <3>2
    <2> QED
      BY <1>4, <1>6, <1>8, <2>1, <2>2, <2>3
  <1> QED
    BY <1>1, <1>3, <1>5, <1>7, <1>8 DEF TokensStep

(* Two live tokens never share a branch, however requests interleave.      *)
THEOREM RotationForksNothing == Spec => []OneLivePerBranch
  <1>1. Init => Unforked(tokens)
    BY DEF Init, Unforked
  <1>2. SessionsTypeOK /\ Unforked(tokens) /\ [Next]_sessionVars => Unforked(tokens)'
    <2>1. SessionsTypeOK => tokens \in Seq(TokenType)
      BY DEF SessionsTypeOK
    <2> QED
      BY <2>1, NextTokens, BranchStep
  <1>3. Unforked(tokens) => OneLivePerBranch
    BY DEF Unforked, OneLivePerBranch, Live
  <1> QED
    BY <1>1, <1>2, <1>3, SessionsTypeCorrect, PTL DEF Spec

-----------------------------------------------------------------------------
(* A mailed code opens one session.  The code of a session, and of a        *)
(* handler about to open one, is consumed; and among those that found it    *)
(* not yet consumed no two have the same.                                   *)

Root(x) == x.parent = 0 /\ x.code # 0
Opening(c) == c.at = "issue" /\ c.code # 0
Spent(k) == k \in DOMAIN codes /\ codes[k].consumed

\* Only the second step of a login brings a code.
Codeless == \A s \in Slots : calls[s].op # "verify" => calls[s].code = 0

SpentCodes ==
    /\ \A i \in DOMAIN tokens : Root(tokens[i]) => Spent(tokens[i].code)
    /\ \A s \in Slots : Opening(calls[s]) => Spent(calls[s].code)

Rows(i, j) == Root(tokens[i]) /\ Root(tokens[j]) /\ ~tokens[i].twice /\ ~tokens[j].twice
Openers(r, s) == Opening(calls[r]) /\ Opening(calls[s]) /\ ~calls[r].twice /\ ~calls[s].twice
Mixed(s, i) == Opening(calls[s]) /\ Root(tokens[i]) /\ ~calls[s].twice /\ ~tokens[i].twice

OneOwner ==
    /\ \A i, j \in DOMAIN tokens : Rows(i, j) /\ tokens[i].code = tokens[j].code => i = j
    /\ \A r, s \in Slots : Openers(r, s) /\ calls[r].code = calls[s].code => r = s
    /\ \A s \in Slots, i \in DOMAIN tokens : Mixed(s, i) => calls[s].code # tokens[i].code

CodesInv == Codeless /\ (mfa = "EMAIL" => SpentCodes /\ OneOwner)

LEMMA NoCodesYet == Init => CodesInv
  <1> SUFFICES ASSUME Init PROVE CodesInv
    OBVIOUS
  <1>1. /\ DOMAIN tokens = {}
        /\ \A s \in Slots : calls[s].at = "idle" /\ calls[s].code = 0
    BY DEF Init, Idle
  <1> QED
    BY <1>1 DEF CodesInv, Codeless, SpentCodes, OneOwner, Openers, Mixed, Opening

\* Nothing here opens a session.
Innocent(c) == ~Opening(c) /\ (c.op # "verify" => c.code = 0)

\* Rows change only by being revoked, or are added by a rotation.
OldRoots ==
    \A i \in DOMAIN tokens' : Root(tokens'[i]) =>
        /\ i \in DOMAIN tokens /\ Root(tokens[i])
        /\ tokens'[i].code = tokens[i].code /\ tokens'[i].twice = tokens[i].twice

CodesStay == \A k : Spent(k) => Spent(k)'

LEMMA InnocentStep ==
    ASSUME SessionsTypeOK, CodesInv, UNCHANGED mfa, OldRoots, CodesStay,
           NEW s \in Slots, NEW c, calls' = [calls EXCEPT ![s] = c], Innocent(c)
    PROVE  CodesInv'
  <1>1. \A r \in Slots : calls'[r] = IF r = s THEN c ELSE calls[r]
    BY DEF SessionsTypeOK
  <1>2. Codeless'
    BY <1>1 DEF CodesInv, Codeless, Innocent
  <1>3. \A r \in Slots : Opening(calls'[r]) => Opening(calls[r]) /\ calls'[r] = calls[r]
    BY <1>1 DEF Innocent
  <1>4. ASSUME mfa = "EMAIL" PROVE SpentCodes'
    BY <1>3, <1>4 DEF CodesInv, SpentCodes, OldRoots, CodesStay
  <1>5. ASSUME mfa = "EMAIL" PROVE OneOwner'
    <2>1. \A i, j \in DOMAIN tokens' : Rows(i, j)' /\ tokens'[i].code = tokens'[j].code => i = j
      BY <1>5 DEF CodesInv, OneOwner, OldRoots, Rows
    <2>2. \A r, q \in Slots : Openers(r, q)' /\ calls'[r].code = calls'[q].code => r = q
      BY <1>3, <1>5 DEF CodesInv, OneOwner, Openers
    <2>3. \A r \in Slots, i \in DOMAIN tokens' : Mixed(r, i)' => calls'[r].code # tokens'[i].code
      BY <1>3, <1>5 DEF CodesInv, OneOwner, OldRoots, Mixed
    <2> QED
      BY <2>1, <2>2, <2>3 DEF OneOwner
  <1> QED
    BY <1>2, <1>4, <1>5 DEF CodesInv

LEMMA SameRows == ASSUME UNCHANGED tokens PROVE OldRoots
  BY DEF OldRoots

SameSession(x, y) == x.parent = y.parent /\ x.code = y.code /\ x.twice = y.twice

LEMMA RevokedSession == \A x \in TokenType : SameSession([x EXCEPT !.revoked = TRUE], x)
  BY DEF TokenType, SameSession

LEMMA SameSessionRoots ==
    ASSUME \A i \in DOMAIN tokens : SameSession(tokens'[i], tokens[i]),
           \A i \in DOMAIN tokens' : i \in DOMAIN tokens \/ ~Root(tokens'[i])
    PROVE  OldRoots
  BY DEF SameSession, OldRoots, Root

LEMMA RevokedRows ==
    ASSUME SessionsTypeOK,
           tokens' = AllRevoked \/ \E t \in DOMAIN tokens : tokens' = Revoked(t)
    PROVE  OldRoots
  <1>1. tokens \in Seq(TokenType) /\ \A i \in DOMAIN tokens : tokens[i] \in TokenType
    BY TokensTyped DEF SessionsTypeOK
  <1>3. ASSUME DOMAIN tokens' = DOMAIN tokens,
               \A i \in DOMAIN tokens : tokens'[i] = tokens[i]
                                        \/ tokens'[i] = [tokens[i] EXCEPT !.revoked = TRUE]
        PROVE  OldRoots
    <2>1. \A i \in DOMAIN tokens : SameSession(tokens'[i], tokens[i])
      BY <1>1, <1>3, RevokedSession DEF SameSession
    <2> QED
      BY <1>3, <2>1, SameSessionRoots
  <1>2. CASE tokens' = AllRevoked
    BY <1>1, <1>2, <1>3, RevokedType
  <1>4. ASSUME NEW t \in DOMAIN tokens, tokens' = Revoked(t) PROVE OldRoots
    BY <1>1, <1>3, <1>4, OneRevokedType
  <1> QED
    BY <1>2, <1>4

\* A rotated token begins no session.
LEMMA RotatedRows == ASSUME SessionsTypeOK, NEW s \in Slots, Rotate(s) PROVE OldRoots
  <1> DEFINE t == calls[s].token
             n == Len(tokens) + 1
  <1>1. PICK x \in TokenType : tokens' = Append(Revoked(t), x) /\ x.parent = t
    BY RotateRows
  <1>2. t \in DOMAIN tokens /\ tokens \in Seq(TokenType)
    BY RotateRows DEF SessionsTypeOK
  <1>3. t # 0
    BY <1>2, TokensTyped
  <1>4. /\ Revoked(t) \in Seq(TokenType) /\ Len(Revoked(t)) = Len(tokens)
        /\ DOMAIN Revoked(t) = DOMAIN tokens
        /\ \A i \in DOMAIN tokens : Revoked(t)[i] = tokens[i]
                                    \/ Revoked(t)[i] = [tokens[i] EXCEPT !.revoked = TRUE]
    BY <1>2, OneRevokedType
  <1>5. /\ DOMAIN tokens' = DOMAIN tokens \cup {n} /\ tokens'[n] = x
        /\ \A i \in DOMAIN tokens : tokens'[i] = Revoked(t)[i]
    BY <1>1, <1>4, AppendType
  <1>6. \A i \in DOMAIN tokens : tokens[i] \in TokenType
    BY <1>2, TokensTyped
  <1>7. \A i \in DOMAIN tokens : SameSession(tokens'[i], tokens[i])
    BY <1>4, <1>5, <1>6, RevokedSession DEF SameSession
  <1>8. ~Root(tokens'[n])
    BY <1>1, <1>3, <1>5 DEF Root
  <1> HIDE DEF t, n
  <1> QED
    BY <1>5, <1>7, <1>8, SameSessionRoots

LEMMA ReplyInnocent ==
    ASSUME NEW s \in Slots, NEW ok, NEW token, NEW made, Reply(s, ok, token, made)
    PROVE  \E c : calls' = [calls EXCEPT ![s] = c] /\ Innocent(c)
  <1> DEFINE c == [Idle EXCEPT !.op = calls[s].op, !.at = "reply", !.ok = ok,
                               !.token = token, !.made = made]
  <1>1. Innocent(c) /\ Innocent(Idle)
    BY DEF Innocent, Opening, Idle
  <1>2. calls' = [calls EXCEPT ![s] = Idle] \/ calls' = [calls EXCEPT ![s] = c]
    BY DEF Reply
  <1> HIDE DEF c
  <1> QED
    BY <1>1, <1>2

\* A handler that starts brings no code, or is not yet opening a session.
LEMMA BeginInnocent ==
    ASSUME SessionsTypeOK, CodesInv, NEW s \in Slots, NEW c, Innocent(c), Begin(s, c)
    PROVE  CodesInv'
  <1>1. calls' = [calls EXCEPT ![s] = c] /\ UNCHANGED <<mfa, tokens, codes>>
    BY DEF Begin
  <1>2. OldRoots /\ CodesStay
    BY <1>1, SameRows DEF CodesStay, Spent
  <1> QED
    BY <1>1, <1>2, InnocentStep

LEMMA RequestInnocent ==
    \A op, at, token, cred : at # "issue" => Innocent(Request(op, at, token, cred))
  BY DEF Innocent, Opening, Request, Idle

LEMMA AskOpensNothing ==
    ASSUME SessionsTypeOK, CodesInv, NEW s \in Slots, Ask(s) \/ Administer(s)
    PROVE  CodesInv'
  <1>1. ASSUME NEW op, NEW at, NEW token, NEW cred, at # "issue", Begin(s, Request(op, at, token, cred))
        PROVE  CodesInv'
    BY <1>1, RequestInnocent, BeginInnocent
  <1>2. ASSUME Administer(s) PROVE CodesInv'
    BY <1>1, <1>2 DEF Administer, SetAgentStatus, ResetAgentPassword, ForceLogout, RevokeSession
  <1>3. ASSUME NEW p, Login(s, p) PROVE CodesInv'
    BY <1>1, <1>3 DEF Login
  <1>4. ASSUME NEW t, Refresh(s, t) PROVE CodesInv'
    BY <1>1, <1>4 DEF Refresh
  <1>5. ASSUME NEW i, NEW k, VerifyMfa(s, i, k) PROVE CodesInv'
    <2> DEFINE c == [Request("verify", "read", 0, pendings[i].cred)
                       EXCEPT !.seen = pendings[i].seen, !.code = k]
    <2>1. Innocent(c)
      BY DEF Innocent, Opening, Request, Idle
    <2>2. Begin(s, c)
      BY <1>5 DEF VerifyMfa
    <2> HIDE DEF c
    <2> QED
      BY <2>1, <2>2, BeginInnocent
  <1>6. ASSUME NEW t, Logout(s, t) PROVE CodesInv'
    <2> DEFINE c == [Request("logout", IF t = 0 THEN "reply" ELSE "revoke", t, 0) EXCEPT !.ok = (t = 0)]
    <2>1. Innocent(c)
      BY DEF Innocent, Opening, Request, Idle
    <2>2. Begin(s, c)
      BY <1>6 DEF Logout
    <2> HIDE DEF c
    <2> QED
      BY <2>1, <2>2, BeginInnocent
  <1>7. ASSUME NEW t, NEW p, ChangePassword(s, t, p) PROVE CodesInv'
    <2> DEFINE c == [Request("change", "read", t, p)
                       EXCEPT !.seen = tokens[t].born, !.crossed = tokens[t].crossed]
    <2>1. Innocent(c)
      BY DEF Innocent, Opening, Request, Idle
    <2>2. Begin(s, c)
      BY <1>7 DEF ChangePassword
    <2> HIDE DEF c
    <2> QED
      BY <2>1, <2>2, BeginInnocent
  <1> QED
    BY <1>2, <1>3, <1>4, <1>5, <1>6, <1>7 DEF Ask

\* The handler that consumes a code is the only one to find it unconsumed.
LEMMA ConsumeOwns ==
    ASSUME SessionsTypeOK, CodesInv, NEW s \in Slots, ConsumeOtpCode(s)
    PROVE  CodesInv'
  <1> DEFINE k == calls[s].code
             c == [calls[s] EXCEPT !.at = "issue", !.twice = codes[k].consumed]
  <1>1. k \in DOMAIN codes /\ codes \in Seq([consumed : BOOLEAN]) /\ calls \in [Slots -> CallType]
    BY CallTyped DEF ConsumeOtpCode, Refers, SessionsTypeOK
  <1>2. /\ calls' = [calls EXCEPT ![s] = c] /\ codes' = Consumed(k) /\ UNCHANGED <<mfa, tokens>>
    BY DEF ConsumeOtpCode
  <1>3. /\ c.at = "issue" /\ c.code = k /\ c.op = calls[s].op /\ (c.twice <=> codes[k].consumed)
    BY <1>1, ConsumedType DEF CallType
  <1>4. \A r \in Slots : calls'[r] = IF r = s THEN c ELSE calls[r]
    BY <1>1, <1>2
  <1> DEFINE SpentNext(n) == n \in DOMAIN codes' /\ codes'[n].consumed
  <1>5. SpentNext(k) /\ \A n : Spent(n) => SpentNext(n)
    BY <1>1, <1>2, ConsumedType DEF Spent
  <1> HIDE DEF k, c, SpentNext
  <1>6. Codeless'
    BY <1>3, <1>4 DEF CodesInv, Codeless, k
  <1>7. ASSUME mfa = "EMAIL" PROVE SpentCodes'
    <2>1. \A i \in DOMAIN tokens' : Root(tokens'[i]) => SpentNext(tokens'[i].code)
      BY <1>2, <1>5, <1>7 DEF CodesInv, SpentCodes
    <2>2. \A r \in Slots : Opening(calls'[r]) => SpentNext(calls'[r].code)
      BY <1>3, <1>4, <1>5, <1>7 DEF CodesInv, SpentCodes
    <2> QED
      BY <2>1, <2>2 DEF SpentCodes, Spent, SpentNext
  <1>8. ASSUME mfa = "EMAIL" PROVE OneOwner'
    <2>1. ASSUME ~c.twice
          PROVE  /\ \A i \in DOMAIN tokens : Root(tokens[i]) => tokens[i].code # k
                 /\ \A r \in Slots : Opening(calls[r]) => calls[r].code # k
      BY <1>3, <1>8, <2>1 DEF CodesInv, SpentCodes, Spent
    <2>2. \A i, j \in DOMAIN tokens' : Rows(i, j)' /\ tokens'[i].code = tokens'[j].code => i = j
      BY <1>2, <1>8 DEF CodesInv, OneOwner, Rows
    <2>3. \A r, q \in Slots : Openers(r, q)' /\ calls'[r].code = calls'[q].code => r = q
      BY <1>3, <1>4, <1>8, <2>1 DEF CodesInv, OneOwner, Openers
    <2>4. \A r \in Slots, i \in DOMAIN tokens' : Mixed(r, i)' => calls'[r].code # tokens'[i].code
      BY <1>2, <1>3, <1>4, <1>8, <2>1 DEF CodesInv, OneOwner, Mixed
    <2> QED
      BY <2>2, <2>3, <2>4 DEF OneOwner
  <1> QED
    BY <1>2, <1>6, <1>7, <1>8 DEF CodesInv

\* The handler hands what it owns to the token it makes.
LEMMA IssueOwns ==
    ASSUME SessionsTypeOK, CodesInv, NEW s \in Slots, IssueRefreshToken(s)
    PROVE  CodesInv'
  <1> DEFINE n == Len(tokens) + 1
             x == Token(0, n, sweeps, calls[s].cred,
                        calls[s].crossed \/ calls[s].seen # sweeps, calls[s].code, calls[s].twice)
  <1>1. n \in Nat /\ tokens \in Seq(TokenType) /\ calls \in [Slots -> CallType]
    BY DEF SessionsTypeOK
  <1>2. x \in TokenType
    BY <1>1, CallTyped, UserTyped, TokenFields
  <1>3. calls[s].at = "issue" /\ tokens' = Append(tokens, x) /\ UNCHANGED <<mfa, codes>>
    BY DEF IssueRefreshToken
  <1>4. x.parent = 0 /\ x.code = calls[s].code /\ x.twice = calls[s].twice
    BY DEF Token
  <1> HIDE DEF x
  <1>5. PICK c : calls' = [calls EXCEPT ![s] = c] /\ Innocent(c)
    BY ReplyInnocent DEF IssueRefreshToken
  <1>6. /\ DOMAIN tokens' = DOMAIN tokens \cup {n} /\ tokens'[n] = x
        /\ \A i \in DOMAIN tokens : tokens'[i] = tokens[i]
        /\ n \notin DOMAIN tokens
    BY <1>1, <1>2, <1>3, AppendType
  <1> HIDE DEF n
  <1>7. \A r \in Slots : calls'[r] = IF r = s THEN c ELSE calls[r]
    BY <1>1, <1>5
  <1>8. Root(x) => Opening(calls[s])
    BY <1>3, <1>4 DEF Root, Opening
  <1>9. \A r \in Slots : Opening(calls'[r]) => r # s /\ Opening(calls[r]) /\ calls'[r] = calls[r]
    BY <1>5, <1>7 DEF Innocent
  <1>10. Codeless'
    BY <1>5, <1>7 DEF CodesInv, Codeless, Innocent
  <1>11. ASSUME mfa = "EMAIL" PROVE SpentCodes'
    <2>1. \A k : Spent(k)' <=> Spent(k)
      BY <1>3 DEF Spent
    <2>2. \A i \in DOMAIN tokens' : Root(tokens'[i]) => Spent(tokens'[i].code)
      BY <1>4, <1>6, <1>8, <1>11 DEF CodesInv, SpentCodes
    <2>3. \A r \in Slots : Opening(calls'[r]) => Spent(calls'[r].code)
      BY <1>9, <1>11 DEF CodesInv, SpentCodes
    <2> QED
      BY <2>1, <2>2, <2>3 DEF SpentCodes
  <1>12. ASSUME mfa = "EMAIL" PROVE OneOwner'
    <2>1. \A i \in DOMAIN tokens : Root(x) /\ Root(tokens[i]) /\ ~x.twice /\ ~tokens[i].twice
                                       => x.code # tokens[i].code
      BY <1>4, <1>8, <1>12 DEF CodesInv, OneOwner, Mixed
    <2>2. \A i, j \in DOMAIN tokens' : Rows(i, j)' /\ tokens'[i].code = tokens'[j].code => i = j
      BY <1>6, <1>12, <2>1 DEF CodesInv, OneOwner, Rows
    <2>3. \A r, q \in Slots : Openers(r, q)' /\ calls'[r].code = calls'[q].code => r = q
      BY <1>9, <1>12 DEF CodesInv, OneOwner, Openers
    <2>4. \A r \in Slots : Opening(calls'[r]) /\ Root(x) /\ ~calls'[r].twice /\ ~x.twice
                               => calls'[r].code # x.code
      BY <1>4, <1>8, <1>9, <1>12 DEF CodesInv, OneOwner, Openers
    <2>5. \A r \in Slots, i \in DOMAIN tokens' : Mixed(r, i)' => calls'[r].code # tokens'[i].code
      BY <1>6, <1>9, <1>12, <2>4 DEF CodesInv, OneOwner, Mixed
    <2> QED
      BY <2>2, <2>3, <2>5 DEF OneOwner
  <1> QED
    BY <1>3, <1>10, <1>11, <1>12 DEF CodesInv

\* A handler that goes on to another step.
LEMMA MovedCall ==
    ASSUME NEW k \in CallType, NEW at
    PROVE  /\ \A n : [k EXCEPT !.at = at, !.seen = n].op = k.op
                     /\ [k EXCEPT !.at = at, !.seen = n].at = at
                     /\ [k EXCEPT !.at = at, !.seen = n].code = k.code
           /\ \A n : [k EXCEPT !.at = at, !.cred = n].op = k.op
                     /\ [k EXCEPT !.at = at, !.cred = n].at = at
                     /\ [k EXCEPT !.at = at, !.cred = n].code = k.code
           /\ [k EXCEPT !.at = at].op = k.op /\ [k EXCEPT !.at = at].at = at
           /\ [k EXCEPT !.at = at].code = k.code
  BY DEF CallType

LEMMA MovesInnocently ==
    ASSUME SessionsTypeOK, CodesInv, NEW s \in Slots,
           LoginRead(s) \/ RefreshRead(s) \/ ChangeRead(s) \/ ChangeUpdate(s) \/ ChangeSweep(s)
    PROVE  \E c : calls' = [calls EXCEPT ![s] = c] /\ Innocent(c)
  <1> DEFINE k == calls[s]
  <1>1. k \in CallType
    BY CallTyped
  <1>2. k.op \in {"login", "refresh", "change"}
    BY DEF LoginRead, RefreshRead, ChangeRead, ChangeUpdate, ChangeSweep, At
  <1>3. k.code = 0
    BY <1>2 DEF CodesInv, Codeless
  <1>4. \A c : c.code = 0 => Innocent(c)
    BY DEF Innocent, Opening
  <1>5. ASSUME NEW c, calls' = [calls EXCEPT ![s] = c], c.code = 0
        PROVE  \E d : calls' = [calls EXCEPT ![s] = d] /\ Innocent(d)
    BY <1>4, <1>5
  <1>6. ASSUME NEW at, NEW n, calls' = [calls EXCEPT ![s].at = at, ![s].seen = n]
        PROVE  calls' = [calls EXCEPT ![s] = [k EXCEPT !.at = at, !.seen = n]]
    BY <1>6
  <1>7. ASSUME NEW at, NEW n, calls' = [calls EXCEPT ![s].at = at, ![s].cred = n]
        PROVE  calls' = [calls EXCEPT ![s] = [k EXCEPT !.at = at, !.cred = n]]
    BY <1>7
  <1>8. CASE LoginRead(s) \/ RefreshRead(s)
    <2>1. PICK at, n : calls' = [calls EXCEPT ![s].at = at, ![s].seen = n]
      BY <1>8 DEF LoginRead, RefreshRead
    <2>2. [k EXCEPT !.at = at, !.seen = n].code = 0
      BY <1>1, <1>3, MovedCall
    <2> QED
      BY <2>1, <2>2, <1>5, <1>6
  <1>9. CASE ChangeUpdate(s)
    <2>1. PICK at, n : calls' = [calls EXCEPT ![s].at = at, ![s].cred = n]
      BY <1>9 DEF ChangeUpdate
    <2>2. [k EXCEPT !.at = at, !.cred = n].code = 0
      BY <1>1, <1>3, MovedCall
    <2> QED
      BY <2>1, <2>2, <1>5, <1>7
  <1>10. CASE ChangeSweep(s)
    <2> DEFINE n == IF k.seen = sweeps THEN sweeps + 1 ELSE k.seen
    <2>1. calls' = [calls EXCEPT ![s] = [k EXCEPT !.at = "issue", !.seen = n]]
      BY <1>10 DEF ChangeSweep
    <2>2. [k EXCEPT !.at = "issue", !.seen = n].code = 0
      BY <1>1, <1>3, MovedCall
    <2> QED
      BY <2>1, <2>2, <1>5
  <1>11. CASE ChangeRead(s)
    <2>1. calls' = [calls EXCEPT ![s] = [k EXCEPT !.at = "update"]]
      BY <1>11 DEF ChangeRead, Goto
    <2>2. [k EXCEPT !.at = "update"].code = 0
      BY <1>1, <1>3, MovedCall
    <2> QED
      BY <2>1, <2>2, <1>5
  <1> QED
    BY <1>8, <1>9, <1>10, <1>11

LEMMA CodesStep == SessionsTypeOK /\ CodesInv /\ [Next]_sessionVars => CodesInv'
  <1> SUFFICES ASSUME SessionsTypeOK, CodesInv, [Next]_sessionVars PROVE CodesInv'
    OBVIOUS
  <1>1. CASE UNCHANGED sessionVars
    BY <1>1 DEF sessionVars, CodesInv, Codeless, SpentCodes, OneOwner, Spent, Rows, Openers, Mixed
  <1>2. ASSUME NEW s \in Slots, NEW c, calls' = [calls EXCEPT ![s] = c], Innocent(c),
               UNCHANGED <<mfa, codes>>, OldRoots
        PROVE  CodesInv'
    <2>1. CodesStay
      BY <1>2 DEF CodesStay, Spent
    <2> QED
      BY <1>2, <2>1, InnocentStep
  <1>3. ASSUME NEW s \in Slots, Refuse(s) \/ Abandon(s) \/ Respond(s) PROVE CodesInv'
    <2>1. UNCHANGED <<mfa, codes, tokens>>
      BY <1>3 DEF Refuse, Abandon, Respond
    <2>2. \E c : calls' = [calls EXCEPT ![s] = c] /\ Innocent(c)
      <3>1. Innocent(Idle)
        BY DEF Innocent, Opening, Idle
      <3> QED
        BY <1>3, <3>1, ReplyInnocent DEF Refuse, Abandon, Respond
    <2> QED
      BY <1>2, <2>1, <2>2, SameRows
  <1>4. ASSUME NEW s \in Slots, LoginRead(s) \/ RefreshRead(s) \/ ChangeRead(s) \/ ChangeUpdate(s)
        PROVE  CodesInv'
    <2>1. UNCHANGED <<mfa, codes, tokens>>
      BY <1>4 DEF LoginRead, RefreshRead, ChangeRead, ChangeUpdate
    <2> QED
      BY <1>2, <1>4, <2>1, SameRows, MovesInnocently
  <1>5. ASSUME NEW s \in Slots, ChangeSweep(s) PROVE CodesInv'
    <2>1. UNCHANGED <<mfa, codes>> /\ tokens' = AllRevoked
      BY <1>5 DEF ChangeSweep
    <2> QED
      BY <1>2, <1>5, <2>1, RevokedRows, MovesInnocently
  <1>6. ASSUME NEW s \in Slots, DetectReuse(s) \/ AdminSweep(s) \/ RevokeRefreshToken(s) PROVE CodesInv'
    <2>1. UNCHANGED <<mfa, codes>>
      BY <1>6 DEF DetectReuse, AdminSweep, RevokeRefreshToken
    <2>2. \E c : calls' = [calls EXCEPT ![s] = c] /\ Innocent(c)
      BY <1>6, ReplyInnocent DEF DetectReuse, AdminSweep, RevokeRefreshToken
    <2>3. OldRoots
      <3>1. RevokeRefreshToken(s) => calls[s].token \in DOMAIN tokens
        BY CallTyped DEF RevokeRefreshToken, Refers
      <3> QED
        BY <1>6, <3>1, RevokedRows DEF DetectReuse, AdminSweep, RevokeRefreshToken
    <2> QED
      BY <1>2, <2>1, <2>2, <2>3
  <1>7. ASSUME NEW s \in Slots, Rotate(s) PROVE CodesInv'
    <2>1. UNCHANGED <<mfa, codes>> /\ \E c : calls' = [calls EXCEPT ![s] = c] /\ Innocent(c)
      BY <1>7, ReplyInnocent DEF Rotate
    <2> QED
      BY <1>2, <1>7, <2>1, RotatedRows
  <1>8. ASSUME NEW s \in Slots, Challenge(s) PROVE CodesInv'
    <2>1. /\ UNCHANGED <<mfa, tokens>>
          /\ codes' = codes \/ codes' = Append(codes, [consumed |-> FALSE])
      BY <1>8 DEF Challenge
    <2>2. CodesStay
      <3> DEFINE C == [consumed : BOOLEAN]
                 z == [consumed |-> FALSE]
      <3>1. codes \in Seq(C) /\ z \in C
        BY DEF SessionsTypeOK
      <3> HIDE DEF C, z
      <3>2. /\ DOMAIN codes \subseteq DOMAIN Append(codes, z)
            /\ \A k \in DOMAIN codes : Append(codes, z)[k] = codes[k]
        BY <3>1
      <3>3. codes' = codes \/ codes' = Append(codes, z)
        BY <2>1 DEF z
      <3>4. DOMAIN codes \subseteq DOMAIN codes' /\ \A k \in DOMAIN codes : codes'[k] = codes[k]
        BY <3>2, <3>3
      <3> QED
        BY <3>4 DEF CodesStay, Spent
    <2>3. \E c : calls' = [calls EXCEPT ![s] = c] /\ Innocent(c)
      BY <1>8, ReplyInnocent DEF Challenge
    <2> QED
      BY <2>1, <2>2, <2>3, SameRows, InnocentStep
  <1>9. ASSUME NEW s \in Slots, VerifyRead(s) PROVE CodesInv'
    <2> DEFINE at == IF mfa = "EMAIL" THEN "consume" ELSE "issue"
               c == [calls[s] EXCEPT !.at = at]
    <2>1. /\ calls' = [calls EXCEPT ![s] = c] /\ calls[s].op = "verify"
          /\ UNCHANGED <<mfa, codes, tokens>>
      BY <1>9 DEF VerifyRead, Goto, At
    <2>2. calls[s] \in CallType
      BY CallTyped
    <2>3. c.op = "verify" /\ c.at = at
      BY <2>1, <2>2, MovedCall
    <2> HIDE DEF c
    <2>4. CASE mfa = "EMAIL"
      <3>1. Innocent(c)
        BY <2>3, <2>4 DEF Innocent, Opening
      <3> QED
        BY <1>2, <2>1, <3>1, SameRows
    <2>5. CASE mfa # "EMAIL"
      BY <2>1, <2>3, <2>5 DEF CodesInv, Codeless, SessionsTypeOK
    <2> QED
      BY <2>4, <2>5
  <1>10. ASSUME NEW s \in Slots, AdminUpdate(s) PROVE CodesInv'
    <2>1. UNCHANGED <<mfa, codes, tokens>> /\ calls[s].op # "verify"
      BY <1>10 DEF AdminUpdate, AdminOps
    <2>2. \E c : calls' = [calls EXCEPT ![s] = c] /\ Innocent(c)
      <3>1. CASE Reply(s, TRUE, 0, 0)
        BY <3>1, ReplyInnocent
      <3>2. CASE Goto(s, "sweep")
        <4> DEFINE c == [calls[s] EXCEPT !.at = "sweep"]
        <4>1. calls' = [calls EXCEPT ![s] = c]
          BY <3>2 DEF Goto
        <4>2. c.op = calls[s].op /\ c.at = "sweep" /\ c.code = calls[s].code
          BY CallTyped, MovedCall
        <4>3. Innocent(c)
          BY <2>1, <4>2 DEF CodesInv, Codeless, Innocent, Opening
        <4> HIDE DEF c
        <4> QED
          BY <4>1, <4>3
      <3> QED
        BY <1>10, <3>1, <3>2 DEF AdminUpdate
    <2> QED
      BY <1>2, <2>1, <2>2, SameRows
  <1> QED
    BY <1>1, <1>3, <1>4, <1>5, <1>6, <1>7, <1>8, <1>9, <1>10,
       AskOpensNothing, ConsumeOwns, IssueOwns DEF Next, Step

(* With a second factor by mail every session spent a code, and no two     *)
(* spent the same, unless one of them found it consumed only after it had  *)
(* accepted it (verifyMfa, consumeOtpCode, issueRefreshToken).             *)
THEOREM CodeOpensOneSessionHolds == Spec => []CodeOpensOneSession
  <1>1. CodesInv => CodeOpensOneSession
    BY DEF CodesInv, SpentCodes, OneOwner, Rows, Root, Spent, CodeOpensOneSession
  <1> QED
    BY <1>1, NoCodesYet, CodesStep, SessionsTypeCorrect, PTL DEF Spec

-----------------------------------------------------------------------------
(***************************************************************************)
(* What a suspension and a new password end, for any number of requests.   *)
(*                                                                         *)
(* Both properties say that a token in use rests on something good: a user *)
(* who is not suspended, the password he has.  They are one argument: a    *)
(* credential is good if it is in a base set B, or if a sweep that will    *)
(* revoke everything is due (a handler whose operation is in ops is at its *)
(* sweep) or was missed.  Whatever was established since the last sweep is *)
(* good, at every place where a handler or a row carries it.               *)
(***************************************************************************)

\* A handler that will revoke all tokens.
Due(c, ops) == c.op \in ops /\ c.at = "sweep"

Good(B, missed, cs, ops, S) ==
    IF missed \/ \E r \in S : Due(cs[r], ops) THEN Nat ELSE B

\* To any handler, and to the handler in slot s, whose own sweep excuses others.
GoodForAll(B, missed, cs, ops) == Good(B, missed, cs, ops, Slots)
GoodFor(B, missed, cs, ops, s) == Good(B, missed, cs, ops, Slots \ {s})

\* A token is as young as the last sweep if it is live; if it is that young
\* and relies on nothing older, what it rests on is good.
TokenGood(x, n, G) ==
    /\ x.born =< n
    /\ ~x.revoked => x.born = n
    /\ x.born = n /\ ~x.crossed => x.cred \in G

PendingGood(p, n, G) == p.seen =< n /\ (p.seen = n => p.cred \in G)

\* The steps at which a handler carries a credential that was checked.
Carries(c) ==
    \/ c.at \in {"consume", "issue"}
    \/ c.op = "verify" /\ c.at = "read"
    \/ c.op = "change" /\ c.at = "sweep"

CallGood(c, ts, n, G) ==
    /\ c.seen =< n
    /\ c.at = "challenge" /\ c.seen = n => c.cred \in G
    /\ Carries(c) /\ c.seen = n /\ ~c.crossed => c.cred \in G
    /\ c.op = "change" /\ c.at \in {"read", "update"} /\ c.seen = n /\ ~c.crossed => G # {}
    /\ c.at = "rotate" /\ c.seen = n /\ ~ts[c.token].crossed => ts[c.token].cred \in G

Accounted(ts, ps, cs, n, missed, B, ops) ==
    /\ \A t \in DOMAIN ts : TokenGood(ts[t], n, GoodForAll(B, missed, cs, ops))
    /\ \A i \in DOMAIN ps : PendingGood(ps[i], n, GoodForAll(B, missed, cs, ops))
    /\ \A s \in Slots : CallGood(cs[s], ts, n, GoodFor(B, missed, cs, ops, s))

-----------------------------------------------------------------------------
(* What is good, before and after a step of the handler in slot s. *)

LEMMA GoodBounds ==
    ASSUME NEW B \in SUBSET Nat, NEW ops, NEW s \in Slots
    PROVE  /\ GoodFor(B, lost, calls, ops, s) \subseteq GoodForAll(B, lost, calls, ops)
           /\ B \subseteq GoodFor(B, lost, calls, ops, s)
           /\ ~Due(calls[s], ops) =>
                GoodFor(B, lost, calls, ops, s) = GoodForAll(B, lost, calls, ops)
  BY DEF GoodFor, GoodForAll, Good

\* A handler that steps leaves what the others excuse, and what was good stays
\* good to all others: its sweep is still due, or it was missed, or it is due now.
LEMMA GoodGrows ==
    ASSUME NEW B \in SUBSET Nat, NEW B2 \in SUBSET Nat,
           lost \in BOOLEAN, lost' \in BOOLEAN, lost => lost',
           NEW ops, NEW s \in Slots,
           \A r \in Slots \ {s} : calls'[r] = calls[r],
           B \subseteq B2 \/ Due(calls'[s], ops),
           Due(calls[s], ops) => Due(calls'[s], ops) \/ lost'
    PROVE  /\ GoodForAll(B, lost, calls, ops) \subseteq GoodForAll(B2, lost', calls', ops)
           /\ \A r \in Slots \ {s} :
                GoodFor(B, lost, calls, ops, r) \subseteq GoodFor(B2, lost', calls', ops, r)
           /\ B \subseteq B2 =>
                GoodFor(B, lost, calls, ops, s) \subseteq GoodFor(B2, lost', calls', ops, s)
  <1>1. ASSUME NEW S \in SUBSET Slots, B \subseteq B2 \/ s \in S,
               NEW x \in Good(B, lost, calls, ops, S)
        PROVE  x \in Good(B2, lost', calls', ops, S)
    <2>1. x \in Nat
      BY <1>1 DEF Good
    <2>2. CASE lost \/ \E r \in S : Due(calls[r], ops)
      <3>1. lost' \/ \E r \in S : Due(calls'[r], ops)
        BY <2>2, <1>1 DEF Due
      <3> QED
        BY <2>1, <3>1 DEF Good
    <2>3. CASE ~(lost \/ \E r \in S : Due(calls[r], ops))
      <3>1. x \in B
        BY <2>3, <1>1 DEF Good
      <3>2. x \in B2 \/ \E r \in S : Due(calls'[r], ops)
        BY <3>1, <1>1
      <3> QED
        BY <2>1, <3>2 DEF Good
    <2> QED
      BY <2>2, <2>3
  <1>2. GoodForAll(B, lost, calls, ops) \subseteq GoodForAll(B2, lost', calls', ops)
    BY <1>1 DEF GoodForAll
  <1>3. ASSUME NEW r \in Slots \ {s}
        PROVE  GoodFor(B, lost, calls, ops, r) \subseteq GoodFor(B2, lost', calls', ops, r)
    BY <1>1 DEF GoodFor
  <1>4. ASSUME B \subseteq B2
        PROVE  GoodFor(B, lost, calls, ops, s) \subseteq GoodFor(B2, lost', calls', ops, s)
    BY <1>1, <1>4 DEF GoodFor
  <1> QED
    BY <1>2, <1>3, <1>4

-----------------------------------------------------------------------------
(* Steps. *)

\* A row keeps what it rests on.
Kept(y, x) ==
    y.born = x.born /\ y.cred = x.cred /\ y.crossed = x.crossed /\ (x.revoked => y.revoked)

\* What stays good when more is good, and the rows it refers to are kept.
LEMMA StaysGood ==
    ASSUME NEW n, NEW G, NEW G2, G \subseteq G2
    PROVE  /\ \A x, y : TokenGood(x, n, G) /\ Kept(y, x) => TokenGood(y, n, G2)
           /\ \A p : PendingGood(p, n, G) => PendingGood(p, n, G2)
           /\ \A c, ts, ts2 :
                CallGood(c, ts, n, G) /\ (c.at = "rotate" => Kept(ts2[c.token], ts[c.token]))
                  => CallGood(c, ts2, n, G2)
  <1>1. \A x, y : TokenGood(x, n, G) /\ Kept(y, x) => TokenGood(y, n, G2)
    BY DEF TokenGood, Kept
  <1>2. \A p : PendingGood(p, n, G) => PendingGood(p, n, G2)
    BY DEF PendingGood
  <1>3. ASSUME NEW c, NEW ts, NEW ts2, CallGood(c, ts, n, G),
               c.at = "rotate" => Kept(ts2[c.token], ts[c.token])
        PROVE  CallGood(c, ts2, n, G2)
    <2>1. c.op = "change" /\ c.at \in {"read", "update"} /\ c.seen = n /\ ~c.crossed => G2 # {}
      BY <1>3 DEF CallGood
    <2>2. c.at = "rotate" /\ c.seen = n /\ ~ts2[c.token].crossed => ts2[c.token].cred \in G2
      BY <1>3 DEF CallGood, Kept
    <2> QED
      BY <1>3, <2>1, <2>2 DEF CallGood
  <1> QED
    BY <1>1, <1>2, <1>3

\* A step that sweeps nothing: what the handler has now is good, and so are the
\* rows it adds.
LEMMA Onward ==
    ASSUME SessionsTypeOK, NEW B \in SUBSET Nat, NEW B2 \in SUBSET Nat, NEW ops,
           Accounted(tokens, pendings, calls, sweeps, lost, B, ops),
           NEW s \in Slots, NEW c, calls' = [calls EXCEPT ![s] = c],
           sweeps' = sweeps, lost' \in BOOLEAN, lost => lost',
           B \subseteq B2 \/ Due(c, ops),
           Due(calls[s], ops) => Due(c, ops) \/ lost',
           \A t \in DOMAIN tokens : t \in DOMAIN tokens' /\ Kept(tokens'[t], tokens[t]),
           \A t \in DOMAIN tokens' \ DOMAIN tokens :
             TokenGood(tokens'[t], sweeps, GoodForAll(B2, lost', calls', ops)),
           \A i \in DOMAIN pendings' :
             \/ i \in DOMAIN pendings /\ pendings'[i] = pendings[i]
             \/ PendingGood(pendings'[i], sweeps, GoodForAll(B2, lost', calls', ops)),
           CallGood(c, tokens', sweeps, GoodFor(B2, lost', calls', ops, s))
    PROVE  Accounted(tokens', pendings', calls', sweeps', lost', B2, ops)
  <1> DEFINE G == GoodForAll(B, lost, calls, ops)
             H(r) == GoodFor(B, lost, calls, ops, r)
             G2 == GoodForAll(B2, lost', calls', ops)
             H2(r) == GoodFor(B2, lost', calls', ops, r)
  <1>1. lost \in BOOLEAN /\ calls'[s] = c /\ \A r \in Slots \ {s} : calls'[r] = calls[r]
    BY DEF SessionsTypeOK
  <1>2. G \subseteq G2 /\ \A r \in Slots \ {s} : H(r) \subseteq H2(r)
    <2>1. (B \subseteq B2 \/ Due(calls'[s], ops))
          /\ (Due(calls[s], ops) => Due(calls'[s], ops) \/ lost')
      BY <1>1
    <2> QED
      BY <1>1, <2>1, GoodGrows
  <1>3. /\ \A t \in DOMAIN tokens : TokenGood(tokens[t], sweeps, G)
        /\ \A i \in DOMAIN pendings : PendingGood(pendings[i], sweeps, G)
        /\ \A r \in Slots : CallGood(calls[r], tokens, sweeps, H(r))
    BY DEF Accounted
  <1> HIDE DEF G, H, G2, H2
  <1>4. ASSUME NEW t \in DOMAIN tokens' PROVE TokenGood(tokens'[t], sweeps, G2)
    <2>1. CASE t \in DOMAIN tokens
      BY <2>1, <1>2, <1>3, StaysGood
    <2>2. CASE t \notin DOMAIN tokens
      BY <2>2 DEF G2
    <2> QED
      BY <2>1, <2>2
  <1>5. ASSUME NEW i \in DOMAIN pendings' PROVE PendingGood(pendings'[i], sweeps, G2)
    <2>1. CASE i \in DOMAIN pendings /\ pendings'[i] = pendings[i]
      <3>1. PendingGood(pendings[i], sweeps, G)
        BY <2>1, <1>3
      <3> QED
        BY <2>1, <3>1, <1>2, StaysGood
    <2>2. CASE PendingGood(pendings'[i], sweeps, G2)
      BY <2>2
    <2> QED
      BY <2>1, <2>2 DEF G2
  <1>6. ASSUME NEW r \in Slots PROVE CallGood(calls'[r], tokens', sweeps, H2(r))
    <2>1. CASE r = s
      BY <2>1, <1>1 DEF H2
    <2>2. CASE r # s
      <3>1. calls[r].at = "rotate" => Kept(tokens'[calls[r].token], tokens[calls[r].token])
        BY DEF SessionsTypeOK
      <3>2. CallGood(calls[r], tokens, sweeps, H(r)) /\ H(r) \subseteq H2(r)
        BY <2>2, <1>2, <1>3
      <3>3. CallGood(calls[r], tokens', sweeps, H2(r))
        BY <3>1, <3>2, StaysGood
      <3> QED
        BY <2>2, <3>3, <1>1
    <2> QED
      BY <2>1, <2>2
  <1> QED
    BY <1>4, <1>5, <1>6 DEF Accounted, G2, H2

\* After a sweep, all that was established is older than the sweep.
LEMMA AfterSweep ==
    ASSUME SessionsTypeOK, NEW B \in SUBSET Nat, NEW ops,
           Accounted(tokens, pendings, calls, sweeps, lost, B, ops),
           NEW s \in Slots, NEW c, calls' = [calls EXCEPT ![s] = c],
           tokens' = AllRevoked, sweeps' = sweeps + 1, pendings' = pendings,
           CallGood(c, tokens', sweeps + 1, GoodFor(B, lost', calls', ops, s))
    PROVE  Accounted(tokens', pendings', calls', sweeps', lost', B, ops)
  <1>1. sweeps \in Nat /\ calls'[s] = c /\ \A r \in Slots \ {s} : calls'[r] = calls[r]
    BY DEF SessionsTypeOK
  <1>2. ASSUME NEW t \in DOMAIN tokens', NEW G PROVE TokenGood(tokens'[t], sweeps + 1, G)
    <2>1. t \in DOMAIN tokens /\ tokens[t] \in TokenType
          /\ AllRevoked[t] = [tokens[t] EXCEPT !.revoked = TRUE]
      BY RevokedType, TokensTyped DEF SessionsTypeOK
    <2>2. tokens'[t].revoked /\ tokens'[t].born = tokens[t].born /\ tokens[t].born \in Nat
      BY <2>1 DEF TokenType
    <2>3. tokens[t].born =< sweeps
      BY <2>1 DEF Accounted, TokenGood
    <2> QED
      BY <1>1, <2>2, <2>3 DEF TokenGood
  <1>3. ASSUME NEW i \in DOMAIN pendings, NEW G PROVE PendingGood(pendings[i], sweeps + 1, G)
    <2>1. pendings \in Seq([cred : Nat, seen : Nat])
      BY DEF SessionsTypeOK
    <2>2. pendings[i] \in [cred : Nat, seen : Nat]
      BY <2>1, SeqElement
    <2>3. pendings[i].seen \in Nat /\ pendings[i].seen =< sweeps
      BY <2>2 DEF Accounted, PendingGood
    <2> QED
      BY <1>1, <2>3 DEF PendingGood
  <1>4. ASSUME NEW r \in Slots \ {s}, NEW G PROVE CallGood(calls[r], tokens', sweeps + 1, G)
    <2>1. calls[r].seen \in Nat /\ calls[r].seen =< sweeps
      BY CallTyped DEF Accounted, CallGood
    <2> QED
      BY <1>1, <2>1 DEF CallGood
  <1> QED
    BY <1>1, <1>2, <1>3, <1>4 DEF Accounted

\* A step that only moves the handler on.
LEMMA Quietly ==
    ASSUME SessionsTypeOK, NEW B \in SUBSET Nat, NEW ops,
           Accounted(tokens, pendings, calls, sweeps, lost, B, ops),
           NEW s \in Slots, NEW c, calls' = [calls EXCEPT ![s] = c],
           UNCHANGED <<tokens, pendings, sweeps>>, lost' \in BOOLEAN, lost => lost',
           Due(calls[s], ops) => lost',
           CallGood(c, tokens, sweeps, GoodFor(B, lost, calls, ops, s))
    PROVE  Accounted(tokens', pendings', calls', sweeps', lost', B, ops)
  <1>1. /\ GoodFor(B, lost, calls, ops, s) \subseteq GoodFor(B, lost', calls', ops, s)
    BY GoodGrows DEF SessionsTypeOK
  <1>2. CallGood(c, tokens', sweeps, GoodFor(B, lost', calls', ops, s))
    <2>1. \A t \in DOMAIN tokens : Kept(tokens[t], tokens[t])
      BY DEF Kept
    <2>2. Kept(tokens[c.token], tokens[c.token])
      BY DEF Kept
    <2> QED
      BY <1>1, <2>2, StaysGood
  <1>3. \A t \in DOMAIN tokens : t \in DOMAIN tokens' /\ Kept(tokens'[t], tokens[t])
    BY DEF Kept
  <1> QED
    BY <1>2, <1>3, Onward

\* A handler that replies carries nothing.
LEMMA ReplyGood ==
    ASSUME SessionsTypeOK, NEW s \in Slots, NEW ok, NEW token, NEW made,
           Reply(s, ok, token, made)
    PROVE  \E c : /\ calls' = [calls EXCEPT ![s] = c]
                  /\ \A ts, G : \A n \in Nat : CallGood(c, ts, n, G)
  <1> DEFINE r == [Idle EXCEPT !.op = calls[s].op, !.at = "reply", !.ok = ok,
                               !.token = token, !.made = made]
  <1>0. /\ Idle.at = "idle" /\ Idle.seen = 0
        /\ r.at = "reply" /\ r.seen = 0
    BY DEF Idle
  <1>a. calls' = [calls EXCEPT ![s] = Idle] \/ calls' = [calls EXCEPT ![s] = r]
    BY DEF Reply
  <1> HIDE DEF r
  <1>1. PICK c : /\ calls' = [calls EXCEPT ![s] = c]
                 /\ c.at \in {"idle", "reply"} /\ c.seen = 0
    BY <1>0, <1>a
  <1>2. ASSUME NEW ts, NEW G, NEW n \in Nat PROVE CallGood(c, ts, n, G)
    BY <1>1 DEF CallGood, Carries
  <1> QED
    BY <1>1, <1>2

\* Requests begin with what they bring: a token, or an mfa-pending token.
LEMMA GoodBegin ==
    ASSUME SessionsTypeOK, NEW B \in SUBSET Nat, NEW ops, "force" \notin ops,
           Accounted(tokens, pendings, calls, sweeps, lost, B, ops), NEW s \in Slots,
           NEW c, Begin(s, c), CallGood(c, tokens, sweeps, GoodForAll(B, lost, calls, ops))
    PROVE  Accounted(tokens', pendings', calls', sweeps', lost', B, ops)
  <1>1. ~Due(calls[s], ops)
    BY DEF Begin, Due
  <1>2. CallGood(c, tokens, sweeps, GoodFor(B, lost, calls, ops, s))
    BY <1>1, GoodBounds
  <1>3. lost \in BOOLEAN
    BY DEF SessionsTypeOK
  <1> QED
    BY <1>1, <1>2, <1>3, Quietly DEF Begin

LEMMA GoodAsk ==
    ASSUME SessionsTypeOK, NEW B \in SUBSET Nat, NEW ops, "force" \notin ops,
           Accounted(tokens, pendings, calls, sweeps, lost, B, ops), NEW s \in Slots,
           Ask(s)
    PROVE  Accounted(tokens', pendings', calls', sweeps', lost', B, ops)
  <1> DEFINE G == GoodForAll(B, lost, calls, ops)
  <1>0. sweeps \in Nat
    BY DEF SessionsTypeOK
  <1> HIDE DEF G
  <1>1. ASSUME NEW p \in 1 .. user.password, Login(s, p) PROVE Accounted(tokens', pendings', calls', sweeps', lost', B, ops)
    <2> DEFINE c == Request("login", "read", 0, p)
    <2>1. c.op = "login" /\ c.at = "read" /\ c.seen = 0
      BY DEF Request, Idle
    <2>2. CallGood(c, tokens, sweeps, G)
      BY <1>0, <2>1 DEF CallGood, Carries
    <2> QED
      BY <1>1, <2>2, GoodBegin DEF Login, G
  <1>2. ASSUME NEW i \in DOMAIN pendings, NEW k \in 0 .. Len(codes), VerifyMfa(s, i, k)
        PROVE Accounted(tokens', pendings', calls', sweeps', lost', B, ops)
    <2> DEFINE c == [Request("verify", "read", 0, pendings[i].cred)
                       EXCEPT !.seen = pendings[i].seen, !.code = k]
    <2>1. /\ c.op = "verify" /\ c.at = "read"
          /\ c.seen = pendings[i].seen /\ c.cred = pendings[i].cred
      BY DEF Request, Idle
    <2>2. PendingGood(pendings[i], sweeps, G)
      BY DEF Accounted, G
    <2>3. CallGood(c, tokens, sweeps, G)
      BY <2>1, <2>2 DEF CallGood, Carries, PendingGood
    <2> QED
      BY <1>2, <2>3, GoodBegin DEF VerifyMfa, G
  <1>3. ASSUME NEW t \in DOMAIN tokens, Refresh(s, t) PROVE Accounted(tokens', pendings', calls', sweeps', lost', B, ops)
    <2> DEFINE c == Request("refresh", "read", t, 0)
    <2>1. c.op = "refresh" /\ c.at = "read" /\ c.seen = 0
      BY DEF Request, Idle
    <2>2. CallGood(c, tokens, sweeps, G)
      BY <1>0, <2>1 DEF CallGood, Carries
    <2> QED
      BY <1>3, <2>2, GoodBegin DEF Refresh, G
  <1>4. ASSUME NEW t \in DOMAIN tokens \cup {0}, Logout(s, t) PROVE Accounted(tokens', pendings', calls', sweeps', lost', B, ops)
    <2> DEFINE at == IF t = 0 THEN "reply" ELSE "revoke"
               c == [Request("logout", at, t, 0) EXCEPT !.ok = (t = 0)]
    <2>1. c.op = "logout" /\ c.at = at /\ c.seen = 0
      BY DEF Request, Idle
    <2>2. CallGood(c, tokens, sweeps, G)
      BY <1>0, <2>1 DEF CallGood, Carries
    <2> QED
      BY <1>4, <2>2, GoodBegin DEF Logout, G
  <1>5. ASSUME NEW t \in DOMAIN tokens, NEW p \in 1 .. user.password, ChangePassword(s, t, p)
        PROVE Accounted(tokens', pendings', calls', sweeps', lost', B, ops)
    <2> DEFINE c == [Request("change", "read", t, p)
                       EXCEPT !.seen = tokens[t].born, !.crossed = tokens[t].crossed]
    <2>1. /\ c.op = "change" /\ c.at = "read"
          /\ c.seen = tokens[t].born /\ c.crossed = tokens[t].crossed
      BY DEF Request, Idle
    <2>2. TokenGood(tokens[t], sweeps, G)
      BY DEF Accounted, G
    <2>3. CallGood(c, tokens, sweeps, G)
      BY <2>1, <2>2 DEF CallGood, Carries, TokenGood
    <2> QED
      BY <1>5, <2>3, GoodBegin DEF ChangePassword, G
  <1> QED
    BY <1>1, <1>2, <1>3, <1>4, <1>5 DEF Ask

LEMMA GoodAdminister ==
    ASSUME SessionsTypeOK, NEW B \in SUBSET Nat, NEW ops, "force" \notin ops,
           Accounted(tokens, pendings, calls, sweeps, lost, B, ops), NEW s \in Slots,
           Administer(s)
    PROVE  Accounted(tokens', pendings', calls', sweeps', lost', B, ops)
  <1>1. ASSUME NEW op \in AdminOps, NEW at \in {"update", "sweep", "revoke"}, NEW t,
               Begin(s, Request(op, at, t, 0))
        PROVE Accounted(tokens', pendings', calls', sweeps', lost', B, ops)
    <2> DEFINE c == Request(op, at, t, 0)
    <2>1. c.op = op /\ c.at = at /\ c.seen = 0
      BY DEF Request, Idle
    <2>2. CallGood(c, tokens, sweeps, GoodForAll(B, lost, calls, ops))
      BY <2>1 DEF CallGood, Carries, AdminOps, SessionsTypeOK
    <2> QED
      BY <1>1, <2>2, GoodBegin
  <1>2. {"suspend", "reactivate", "reset", "force", "revoke"} = AdminOps
    BY DEF AdminOps
  <1> QED
    BY <1>1, <1>2 DEF Administer, SetAgentStatus, ResetAgentPassword, ForceLogout, RevokeSession

\* A request is refused, stops, or was answered.
LEMMA GoodRest ==
    ASSUME SessionsTypeOK, NEW B \in SUBSET Nat, NEW ops, "force" \notin ops,
           Accounted(tokens, pendings, calls, sweeps, lost, B, ops), NEW s \in Slots,
           Refuse(s) \/ Abandon(s) \/ Respond(s)
    PROVE  Accounted(tokens', pendings', calls', sweeps', lost', B, ops)
  <1>1. PICK c : /\ calls' = [calls EXCEPT ![s] = c]
                 /\ \A ts, G : \A n \in Nat : CallGood(c, ts, n, G)
    <2>1. CASE Refuse(s) \/ Abandon(s)
      BY <2>1, ReplyGood DEF Refuse, Abandon
    <2>2. CASE Respond(s)
      <3>1. ASSUME NEW ts, NEW G, NEW n \in Nat PROVE CallGood(Idle, ts, n, G)
        BY DEF CallGood, Carries, Idle
      <3> QED
        BY <2>2, <3>1 DEF Respond
    <2> QED
      BY <2>1, <2>2
  <1>2. lost' \in BOOLEAN /\ (lost => lost') /\ (Due(calls[s], ops) => lost')
    <2>1. lost \in BOOLEAN
      BY DEF SessionsTypeOK
    <2>2. CASE Refuse(s) \/ Respond(s)
      <3>1. lost' = lost /\ calls[s].at # "sweep"
        BY <2>2 DEF Refuse, Respond
      <3> QED
        BY <2>1, <3>1 DEF Due
    <2>3. CASE Abandon(s)
      BY <2>1, <2>3 DEF Abandon, Due
    <2> QED
      BY <2>2, <2>3
  <1>3. CallGood(c, tokens, sweeps, GoodFor(B, lost, calls, ops, s))
    BY <1>1 DEF SessionsTypeOK
  <1>4. UNCHANGED <<tokens, pendings, sweeps>>
    BY DEF Refuse, Abandon, Respond
  <1> QED
    BY <1>1, <1>2, <1>3, <1>4, Quietly

\* The handler that steps, and the tokens, before it.
LEMMA Before ==
    ASSUME SessionsTypeOK, NEW B \in SUBSET Nat, NEW ops,
           Accounted(tokens, pendings, calls, sweeps, lost, B, ops), NEW s \in Slots
    PROVE  /\ calls[s] \in CallType /\ sweeps \in Nat /\ lost \in BOOLEAN
           /\ CallGood(calls[s], tokens, sweeps, GoodFor(B, lost, calls, ops, s))
           /\ \A t \in DOMAIN tokens :
                TokenGood(tokens[t], sweeps, GoodForAll(B, lost, calls, ops))
  BY CallTyped DEF Accounted, SessionsTypeOK

LEMMA GoodLoginRead ==
    ASSUME SessionsTypeOK, NEW B \in SUBSET Nat, NEW ops, "force" \notin ops,
           Accounted(tokens, pendings, calls, sweeps, lost, B, ops), NEW s \in Slots,
           LoginRead(s), user.password \in B
    PROVE  Accounted(tokens', pendings', calls', sweeps', lost', B, ops)
  <1> DEFINE c == [calls[s] EXCEPT !.at = AfterPassword, !.seen = sweeps]
             G == GoodFor(B, lost, calls, ops, s)
  <1>1. calls' = [calls EXCEPT ![s] = c] /\ UNCHANGED <<tokens, pendings, sweeps, lost>>
    BY DEF LoginRead
  <1>2. /\ c.at \in {"issue", "challenge"} /\ c.seen = sweeps /\ c.cred = user.password
        /\ c.op = "login"
    BY Before DEF LoginRead, AfterPassword, CallType, At
  <1>3. CallGood(c, tokens, sweeps, G)
    <2>1. user.password \in G
      BY GoodBounds DEF G
    <2>2. sweeps =< sweeps
      BY UserTyped
    <2>3. c.op = "login" /\ c.at # "rotate" /\ c.cred \in G
      BY <1>2, <2>1
    <2> HIDE DEF c, G
    <2> QED
      BY <1>2, <2>2, <2>3 DEF CallGood, Carries
  <1>4. ~Due(calls[s], ops)
    BY DEF LoginRead, At, Due
  <1> QED
    BY <1>1, <1>3, <1>4, Before, Quietly DEF G

LEMMA GoodVerifyRead ==
    ASSUME SessionsTypeOK, NEW B \in SUBSET Nat, NEW ops, "force" \notin ops,
           Accounted(tokens, pendings, calls, sweeps, lost, B, ops), NEW s \in Slots,
           VerifyRead(s)
    PROVE  Accounted(tokens', pendings', calls', sweeps', lost', B, ops)
  <1> DEFINE c == [calls[s] EXCEPT !.at = IF mfa = "EMAIL" THEN "consume" ELSE "issue"]
             G == GoodFor(B, lost, calls, ops, s)
  <1>1. calls' = [calls EXCEPT ![s] = c] /\ UNCHANGED <<tokens, pendings, sweeps, lost>>
    BY DEF VerifyRead, Goto
  <1>2. /\ c.at \in {"consume", "issue"} /\ c.seen = calls[s].seen /\ c.cred = calls[s].cred
        /\ c.crossed = calls[s].crossed /\ c.op = "verify"
        /\ calls[s].op = "verify" /\ calls[s].at = "read"
    BY Before DEF VerifyRead, CallType, At
  <1>3. CallGood(c, tokens, sweeps, G)
    <2> HIDE DEF c
    <2> QED
      BY <1>2, Before DEF CallGood, Carries, G
  <1>4. ~Due(calls[s], ops)
    BY DEF VerifyRead, At, Due
  <1> QED
    BY <1>1, <1>3, <1>4, Before, Quietly DEF G

LEMMA GoodConsume ==
    ASSUME SessionsTypeOK, NEW B \in SUBSET Nat, NEW ops, "force" \notin ops,
           Accounted(tokens, pendings, calls, sweeps, lost, B, ops), NEW s \in Slots,
           ConsumeOtpCode(s)
    PROVE  Accounted(tokens', pendings', calls', sweeps', lost', B, ops)
  <1> DEFINE c == [calls[s] EXCEPT !.at = "issue", !.twice = codes[calls[s].code].consumed]
             G == GoodFor(B, lost, calls, ops, s)
  <1>1. calls' = [calls EXCEPT ![s] = c] /\ UNCHANGED <<tokens, pendings, sweeps, lost>>
    BY DEF ConsumeOtpCode
  <1>2. /\ c.at = "issue" /\ c.seen = calls[s].seen /\ c.cred = calls[s].cred
        /\ c.crossed = calls[s].crossed /\ calls[s].at = "consume"
    BY Before DEF ConsumeOtpCode, CallType
  <1>3. CallGood(c, tokens, sweeps, G)
    <2> HIDE DEF c
    <2> QED
      BY <1>2, Before DEF CallGood, Carries, G
  <1>4. ~Due(calls[s], ops)
    BY DEF ConsumeOtpCode, Due
  <1> QED
    BY <1>1, <1>3, <1>4, Before, Quietly DEF G

LEMMA GoodRefreshRead ==
    ASSUME SessionsTypeOK, NEW B \in SUBSET Nat, NEW ops, "force" \notin ops,
           Accounted(tokens, pendings, calls, sweeps, lost, B, ops), NEW s \in Slots,
           RefreshRead(s)
    PROVE  Accounted(tokens', pendings', calls', sweeps', lost', B, ops)
  <1> DEFINE c == [calls[s] EXCEPT !.at = IF tokens[calls[s].token].revoked THEN "alarm" ELSE "rotate", !.seen = sweeps]
             G == GoodFor(B, lost, calls, ops, s)
  <1>1. calls' = [calls EXCEPT ![s] = c] /\ UNCHANGED <<tokens, pendings, sweeps, lost>>
    BY DEF RefreshRead
  <1> DEFINE t == calls[s].token
  <1>2. /\ c.at = IF tokens[t].revoked THEN "alarm" ELSE "rotate"
        /\ c.seen = sweeps /\ c.token = t /\ c.op = "refresh" /\ t \in DOMAIN tokens
    BY Before, CallTyped DEF RefreshRead, CallType, At, Refers
  <1>4. ~Due(calls[s], ops)
    BY DEF RefreshRead, At, Due
  <1>3. CallGood(c, tokens, sweeps, G)
    <2>1. TokenGood(tokens[t], sweeps, G)
      BY <1>2, <1>4, Before, GoodBounds
    <2> HIDE DEF c, t, G
    <2> QED
      BY <1>2, <2>1, Before DEF CallGood, Carries, TokenGood
  <1> QED
    BY <1>1, <1>3, <1>4, Before, Quietly DEF G

LEMMA GoodChangeRead ==
    ASSUME SessionsTypeOK, NEW B \in SUBSET Nat, NEW ops, "force" \notin ops,
           Accounted(tokens, pendings, calls, sweeps, lost, B, ops), NEW s \in Slots,
           ChangeRead(s)
    PROVE  Accounted(tokens', pendings', calls', sweeps', lost', B, ops)
  <1> DEFINE c == [calls[s] EXCEPT !.at = "update"]
             G == GoodFor(B, lost, calls, ops, s)
  <1>1. calls' = [calls EXCEPT ![s] = c] /\ UNCHANGED <<tokens, pendings, sweeps, lost>>
    BY DEF ChangeRead, Goto
  <1>2. /\ c.at = "update" /\ c.seen = calls[s].seen /\ c.crossed = calls[s].crossed
        /\ c.op = "change" /\ calls[s].op = "change" /\ calls[s].at = "read"
    BY Before DEF ChangeRead, CallType, At
  <1>3. CallGood(c, tokens, sweeps, G)
    <2> HIDE DEF c
    <2> QED
      BY <1>2, Before DEF CallGood, Carries, G
  <1>4. ~Due(calls[s], ops)
    BY DEF ChangeRead, At, Due
  <1> QED
    BY <1>1, <1>3, <1>4, Before, Quietly DEF G

LEMMA RevokedKeeps ==
    ASSUME tokens \in Seq(TokenType), NEW t \in DOMAIN tokens, NEW i \in DOMAIN tokens
    PROVE  Kept(Revoked(t)[i], tokens[i])
  <1>1. tokens[t] \in TokenType
    BY TokensTyped
  <1>2. Kept([tokens[t] EXCEPT !.revoked = TRUE], tokens[t])
    BY <1>1 DEF Kept, TokenType
  <1>3. Kept(tokens[i], tokens[i])
    BY DEF Kept
  <1> QED
    BY <1>2, <1>3, OneRevokedType

LEMMA GoodRevoke ==
    ASSUME SessionsTypeOK, NEW B \in SUBSET Nat, NEW ops, "force" \notin ops,
           Accounted(tokens, pendings, calls, sweeps, lost, B, ops), NEW s \in Slots,
           RevokeRefreshToken(s)
    PROVE  Accounted(tokens', pendings', calls', sweeps', lost', B, ops)
  <1>1. PICK c : /\ calls' = [calls EXCEPT ![s] = c]
                 /\ \A ts, G : \A n \in Nat : CallGood(c, ts, n, G)
    BY ReplyGood DEF RevokeRefreshToken
  <1>2. /\ calls[s].token \in DOMAIN tokens /\ tokens \in Seq(TokenType)
        /\ tokens' = Revoked(calls[s].token)
    BY CallTyped DEF RevokeRefreshToken, Refers, SessionsTypeOK
  <1>3. DOMAIN tokens' = DOMAIN tokens /\ \A t \in DOMAIN tokens : Kept(tokens'[t], tokens[t])
    BY <1>2, OneRevokedType, RevokedKeeps
  <1>4. ~Due(calls[s], ops) /\ UNCHANGED <<pendings, sweeps, lost>>
    BY DEF RevokeRefreshToken, Due
  <1> QED
    BY <1>1, <1>3, <1>4, Before, Onward

LEMMA GoodChallenge ==
    ASSUME SessionsTypeOK, NEW B \in SUBSET Nat, NEW ops, "force" \notin ops,
           Accounted(tokens, pendings, calls, sweeps, lost, B, ops), NEW s \in Slots,
           Challenge(s)
    PROVE  Accounted(tokens', pendings', calls', sweeps', lost', B, ops)
  <1>1. PICK c : /\ calls' = [calls EXCEPT ![s] = c]
                 /\ \A ts, G : \A n \in Nat : CallGood(c, ts, n, G)
    BY ReplyGood DEF Challenge
  <1> DEFINE p == [cred |-> calls[s].cred, seen |-> calls[s].seen]
             G2 == GoodForAll(B, lost', calls', ops)
  <1>2. ~Due(calls[s], ops) /\ UNCHANGED <<tokens, sweeps, lost>>
    BY DEF Challenge, Due
  <1>3. PendingGood(p, sweeps, G2)
    <2>1. calls[s].seen =< sweeps /\ (calls[s].seen = sweeps => calls[s].cred \in GoodFor(B, lost, calls, ops, s))
      BY Before DEF CallGood, Challenge
    <2>2. GoodFor(B, lost, calls, ops, s) \subseteq G2
      <3>1. GoodForAll(B, lost, calls, ops) \subseteq G2
        BY <1>1, <1>2, Before, GoodGrows DEF SessionsTypeOK
      <3> QED
        BY <3>1, GoodBounds
    <2> HIDE DEF G2
    <2> QED
      BY <2>1, <2>2 DEF PendingGood
  <1>4. \A i \in DOMAIN pendings' :
          \/ i \in DOMAIN pendings /\ pendings'[i] = pendings[i]
          \/ pendings'[i] = p
    <2>1. pendings' = Append(pendings, p)
      BY DEF Challenge
    <2>2. pendings \in Seq([cred : Nat, seen : Nat]) /\ Len(pendings) \in Nat
      BY DEF SessionsTypeOK
    <2>3. p \in [cred : Nat, seen : Nat]
      BY CallTyped
    <2> HIDE DEF p
    <2>4. /\ DOMAIN pendings' = DOMAIN pendings \cup {Len(pendings) + 1}
          /\ \A i \in DOMAIN pendings : pendings'[i] = pendings[i]
          /\ pendings'[Len(pendings) + 1] = p
      BY <2>1, <2>2, <2>3
    <2> QED
      BY <2>4
  <1>5. \A t \in DOMAIN tokens : t \in DOMAIN tokens' /\ Kept(tokens'[t], tokens[t])
    BY <1>2 DEF Kept
  <1>6. \A i \in DOMAIN pendings' :
          \/ i \in DOMAIN pendings /\ pendings'[i] = pendings[i]
          \/ PendingGood(pendings'[i], sweeps, G2)
    BY <1>3, <1>4
  <1> HIDE DEF p
  <1> QED
    BY <1>1, <1>2, <1>5, <1>6, Before, Onward DEF G2

\* A handler that makes a token, and replies.
LEMMA GoodAppend ==
    ASSUME SessionsTypeOK, NEW B \in SUBSET Nat, NEW ops, "force" \notin ops,
           Accounted(tokens, pendings, calls, sweeps, lost, B, ops), NEW s \in Slots,
           NEW c, calls' = [calls EXCEPT ![s] = c],
           \A ts, G : \A n \in Nat : CallGood(c, ts, n, G),
           ~Due(calls[s], ops), UNCHANGED <<pendings, sweeps, lost>>,
           NEW ts \in Seq(TokenType), DOMAIN ts = DOMAIN tokens, Len(ts) = Len(tokens),
           \A t \in DOMAIN tokens : Kept(ts[t], tokens[t]),
           NEW x \in TokenType, tokens' = Append(ts, x),
           TokenGood(x, sweeps, GoodFor(B, lost, calls, ops, s))
    PROVE  Accounted(tokens', pendings', calls', sweeps', lost', B, ops)
  <1>1. /\ DOMAIN tokens' = DOMAIN tokens \cup {Len(tokens) + 1}
        /\ \A t \in DOMAIN tokens : tokens'[t] = ts[t]
        /\ tokens'[Len(tokens) + 1] = x
    BY AppendType
  <1>2. TokenGood(x, sweeps, GoodForAll(B, lost', calls', ops))
    <2>1. GoodForAll(B, lost, calls, ops) \subseteq GoodForAll(B, lost', calls', ops)
      BY Before, GoodGrows DEF SessionsTypeOK
    <2>2. GoodFor(B, lost, calls, ops, s) \subseteq GoodForAll(B, lost', calls', ops)
      BY <2>1, GoodBounds
    <2> QED
      BY <2>2 DEF TokenGood
  <1>3. \A t \in DOMAIN tokens : t \in DOMAIN tokens' /\ Kept(tokens'[t], tokens[t])
    BY <1>1
  <1>4. \A t \in DOMAIN tokens' \ DOMAIN tokens :
          TokenGood(tokens'[t], sweeps, GoodForAll(B, lost', calls', ops))
    BY <1>1, <1>2
  <1> QED
    BY <1>3, <1>4, Before, Onward

LEMMA GoodIssue ==
    ASSUME SessionsTypeOK, NEW B \in SUBSET Nat, NEW ops, "force" \notin ops,
           Accounted(tokens, pendings, calls, sweeps, lost, B, ops), NEW s \in Slots,
           IssueRefreshToken(s)
    PROVE  Accounted(tokens', pendings', calls', sweeps', lost', B, ops)
  <1>1. PICK c : /\ calls' = [calls EXCEPT ![s] = c]
                 /\ \A ts, G : \A n \in Nat : CallGood(c, ts, n, G)
    BY ReplyGood DEF IssueRefreshToken
  <1> DEFINE d == calls[s].crossed \/ calls[s].seen # sweeps
             n == Len(tokens) + 1
             x == Token(0, n, sweeps, calls[s].cred, d, calls[s].code, calls[s].twice)
  <1>2. tokens \in Seq(TokenType) /\ n \in Nat
    BY DEF SessionsTypeOK
  <1>3. x \in TokenType
    BY <1>2, CallTyped, UserTyped, TokenFields
  <1>4. x.born = sweeps /\ ~x.revoked /\ x.cred = calls[s].cred /\ x.crossed = d
    BY DEF Token
  <1>5. tokens' = Append(tokens, x) /\ UNCHANGED <<pendings, sweeps, lost>>
        /\ calls[s].at = "issue"
    BY DEF IssueRefreshToken
  <1> HIDE DEF x
  <1>6. TokenGood(x, sweeps, GoodFor(B, lost, calls, ops, s))
    <2>1. ~x.crossed => calls[s].seen = sweeps /\ ~calls[s].crossed
      BY <1>4
    <2>2. calls[s].seen = sweeps /\ ~calls[s].crossed => calls[s].cred \in GoodFor(B, lost, calls, ops, s)
      BY <1>5, Before DEF CallGood, Carries
    <2>3. x.born =< sweeps
      BY <1>4, UserTyped
    <2> QED
      BY <1>4, <2>1, <2>2, <2>3 DEF TokenGood
  <1>7. \A t \in DOMAIN tokens : Kept(tokens[t], tokens[t])
    BY DEF Kept
  <1>8. ~Due(calls[s], ops)
    BY <1>5 DEF Due
  <1> QED
    BY <1>1, <1>2, <1>3, <1>5, <1>6, <1>7, <1>8, GoodAppend

LEMMA GoodRotate ==
    ASSUME SessionsTypeOK, NEW B \in SUBSET Nat, NEW ops, "force" \notin ops,
           Accounted(tokens, pendings, calls, sweeps, lost, B, ops), NEW s \in Slots,
           Rotate(s)
    PROVE  Accounted(tokens', pendings', calls', sweeps', lost', B, ops)
  <1> DEFINE t == calls[s].token
  <1>1. PICK c : /\ calls' = [calls EXCEPT ![s] = c]
                 /\ \A ts, G : \A n \in Nat : CallGood(c, ts, n, G)
    BY ReplyGood DEF Rotate
  <1>2. /\ t \in DOMAIN tokens
        /\ \E x \in TokenType :
             /\ tokens' = Append(Revoked(t), x)
             /\ x.born = sweeps /\ x.cred = tokens[t].cred
             /\ x.crossed = (tokens[t].crossed \/ calls[s].seen # sweeps)
    BY RotateRows
  <1>3. PICK x \in TokenType : /\ tokens' = Append(Revoked(t), x)
                               /\ x.born = sweeps /\ x.cred = tokens[t].cred
                               /\ x.crossed = (tokens[t].crossed \/ calls[s].seen # sweeps)
    BY <1>2
  <1>4. calls[s].at = "rotate" /\ UNCHANGED <<pendings, sweeps, lost>>
    BY DEF Rotate
  <1>5. TokenGood(x, sweeps, GoodFor(B, lost, calls, ops, s))
    <2>1. ~x.crossed => calls[s].seen = sweeps /\ ~tokens[t].crossed
      BY <1>3
    <2>2. calls[s].seen = sweeps /\ ~tokens[t].crossed => tokens[t].cred \in GoodFor(B, lost, calls, ops, s)
      BY <1>4, Before DEF CallGood
    <2>3. x.born =< sweeps
      BY <1>3, UserTyped
    <2> QED
      BY <1>3, <2>1, <2>2, <2>3 DEF TokenGood
  <1>6. /\ Revoked(t) \in Seq(TokenType) /\ DOMAIN Revoked(t) = DOMAIN tokens
        /\ Len(Revoked(t)) = Len(tokens)
        /\ \A i \in DOMAIN tokens : Kept(Revoked(t)[i], tokens[i])
    BY <1>2, OneRevokedType, RevokedKeeps DEF SessionsTypeOK
  <1>7. ~Due(calls[s], ops)
    BY <1>4 DEF Due
  <1> HIDE DEF t
  <1> QED
    BY <1>1, <1>3, <1>4, <1>5, <1>6, <1>7, GoodAppend

\* The new password is good; any other is so only until the sweep that is due now.
LEMMA GoodChangeUpdate ==
    ASSUME SessionsTypeOK, NEW B \in SUBSET Nat, NEW ops, "force" \notin ops,
           Accounted(tokens, pendings, calls, sweeps, lost, B, ops), NEW s \in Slots,
           NEW B2 \in SUBSET Nat, ChangeUpdate(s),
           B \subseteq B2 \/ "change" \in ops, B # {} => user.password + 1 \in B2
    PROVE  Accounted(tokens', pendings', calls', sweeps', lost', B2, ops)
  <1> DEFINE c == [calls[s] EXCEPT !.at = "sweep", !.cred = user.password + 1]
             G == GoodFor(B, lost, calls, ops, s)
             G2 == GoodFor(B2, lost', calls', ops, s)
  <1>1. calls' = [calls EXCEPT ![s] = c] /\ UNCHANGED <<tokens, pendings, sweeps, lost>>
    BY DEF ChangeUpdate
  <1>2. /\ c.at = "sweep" /\ c.seen = calls[s].seen /\ c.crossed = calls[s].crossed
        /\ c.op = "change" /\ c.cred = user.password + 1
        /\ calls[s].op = "change" /\ calls[s].at = "update"
    BY Before DEF ChangeUpdate, CallType, At
  <1> HIDE DEF c
  <1>3. G # {} => user.password + 1 \in G2
    <2>1. \A r \in Slots \ {s} : calls'[r] = calls[r]
      BY <1>1
    <2> QED
      BY <1>1, <2>1, UserTyped DEF G, G2, GoodFor, Good
  <1>4. CallGood(c, tokens', sweeps, G2)
    <2>1. /\ calls[s].seen =< sweeps
          /\ calls[s].seen = sweeps /\ ~calls[s].crossed => G # {}
      BY <1>2, Before DEF CallGood, G
    <2> HIDE DEF G, G2
    <2> QED
      BY <1>2, <1>3, <2>1 DEF CallGood, Carries
  <1>5. \A t \in DOMAIN tokens : t \in DOMAIN tokens' /\ Kept(tokens'[t], tokens[t])
    BY <1>1 DEF Kept
  <1>6. /\ ~Due(calls[s], ops)
        /\ B \subseteq B2 \/ Due(c, ops)
    BY <1>2 DEF Due
  <1> QED
    BY <1>1, <1>4, <1>5, <1>6, Before, Onward DEF G2

LEMMA GoodAdminUpdate ==
    ASSUME SessionsTypeOK, NEW B \in SUBSET Nat, NEW ops, "force" \notin ops,
           Accounted(tokens, pendings, calls, sweeps, lost, B, ops), NEW s \in Slots,
           NEW B2 \in SUBSET Nat, AdminUpdate(s),
           B \subseteq B2 \/ (calls[s].op \in ops /\ Sweeps(calls[s].op))
    PROVE  Accounted(tokens', pendings', calls', sweeps', lost', B2, ops)
  <1> DEFINE G2 == GoodFor(B2, lost', calls', ops, s)
  <1>1. /\ UNCHANGED <<tokens, pendings, sweeps, lost>>
        /\ calls[s].op \in AdminOps /\ calls[s].at = "update"
    BY DEF AdminUpdate
  <1>2. \A t \in DOMAIN tokens : t \in DOMAIN tokens' /\ Kept(tokens'[t], tokens[t])
    BY <1>1 DEF Kept
  <1>3. ~Due(calls[s], ops)
    BY <1>1 DEF Due
  <1>4. CASE Sweeps(calls[s].op)
    <2> DEFINE c == [calls[s] EXCEPT !.at = "sweep"]
    <2>1. calls' = [calls EXCEPT ![s] = c]
      BY <1>4 DEF AdminUpdate, Goto
    <2>2. c.at = "sweep" /\ c.op = calls[s].op /\ c.seen = calls[s].seen
      BY Before DEF CallType
    <2> HIDE DEF c
    <2>3. CallGood(c, tokens', sweeps, G2)
      <3>1. calls[s].seen =< sweeps
        BY Before DEF CallGood
      <3> QED
        BY <1>1, <2>2, <3>1 DEF CallGood, Carries, AdminOps
    <2>4. B \subseteq B2 \/ Due(c, ops)
      BY <2>2 DEF Due
    <2> QED
      BY <1>1, <1>2, <1>3, <2>1, <2>3, <2>4, Before, Onward
  <1>5. CASE ~Sweeps(calls[s].op)
    <2>1. Reply(s, TRUE, 0, 0)
      BY <1>5 DEF AdminUpdate
    <2>2. PICK c : /\ calls' = [calls EXCEPT ![s] = c]
                   /\ \A ts, G : \A n \in Nat : CallGood(c, ts, n, G)
      BY <2>1, ReplyGood
    <2> QED
      BY <1>1, <1>2, <1>3, <1>5, <2>2, Before, Onward
  <1> QED
    BY <1>4, <1>5

LEMMA GoodSweep ==
    ASSUME SessionsTypeOK, NEW B \in SUBSET Nat, NEW ops, "force" \notin ops,
           Accounted(tokens, pendings, calls, sweeps, lost, B, ops), NEW s \in Slots,
           DetectReuse(s) \/ AdminSweep(s)
    PROVE  Accounted(tokens', pendings', calls', sweeps', lost', B, ops)
  <1>1. PICK c : /\ calls' = [calls EXCEPT ![s] = c]
                 /\ \A ts, G : \A n \in Nat : CallGood(c, ts, n, G)
    BY ReplyGood DEF DetectReuse, AdminSweep
  <1>2. tokens' = AllRevoked /\ sweeps' = sweeps + 1 /\ pendings' = pendings
    BY DEF DetectReuse, AdminSweep
  <1>3. sweeps + 1 \in Nat
    BY UserTyped
  <1> QED
    BY <1>1, <1>2, <1>3, AfterSweep

\* The handler of a password change lives through its own sweep, and no other.
LEMMA GoodChangeSweep ==
    ASSUME SessionsTypeOK, NEW B \in SUBSET Nat, NEW ops, "force" \notin ops,
           Accounted(tokens, pendings, calls, sweeps, lost, B, ops), NEW s \in Slots,
           ChangeSweep(s)
    PROVE  Accounted(tokens', pendings', calls', sweeps', lost', B, ops)
  <1> DEFINE c == [calls[s] EXCEPT !.at = "issue",
                                   !.seen = IF @ = sweeps THEN sweeps + 1 ELSE @]
             G == GoodFor(B, lost, calls, ops, s)
             G2 == GoodFor(B, lost', calls', ops, s)
  <1>1. /\ calls' = [calls EXCEPT ![s] = c]
        /\ tokens' = AllRevoked /\ sweeps' = sweeps + 1 /\ UNCHANGED <<pendings, lost>>
    BY DEF ChangeSweep
  <1>2. /\ c.at = "issue" /\ c.crossed = calls[s].crossed /\ c.cred = calls[s].cred
        /\ c.seen = IF calls[s].seen = sweeps THEN sweeps + 1 ELSE calls[s].seen
        /\ calls[s].op = "change" /\ calls[s].at = "sweep"
    BY Before DEF ChangeSweep, CallType, At
  <1> HIDE DEF c
  <1>3. G \subseteq G2
    <2>1. \A r \in Slots \ {s} : calls'[r] = calls[r]
      BY <1>1
    <2> QED
      BY <1>1, <2>1 DEF G, G2, GoodFor, Good
  <1>4. CallGood(c, tokens', sweeps + 1, G2)
    <2>1. /\ calls[s].seen =< sweeps /\ calls[s].seen \in Nat /\ sweeps \in Nat
          /\ calls[s].seen = sweeps /\ ~calls[s].crossed => calls[s].cred \in G
      BY <1>2, Before, CallTyped DEF CallGood, Carries, G
    <2> HIDE DEF G, G2
    <2>2. c.seen =< sweeps + 1 /\ (c.seen = sweeps + 1 => calls[s].seen = sweeps)
      BY <1>2, <2>1
    <2> QED
      BY <1>2, <1>3, <2>1, <2>2 DEF CallGood, Carries
  <1> QED
    BY <1>1, <1>4, AfterSweep DEF G2

-----------------------------------------------------------------------------
(* Every step, for a base set that follows the user's row. *)

LEMMA GoodStep ==
    ASSUME SessionsTypeOK, NEW B \in SUBSET Nat, NEW B2 \in SUBSET Nat, NEW ops,
           "force" \notin ops,
           Accounted(tokens, pendings, calls, sweeps, lost, B, ops), [Next]_sessionVars,
           user' = user => B2 = B,
           \A s \in Slots :
             /\ LoginRead(s) => user.password \in B
             /\ ChangeUpdate(s) => /\ B \subseteq B2 \/ "change" \in ops
                                   /\ B # {} => user.password + 1 \in B2
             /\ AdminUpdate(s) => B \subseteq B2 \/ (calls[s].op \in ops /\ Sweeps(calls[s].op))
    PROVE  Accounted(tokens', pendings', calls', sweeps', lost', B2, ops)
  <1> DEFINE Goal(b) == Accounted(tokens', pendings', calls', sweeps', lost', b, ops)
  <1>1. CASE UNCHANGED sessionVars
    BY <1>1 DEF sessionVars, Accounted
  <1>2. ASSUME NEW s \in Slots, Ask(s) \/ Administer(s) PROVE Goal(B2)
    <2>1. Goal(B)
      BY <1>2, GoodAsk, GoodAdminister
    <2>2. user' = user
      BY <1>2 DEF Ask, Administer, Login, VerifyMfa, Refresh, Logout, ChangePassword,
           SetAgentStatus, ResetAgentPassword, ForceLogout, RevokeSession, Begin
    <2> QED
      BY <2>1, <2>2
  <1>3. ASSUME NEW s \in Slots,
               \/ Refuse(s) \/ Abandon(s) \/ Respond(s)
               \/ LoginRead(s) \/ Challenge(s) \/ VerifyRead(s) \/ ConsumeOtpCode(s)
               \/ IssueRefreshToken(s) \/ RefreshRead(s) \/ Rotate(s) \/ DetectReuse(s)
               \/ RevokeRefreshToken(s) \/ ChangeRead(s) \/ ChangeSweep(s) \/ AdminSweep(s)
        PROVE Goal(B2)
    <2>1. CASE Refuse(s) \/ Abandon(s) \/ Respond(s) \/ Challenge(s) \/ VerifyRead(s)
      <3>1. Goal(B)
        BY <2>1, GoodRest, GoodChallenge, GoodVerifyRead
      <3>2. user' = user
        BY <2>1 DEF Refuse, Abandon, Respond, Challenge, VerifyRead
      <3> QED
        BY <3>1, <3>2
    <2>2. CASE LoginRead(s)
      <3>1. Goal(B)
        BY <2>2, GoodLoginRead
      <3> QED
        BY <2>2, <3>1 DEF LoginRead
    <2>3. CASE ConsumeOtpCode(s) \/ IssueRefreshToken(s) \/ RefreshRead(s) \/ Rotate(s)
      <3>1. Goal(B)
        BY <2>3, GoodConsume, GoodIssue, GoodRefreshRead, GoodRotate
      <3>2. user' = user
        BY <2>3 DEF ConsumeOtpCode, IssueRefreshToken, RefreshRead, Rotate
      <3> QED
        BY <3>1, <3>2
    <2>4. CASE DetectReuse(s) \/ RevokeRefreshToken(s) \/ ChangeRead(s)
               \/ ChangeSweep(s) \/ AdminSweep(s)
      <3>1. Goal(B)
        BY <2>4, GoodSweep, GoodRevoke, GoodChangeRead, GoodChangeSweep
      <3>2. user' = user
        BY <2>4 DEF DetectReuse, RevokeRefreshToken, ChangeRead, ChangeSweep, AdminSweep
      <3> QED
        BY <3>1, <3>2
    <2> QED
      BY <1>3, <2>1, <2>2, <2>3, <2>4
  <1>4. ASSUME NEW s \in Slots, ChangeUpdate(s) PROVE Goal(B2)
    <2>1. B \subseteq B2 \/ "change" \in ops
      BY <1>4
    <2>2. B # {} => user.password + 1 \in B2
      BY <1>4
    <2> QED
      BY <1>4, <2>1, <2>2, GoodChangeUpdate
  <1>5. ASSUME NEW s \in Slots, AdminUpdate(s) PROVE Goal(B2)
    BY <1>5, GoodAdminUpdate
  <1> QED
    BY <1>1, <1>2, <1>3, <1>4, <1>5 DEF Next, Step

-----------------------------------------------------------------------------
(* Suspension. *)

\* Any credential will do for a user who is not suspended, none for one who is.
Welcome(u) == IF u.status = "SUSPENDED" THEN {} ELSE Nat

LEMMA SuspensionStep ==
    ASSUME SessionsTypeOK, [Next]_sessionVars,
           Accounted(tokens, pendings, calls, sweeps, lost, Welcome(user), {"suspend"})
    PROVE  Accounted(tokens', pendings', calls', sweeps', lost', Welcome(user'), {"suspend"})
  <1> DEFINE B == Welcome(user)
             B2 == Welcome(user')
  <1>1. B \in SUBSET Nat /\ B2 \in SUBSET Nat
    BY DEF Welcome
  <1>2. user' = user => B2 = B
    OBVIOUS
  <1>3. ASSUME NEW s \in Slots
        PROVE /\ LoginRead(s) => user.password \in B
              /\ ChangeUpdate(s) => /\ B \subseteq B2
                                    /\ B # {} => user.password + 1 \in B2
              /\ AdminUpdate(s) =>
                   B \subseteq B2 \/ (calls[s].op \in {"suspend"} /\ Sweeps(calls[s].op))
    <2>1. LoginRead(s) => user.password \in B
      BY UserTyped DEF LoginRead, Welcome
    <2>2. ASSUME ChangeUpdate(s)
          PROVE  B \subseteq B2 /\ (B # {} => user.password + 1 \in B2)
      <3>1. user'.status = user.status
        BY <2>2 DEF ChangeUpdate, SessionsTypeOK
      <3> QED
        BY <3>1, UserTyped DEF Welcome
    <2>3. ASSUME AdminUpdate(s)
          PROVE  B \subseteq B2 \/ (calls[s].op \in {"suspend"} /\ Sweeps(calls[s].op))
      <3>1. CASE calls[s].op = "suspend"
        BY <3>1 DEF Sweeps
      <3>2. CASE calls[s].op # "suspend"
        <4>1. user'.status \in {user.status, "ACTIVE"}
          BY <2>3, <3>2 DEF AdminUpdate, SessionsTypeOK
        <4> QED
          BY <4>1 DEF Welcome
      <3> QED
        BY <3>1, <3>2
    <2> QED
      BY <2>1, <2>2, <2>3
  <1> HIDE DEF B, B2
  <1>4. Accounted(tokens, pendings, calls, sweeps, lost, B, {"suspend"})
    BY DEF B
  <1>5. Accounted(tokens', pendings', calls', sweeps', lost', B2, {"suspend"})
    BY <1>1, <1>2, <1>3, <1>4, GoodStep
  <1> QED
    BY <1>5 DEF B2

\* At the start nothing is in use.
LEMMA NothingYet ==
    ASSUME Init, NEW B, NEW ops
    PROVE  Accounted(tokens, pendings, calls, sweeps, lost, B, ops)
  <1>1. tokens = << >> /\ pendings = << >> /\ sweeps = 0
    BY DEF Init
  <1>2. ASSUME NEW s \in Slots, NEW G PROVE CallGood(calls[s], tokens, sweeps, G)
    BY <1>1 DEF Init, Idle, CallGood, Carries
  <1> QED
    BY <1>1, <1>2 DEF Accounted

(* A suspended user is logged out (setAgentStatus): a token still in use   *)
(* rests on a check that preceded the revocation, or the revocation is due *)
(* or was missed.                                                          *)
THEOREM SuspensionLogsOut == Spec => []SuspendedIsOut
  <1> DEFINE I == Accounted(tokens, pendings, calls, sweeps, lost, Welcome(user), {"suspend"})
  <1>1. Init => I
    BY NothingYet
  <1>2. SessionsTypeOK /\ I /\ [Next]_sessionVars => I'
    BY SuspensionStep
  <1>3. SessionsTypeOK /\ I => SuspendedIsOut
    <2> SUFFICES ASSUME SessionsTypeOK, I, user.status = "SUSPENDED",
                        NEW t \in DOMAIN tokens, Live(t),
                        ~(tokens[t].crossed \/ lost \/ Sweeping({"suspend"}))
                 PROVE  FALSE
      BY DEF SuspendedIsOut
    <2>1. TokenGood(tokens[t], sweeps, GoodForAll(Welcome(user), lost, calls, {"suspend"}))
      BY DEF Accounted
    <2>2. GoodForAll(Welcome(user), lost, calls, {"suspend"}) = {}
      BY DEF GoodForAll, Good, Due, Sweeping, Welcome
    <2> QED
      BY <2>1, <2>2 DEF TokenGood, Live
  <1> HIDE DEF I
  <1> QED
    BY <1>1, <1>2, <1>3, SessionsTypeCorrect, PTL DEF Spec

-----------------------------------------------------------------------------
(* New passwords. *)

LEMMA PasswordStep ==
    ASSUME SessionsTypeOK, [Next]_sessionVars,
           Accounted(tokens, pendings, calls, sweeps, lost, {user.password}, {"change", "reset"})
    PROVE  Accounted(tokens', pendings', calls', sweeps', lost', {user'.password}, {"change", "reset"})
  <1> DEFINE B == {user.password}
             B2 == {user'.password}
             ops == {"change", "reset"}
  <1>1. B \in SUBSET Nat /\ B2 \in SUBSET Nat
    <2>1. SessionsTypeOK'
      BY TypeStep
    <2> QED
      BY <2>1 DEF SessionsTypeOK
  <1>2. user' = user => B2 = B
    OBVIOUS
  <1>3. ASSUME NEW s \in Slots
        PROVE /\ LoginRead(s) => user.password \in B
              /\ ChangeUpdate(s) => /\ "change" \in ops
                                    /\ user.password + 1 \in B2
              /\ AdminUpdate(s) => B \subseteq B2 \/ (calls[s].op \in ops /\ Sweeps(calls[s].op))
    <2>1. ASSUME ChangeUpdate(s) PROVE user.password + 1 \in B2
      BY <2>1 DEF ChangeUpdate, SessionsTypeOK
    <2>2. ASSUME AdminUpdate(s)
          PROVE  B \subseteq B2 \/ (calls[s].op \in ops /\ Sweeps(calls[s].op))
      <3>1. CASE calls[s].op = "reset"
        BY <3>1 DEF Sweeps
      <3>2. CASE calls[s].op # "reset"
        <4>1. user'.password = user.password
          BY <2>2, <3>2 DEF AdminUpdate, SessionsTypeOK
        <4> QED
          BY <4>1
      <3> QED
        BY <3>1, <3>2
    <2> QED
      BY <2>1, <2>2
  <1>4. Accounted(tokens, pendings, calls, sweeps, lost, B, ops)
    OBVIOUS
  <1>a. "force" \notin ops
    OBVIOUS
  <1> HIDE DEF B, B2, ops
  <1>5. Accounted(tokens', pendings', calls', sweeps', lost', B2, ops)
    BY <1>1, <1>2, <1>3, <1>4, <1>a, GoodStep
  <1> QED
    BY <1>5 DEF B2, ops

(* A new password ends the sessions that rest on an old one                *)
(* (changePassword, resetAgentPassword), with the same exceptions.         *)
THEOREM NewPasswordLogsOut == Spec => []OldPasswordIsOut
  <1> DEFINE I == Accounted(tokens, pendings, calls, sweeps, lost, {user.password}, {"change", "reset"})
  <1>1. Init => I
    BY NothingYet
  <1>2. SessionsTypeOK /\ I /\ [Next]_sessionVars => I'
    BY PasswordStep
  <1>3. SessionsTypeOK /\ I => OldPasswordIsOut
    <2> SUFFICES ASSUME SessionsTypeOK, I, NEW t \in DOMAIN tokens, Live(t),
                        tokens[t].cred # user.password,
                        ~(tokens[t].crossed \/ lost \/ Sweeping({"change", "reset"}))
                 PROVE  FALSE
      BY DEF OldPasswordIsOut
    <2>1. TokenGood(tokens[t], sweeps, GoodForAll({user.password}, lost, calls, {"change", "reset"}))
      BY DEF Accounted
    <2>2. GoodForAll({user.password}, lost, calls, {"change", "reset"}) = {user.password}
      BY DEF GoodForAll, Good, Due, Sweeping
    <2> QED
      BY <2>1, <2>2 DEF TokenGood, Live
  <1> HIDE DEF I
  <1> QED
    BY <1>1, <1>2, <1>3, SessionsTypeCorrect, PTL DEF Spec
=============================================================================
