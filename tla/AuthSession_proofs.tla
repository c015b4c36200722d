-------------------------- MODULE AuthSession_proofs --------------------------
(***************************************************************************)
(* Proofs for any tabs, callers and bounds.                                *)
(*                                                                         *)
(* A refresh token has one successor: tokens are only ever revoked, or     *)
(* issued at the head of a new chain, or issued in the step that revokes   *)
(* the one they replace, so of a chain one token at most is live.          *)
(*                                                                         *)
(* A logout sticks: a token is of the session of the one it was issued     *)
(* for, and once the cookies hold none of an open session, neither they    *)
(* nor a request get one before the next login.                            *)
(*                                                                         *)
(* The queue of the Web Lock holds a tab once, while its refresh is under  *)
(* way.  With Web Locks no tab ends the login of another: the lock is held *)
(* from the reading of the cookies to their replacement, and a token that  *)
(* is on its way to the cookies is held by nobody else, so that what a     *)
(* refresh presents can still be traded.                                   *)
(***************************************************************************)
EXTENDS AuthSession, SequenceTheorems, TLAPS

\* What holds of the tokens: a chain is named by its first token, and one of
\* its tokens at most is not revoked.
TokensOK(s) ==
    /\ s \in Seq(Token)
    /\ \A j \in 1 .. Len(s) : s[j].chain <= j
    /\ \A j, k \in 1 .. Len(s) :
          s[j].chain = s[k].chain /\ ~s[j].revoked /\ ~s[k].revoked => j = k

CallType(n) == [op : {"none", "call", "html", "switch", "logout"},
                st : {"idle", "sent", "revoking", "creating", "ok", "401", "refreshing"},
                token : 0 .. n, new : 0 .. n, retried : BOOLEAN, after : BOOLEAN]
RefreshType(n) == [st : {"none"} \cup Waiting, token : 0 .. n, new : 0 .. n]

\* A change of environment that is past its check.
Going(k) == k.st = "creating" \/ (k.op = "switch" /\ k.st = "revoking")

\* Cookies and requests hold tokens that were issued; a change of environment
\* that goes on has one.
HoldersOK ==
    /\ jar \in 0 .. Len(tokens)
    /\ call \in [Caller -> CallType(Len(tokens))]
    /\ refresh \in [Tab -> RefreshType(Len(tokens))]
    /\ \A c \in Caller : Going(call[c]) => call[c].token # 0

IInv == TokensOK(tokens) /\ HoldersOK

\* Revoking tokens, or letting them age, keeps the chains in order.
LEMMA Revoking ==
    ASSUME NEW s, TokensOK(s), NEW u, u = [j \in 1 .. Len(s) |-> u[j]],
           \A j \in 1 .. Len(s) : /\ u[j] \in Token /\ u[j].chain = s[j].chain
                                  /\ s[j].revoked => u[j].revoked
    PROVE  TokensOK(u) /\ Len(u) = Len(s)
<1>1. Len(s) \in Nat
  BY DEF TokensOK
<1>2. u \in Seq(Token) /\ Len(u) = Len(s)
  BY <1>1
<1>3. \A j \in 1 .. Len(u) : u[j].chain <= j
  BY <1>2 DEF TokensOK
<1>4. \A j, k \in 1 .. Len(u) :
        u[j].chain = u[k].chain /\ ~u[j].revoked /\ ~u[k].revoked => j = k
  BY <1>2 DEF TokensOK
<1> QED
  BY <1>2, <1>3, <1>4 DEF TokensOK

\* So does issuing a token no live one shares a chain with.
LEMMA Issuing ==
    ASSUME NEW s, TokensOK(s), NEW x \in Token, x.chain <= Len(s) + 1,
           \A j \in 1 .. Len(s) : s[j].chain = x.chain => s[j].revoked
    PROVE  TokensOK(Append(s, x)) /\ Len(Append(s, x)) = Len(s) + 1
<1> DEFINE u == Append(s, x)
<1>1. s \in Seq(Token) /\ Len(s) \in Nat
  BY DEF TokensOK
<1>2. /\ u \in Seq(Token) /\ Len(u) = Len(s) + 1 /\ u[Len(u)] = x
      /\ \A j \in 1 .. Len(s) : u[j] = s[j]
  BY <1>1
<1> HIDE DEF u
<1>3. \A j \in 1 .. Len(u) : j \in 1 .. Len(s) \/ j = Len(u)
  BY <1>1, <1>2
<1>4. \A j \in 1 .. Len(u) : u[j].chain <= j
  BY <1>2, <1>3 DEF TokensOK
<1>5. \A j, k \in 1 .. Len(u) :
        u[j].chain = u[k].chain /\ ~u[j].revoked /\ ~u[k].revoked => j = k
  BY <1>2, <1>3 DEF TokensOK
<1>6. TokensOK(u) /\ Len(u) = Len(s) + 1
  BY <1>2, <1>4, <1>5 DEF TokensOK
<1> QED
  BY <1>6 DEF u

\* A token at the head of a new chain shares it with none.
LEMMA NewChain ==
    ASSUME TokensOK(tokens), NEW s \in Session
    PROVE  LET u == Append(tokens, NewToken(s, Len(tokens) + 1))
           IN  TokensOK(u) /\ Len(u) = Len(tokens) + 1
<1> DEFINE x == NewToken(s, Len(tokens) + 1)
<1>1. Len(tokens) \in Nat /\ tokens \in Seq(Token)
  BY DEF TokensOK
<1>2. x \in Token /\ x.chain = Len(tokens) + 1
  BY <1>1 DEF NewToken, Token
<1>3. \A j \in 1 .. Len(tokens) : tokens[j].chain # x.chain
  <2>1. \A j \in 1 .. Len(tokens) : tokens[j].chain <= j /\ tokens[j] \in Token
    BY <1>1 DEF TokensOK
  <2> QED
    BY <1>1, <1>2, <2>1 DEF Token
<1> HIDE DEF x
<1>4. TokensOK(Append(tokens, x)) /\ Len(Append(tokens, x)) = Len(tokens) + 1
  BY <1>1, <1>2, <1>3, Issuing
<1> QED
  BY <1>4 DEF x

\* Revoke and RevokeFamily keep the chains in order.
LEMMA RevokeOK ==
    ASSUME TokensOK(tokens), NEW k
    PROVE  /\ TokensOK(Revoke(k)) /\ Len(Revoke(k)) = Len(tokens)
           /\ TokensOK(RevokeFamily(k)) /\ Len(RevokeFamily(k)) = Len(tokens)
<1>1. \A j \in Pair : tokens[j] \in Token
  BY DEF TokensOK, Pair
<1>2. \A j \in Pair : [tokens[j] EXCEPT !.revoked = TRUE] \in Token
  BY <1>1 DEF Token
<1>3. TokensOK(Revoke(k)) /\ Len(Revoke(k)) = Len(tokens)
  <2> DEFINE u == Revoke(k)
  <2>1. \A j \in Pair : /\ u[j] \in Token /\ u[j].chain = tokens[j].chain
                        /\ tokens[j].revoked => u[j].revoked
    BY <1>1, <1>2 DEF Revoke, Token
  <2>2. u = [j \in Pair |-> u[j]]
    BY DEF Revoke
  <2> HIDE DEF u
  <2>3. TokensOK(u) /\ Len(u) = Len(tokens)
    BY <2>1, <2>2, Revoking DEF Pair
  <2> QED
    BY <2>3 DEF u
<1>4. TokensOK(RevokeFamily(k)) /\ Len(RevokeFamily(k)) = Len(tokens)
  <2> DEFINE u == RevokeFamily(k)
  <2>1. \A j \in Pair : /\ u[j] \in Token /\ u[j].chain = tokens[j].chain
                        /\ tokens[j].revoked => u[j].revoked
    BY <1>1, <1>2 DEF RevokeFamily, Token
  <2>2. u = [j \in Pair |-> u[j]]
    BY DEF RevokeFamily
  <2> HIDE DEF u
  <2>3. TokensOK(u) /\ Len(u) = Len(tokens)
    BY <2>1, <2>2, Revoking DEF Pair
  <2> QED
    BY <2>3 DEF u
<1> QED
  BY <1>3, <1>4

\* Rotation keeps them in order too: the token it replaces was the live one of
\* its chain.
LEMMA RotatedOK ==
    ASSUME TokensOK(tokens), NEW k \in 0 .. Len(tokens)
    PROVE  /\ TokensOK(Rotated(k))
           /\ Len(Rotated(k)) \in {Len(tokens), Len(tokens) + 1}
<1>1. CASE k = 0
  BY <1>1 DEF Rotated
<1>2. CASE k # 0 /\ tokens[k].revoked
  BY <1>2, RevokeOK DEF Rotated
<1>3. CASE k # 0 /\ ~tokens[k].revoked /\ tokens[k].age = "lapsed"
  BY <1>3, RevokeOK DEF Rotated
<1>4. CASE k # 0 /\ ~tokens[k].revoked /\ tokens[k].age # "lapsed"
  <2> DEFINE x == NewToken(tokens[k].session, tokens[k].chain)
             s == Revoke(k)
  <2>1. k \in 1 .. Len(tokens) /\ tokens \in Seq(Token) /\ tokens[k] \in Token
        /\ Len(tokens) \in Nat
    BY <1>4 DEF TokensOK
  <2>2. x \in Token /\ x.chain = tokens[k].chain
    BY <2>1 DEF NewToken, Token
  <2>3. TokensOK(s) /\ Len(s) = Len(tokens)
    BY RevokeOK
  <2>4. x.chain <= Len(s) + 1
    <3>1. tokens[k].chain <= k /\ tokens[k].chain \in Nat
      BY <2>1 DEF TokensOK, Token
    <3> QED
      BY <2>1, <2>2, <2>3, <3>1
  <2>5. ASSUME NEW j \in 1 .. Len(s), s[j].chain = x.chain PROVE s[j].revoked
    <3>1. /\ s[j] = IF j = k THEN [tokens[j] EXCEPT !.revoked = TRUE] ELSE tokens[j]
          /\ tokens[j] \in Token /\ j \in 1 .. Len(tokens)
      BY <2>1, <2>3, <2>5 DEF Revoke, Pair, TokensOK
    <3>2. tokens[j].chain = tokens[k].chain
      BY <2>2, <2>5, <3>1 DEF Token
    <3>3. j = k \/ tokens[j].revoked
      BY <1>4, <2>1, <3>1, <3>2 DEF TokensOK
    <3> QED
      BY <3>1, <3>3 DEF Token
  <2> HIDE DEF x, s
  <2>6. TokensOK(Append(s, x)) /\ Len(Append(s, x)) = Len(s) + 1
    BY <2>2, <2>3, <2>4, <2>5, Issuing
  <2>7. Rotated(k) = Append(s, x)
    BY <1>4 DEF Rotated, s, x
  <2> QED
    BY <2>3, <2>6, <2>7
<1> QED
  BY <1>1, <1>2, <1>3, <1>4

\* What was issued stays issued.
LEMMA StillIssued ==
    ASSUME HoldersOK, NEW n \in Nat, NEW m \in Nat, n = Len(tokens), n <= m
    PROVE  /\ jar \in 0 .. m
           /\ call \in [Caller -> CallType(m)]
           /\ refresh \in [Tab -> RefreshType(m)]
<1>1. 0 .. n \subseteq 0 .. m
  OBVIOUS
<1>2. CallType(n) \subseteq CallType(m)
  BY <1>1 DEF CallType
<1>3. RefreshType(n) \subseteq RefreshType(m)
  BY <1>1 DEF RefreshType
<1> QED
  BY <1>1, <1>2, <1>3 DEF HoldersOK

\* What a caller sends holds the token of the cookies.
LEMMA SentType ==
    ASSUME HoldersOK, NEW n \in Nat, n = Len(tokens), NEW r \in BOOLEAN,
           NEW op \in {"none", "call", "html", "switch", "logout"}
    PROVE  /\ Sent(op, r) \in CallType(n) /\ Sent(op, r).st = "sent"
           /\ NoCall \in CallType(n) /\ NoCall.op = "none"
           /\ NoRefresh \in RefreshType(n)
           /\ [NoRefresh EXCEPT !.st = "queued"] \in RefreshType(n)
<1>1. NoCall \in CallType(n) /\ NoCall.op = "none"
  BY DEF NoCall, CallType
<1>2. jar \in 0 .. n
  BY DEF HoldersOK
<1>3. \A b \in BOOLEAN :
        LET q == [NoCall EXCEPT !.op = op, !.st = "sent", !.token = jar,
                                !.retried = r, !.after = b]
        IN  q \in CallType(n) /\ q.st = "sent"
  BY <1>1, <1>2 DEF CallType, NoCall
<1>4. Sent(op, r) \in CallType(n) /\ Sent(op, r).st = "sent"
  <2>1. (out = "out") \in BOOLEAN
    OBVIOUS
  <2> QED
    BY ONLY <1>3, <2>1, Zenon DEF Sent
<1>5. NoRefresh \in RefreshType(n) /\ [NoRefresh EXCEPT !.st = "queued"] \in RefreshType(n)
  BY DEF NoRefresh, RefreshType, Waiting
<1> QED
  BY <1>1, <1>4, <1>5

\* Before the first step nothing was rotated.
LEMMA InitIInv ==
    ASSUME AuthSessionAssumption, Init
    PROVE  IInv
<1>1. 1 \in Session
  BY DEF AuthSessionAssumption, Session
<1>2. NewToken(1, 1) \in Token /\ NewToken(1, 1).chain = 1
  BY <1>1 DEF NewToken, Token
<1>3. tokens \in Seq(Token) /\ Len(tokens) = 1 /\ tokens[1] = NewToken(1, 1)
  BY <1>2 DEF Init
<1>4. TokensOK(tokens)
  BY <1>2, <1>3 DEF TokensOK
<1>5. HoldersOK
  BY <1>3 DEF Init, HoldersOK, Going, NoCall, NoRefresh, CallType, RefreshType
<1> QED
  BY <1>4, <1>5 DEF IInv

\* The callers of a step that issues nothing: HoldersOK is a matter of the
\* requests that change.
LEMMA Held ==
    ASSUME TokensOK(tokens'), Len(tokens') = Len(tokens), HoldersOK,
           jar' \in 0 .. Len(tokens),
           refresh' \in [Tab -> RefreshType(Len(tokens))],
           call' \in [Caller -> CallType(Len(tokens))],
           \A c \in Caller : Going(call'[c]) => call'[c].token # 0
    PROVE  IInv'
BY DEF IInv, HoldersOK

\* Every step keeps the tokens in order and the holders within what was issued.
LEMMA StepIInv ==
    ASSUME AuthSessionAssumption, IInv, [Next]_vars
    PROVE  IInv'
<1> DEFINE n == Len(tokens)
           Held4 == {"call", "html", "switch", "logout"}
<1>1. TokensOK(tokens) /\ HoldersOK /\ n \in Nat
  BY DEF IInv, TokensOK
<1>2. /\ jar \in 0 .. n
      /\ call \in [Caller -> CallType(n)]
      /\ refresh \in [Tab -> RefreshType(n)]
      /\ \A c \in Caller : Going(call[c]) => call[c].token # 0
  BY <1>1 DEF HoldersOK
<1>3. \A c \in Caller : /\ call[c] \in CallType(n)
                        /\ call[c].op \in {"none"} \cup Held4
                        /\ call[c].token \in 0 .. n
  BY <1>2 DEF CallType
<1>4. \A t \in Tab : /\ refresh[t] \in RefreshType(n)
                     /\ refresh[t].token \in 0 .. n /\ refresh[t].new \in 0 .. n
  BY <1>2 DEF RefreshType
<1>5. /\ NoCall \in CallType(n) /\ NoCall.op = "none"
      /\ NoRefresh \in RefreshType(n)
      /\ [NoRefresh EXCEPT !.st = "queued"] \in RefreshType(n)
  BY <1>1, SentType, Zenon
<1>6. \A op \in {"none"} \cup Held4, r \in BOOLEAN :
         Sent(op, r) \in CallType(n) /\ Sent(op, r).st = "sent"
  BY <1>1, SentType
<1>7. ASSUME UNCHANGED vars PROVE IInv'
  BY <1>7 DEF vars, IInv, TokensOK, HoldersOK
<1>8. ASSUME NEW c \in Caller, NEW op \in Ops[c], Start(c, op) PROVE IInv'
  <2>1. op \in Held4
    BY DEF AuthSessionAssumption
  <2>2. call' = [call EXCEPT ![c] = Sent(op, FALSE)] /\ UNCHANGED <<tokens, jar, refresh>>
    BY <1>8 DEF Start
  <2>3. Sent(op, FALSE) \in CallType(n) /\ Sent(op, FALSE).st = "sent"
    BY <1>6, <2>1
  <2> QED
    BY <1>1, <1>2, <2>2, <2>3, Held DEF Going
<1>9. ASSUME NEW c \in Caller, Serve(c) PROVE IInv'
  <2>1. UNCHANGED <<tokens, jar, refresh>>
    BY <1>9 DEF Serve
  <2>2. PICK st \in {"ok", "401", "revoking"} :
           /\ call' = [call EXCEPT ![c].st = st]
           /\ call[c].op = "switch" /\ st = "revoking" => call[c].token # 0
    BY <1>9 DEF Serve, Valid
  <2>3. [call[c] EXCEPT !.st = st] \in CallType(n)
    BY <1>3 DEF CallType
  <2>4. call' \in [Caller -> CallType(n)]
    BY <1>2, <2>2, <2>3
  <2>5. \A d \in Caller : call'[d] = IF d = c THEN [call[c] EXCEPT !.st = st] ELSE call[d]
    BY <1>2, <2>2
  <2>6. /\ [call[c] EXCEPT !.st = st].op = call[c].op
        /\ [call[c] EXCEPT !.st = st].st = st
        /\ [call[c] EXCEPT !.st = st].token = call[c].token
    BY <1>3 DEF CallType
  <2>7. \A d \in Caller : Going(call'[d]) => call'[d].token # 0
    BY <1>2, <2>2, <2>5, <2>6 DEF Going
  <2> QED
    BY <1>1, <1>2, <2>1, <2>4, <2>7, Held
<1>10. ASSUME NEW c \in Caller, RevokeOld(c) PROVE IInv'
  <2>1. /\ UNCHANGED <<jar, refresh>> /\ tokens' = Revoke(call[c].token)
        /\ call[c].st = "revoking"
    BY <1>10 DEF RevokeOld
  <2>2. TokensOK(tokens') /\ Len(tokens') = n
    BY <1>1, <2>1, RevokeOK
  <2>3. PICK st \in {"creating", "ok"} : call' = [call EXCEPT ![c].st = st]
    BY <1>10 DEF RevokeOld
  <2>4. [call[c] EXCEPT !.st = st] \in CallType(n)
    BY <1>3 DEF CallType
  <2>5. call' \in [Caller -> CallType(n)]
    BY <1>2, <2>3, <2>4
  <2>6. \A d \in Caller : call'[d] = IF d = c THEN [call[c] EXCEPT !.st = st] ELSE call[d]
    BY <1>2, <2>3
  <2>7. /\ [call[c] EXCEPT !.st = st].op = call[c].op
        /\ [call[c] EXCEPT !.st = st].token = call[c].token
    BY <1>3 DEF CallType
  <2>8. call'[c].st = "creating" => call[c].op = "switch"
    BY <1>2, <1>10 DEF RevokeOld
  <2>9. \A d \in Caller : Going(call'[d]) => call'[d].token # 0
    BY <1>2, <2>1, <2>6, <2>7, <2>8 DEF Going
  <2> QED
    BY <1>1, <1>2, <2>1, <2>2, <2>5, <2>9, Held
<1>11. ASSUME NEW c \in Caller, CreateNew(c) PROVE IInv'
  <2>1. /\ UNCHANGED <<jar, refresh>> /\ call[c].token \in 1 .. n
        /\ tokens' = Append(tokens, NewToken(tokens[call[c].token].session, n + 1))
        /\ call' = [call EXCEPT ![c].st = "ok", ![c].new = n + 1]
    BY <1>2, <1>3, <1>11 DEF CreateNew, Going
  <2>2. tokens[call[c].token].session \in Session
    <3>1. tokens[call[c].token] \in Token
      BY <1>1, <2>1 DEF TokensOK
    <3> QED
      BY <3>1 DEF Token
  <2>3. TokensOK(tokens') /\ Len(tokens') = n + 1
    BY <1>1, <2>1, <2>2, NewChain
  <2>4. /\ jar \in 0 .. n + 1 /\ call \in [Caller -> CallType(n + 1)]
        /\ refresh \in [Tab -> RefreshType(n + 1)]
    BY <1>1, StillIssued
  <2>5. /\ [call[c] EXCEPT !.st = "ok", !.new = n + 1] \in CallType(n + 1)
        /\ [call[c] EXCEPT !.st = "ok", !.new = n + 1].st = "ok"
    <3>1. call[c] \in CallType(n + 1)
      BY <2>4
    <3>2. n + 1 \in 0 .. n + 1
      BY <1>1
    <3> QED
      BY <3>1, <3>2 DEF CallType
  <2>6. /\ call' \in [Caller -> CallType(n + 1)]
        /\ \A d \in Caller : d # c => call'[d] = call[d]
        /\ call'[c].st = "ok"
    BY <2>1, <2>4, <2>5
  <2>7. \A d \in Caller : Going(call'[d]) => call'[d].token # 0
    BY <1>2, <2>6 DEF Going
  <2> QED
    BY <2>1, <2>3, <2>4, <2>6, <2>7 DEF IInv, HoldersOK
<1>12. ASSUME NEW t \in Tab, SendRefresh(t) PROVE IInv'
  <2>1. /\ UNCHANGED <<tokens, jar, call>>
        /\ refresh' = [refresh EXCEPT ![t].st = "sent", ![t].token = jar]
    BY <1>12 DEF SendRefresh
  <2>2. [refresh[t] EXCEPT !.st = "sent", !.token = jar] \in RefreshType(n)
    BY <1>2, <1>4 DEF RefreshType, Waiting
  <2> QED
    BY <1>1, <1>2, <2>1, <2>2, Held
<1>13. ASSUME NEW t \in Tab, Rotate(t) PROVE IInv'
  <2>1. UNCHANGED <<jar, call>> /\ tokens' = Rotated(refresh[t].token)
    BY <1>13 DEF Rotate
  <2>2. TokensOK(tokens') /\ Len(tokens') \in {n, n + 1}
    BY <1>1, <1>4, <2>1, RotatedOK
  <2>3. /\ jar \in 0 .. Len(tokens') /\ call \in [Caller -> CallType(Len(tokens'))]
        /\ refresh \in [Tab -> RefreshType(Len(tokens'))]
    BY <1>1, <2>2, StillIssued
  <2>4. /\ [refresh[t] EXCEPT !.st = "rotated", !.new = Len(tokens')] \in RefreshType(Len(tokens'))
        /\ [refresh[t] EXCEPT !.st = "denied"] \in RefreshType(Len(tokens'))
    <3>1. refresh[t] \in RefreshType(Len(tokens'))
      BY <2>3
    <3>2. Len(tokens') \in 0 .. Len(tokens')
      BY <1>1, <2>2
    <3> QED
      BY <3>1, <3>2 DEF RefreshType, Waiting
  <2>5. refresh' \in [Tab -> RefreshType(Len(tokens'))]
    BY <1>13, <2>3, <2>4 DEF Rotate
  <2> QED
    BY <1>2, <2>1, <2>2, <2>3, <2>5 DEF IInv, HoldersOK
<1>14. ASSUME NEW t \in Tab, CheckSession(t) PROVE IInv'
  <2>1. [refresh[t] EXCEPT !.st = "surplus"] \in RefreshType(n)
        /\ [refresh[t] EXCEPT !.st = "granted"] \in RefreshType(n)
    BY <1>4 DEF RefreshType, Waiting
  <2>2. refresh' \in [Tab -> RefreshType(n)] /\ UNCHANGED <<tokens, jar, call>>
    BY <1>2, <1>14, <2>1 DEF CheckSession
  <2> QED
    BY <1>1, <1>2, <2>2, Held
<1>15. ASSUME NEW t \in Tab, RevokeNew(t) PROVE IInv'
  <2>1. [refresh[t] EXCEPT !.st = "denied"] \in RefreshType(n)
    BY <1>4 DEF RefreshType, Waiting
  <2>2. /\ refresh' \in [Tab -> RefreshType(n)] /\ UNCHANGED <<jar, call>>
        /\ tokens' = Revoke(refresh[t].new)
    BY <1>2, <1>15, <2>1 DEF RevokeNew
  <2>3. TokensOK(tokens') /\ Len(tokens') = n
    BY <1>1, <2>2, RevokeOK
  <2> QED
    BY <1>1, <1>2, <2>2, <2>3, Held
<1>16. ASSUME NEW k \in Pair, Age(k) PROVE IInv'
  <2>1. /\ UNCHANGED <<jar, call, refresh>> /\ k \in 1 .. n
    BY <1>16 DEF Age, Pair
  <2>2. PICK age \in {"stale", "lapsed"} : tokens' = [tokens EXCEPT ![k].age = age]
    BY <1>16 DEF Age
  <2>3. /\ tokens \in [1 .. n -> Token] /\ \A j \in 1 .. n : tokens[j] \in Token
    BY <1>1 DEF TokensOK
  <2>4. /\ tokens' = [j \in 1 .. n |-> tokens'[j]]
        /\ \A j \in 1 .. n :
              tokens'[j] = IF j = k THEN [tokens[k] EXCEPT !.age = age] ELSE tokens[j]
    BY <2>1, <2>2, <2>3
  <2>5. /\ [tokens[k] EXCEPT !.age = age] \in Token
        /\ [tokens[k] EXCEPT !.age = age].chain = tokens[k].chain
        /\ [tokens[k] EXCEPT !.age = age].revoked = tokens[k].revoked
    BY <2>1, <2>3 DEF Token
  <2>6. \A j \in 1 .. n : /\ tokens'[j] \in Token /\ tokens'[j].chain = tokens[j].chain
                          /\ tokens[j].revoked => tokens'[j].revoked
    BY <2>3, <2>4, <2>5
  <2>7. TokensOK(tokens') /\ Len(tokens') = n
    BY <1>1, <2>4, <2>6, Revoking
  <2> QED
    BY <1>1, <1>2, <2>1, <2>7, Held
<1>17. ASSUME NEW t \in Tab, Login(t) PROVE IInv'
  <2>1. PICK s \in Session : tokens' = Append(tokens, NewToken(s, n + 1))
    BY <1>17 DEF Login
  <2>2. jar' = n + 1 /\ UNCHANGED <<call, refresh>>
    BY <1>17 DEF Login
  <2>3. TokensOK(tokens') /\ Len(tokens') = n + 1
    BY <1>1, <2>1, NewChain
  <2>4. call \in [Caller -> CallType(n + 1)] /\ refresh \in [Tab -> RefreshType(n + 1)]
    BY <1>1, StillIssued
  <2> QED
    BY <1>1, <1>2, <2>2, <2>3, <2>4 DEF IInv, HoldersOK
<1>18. ASSUME NEW t \in Tab, RefreshAnswered(t) \/ RefreshFailed(t) PROVE IInv'
  <2>1. PICK renewed \in BOOLEAN, cookies \in 0 .. n : Resume(t, renewed, cookies)
    <3>1. /\ RefreshAnswered(t) => Resume(t, TRUE, refresh[t].new) \/ Resume(t, FALSE, 0)
          /\ RefreshFailed(t) => Resume(t, FALSE, jar)
      BY Zenon DEF RefreshAnswered, RefreshFailed
    <3>2. refresh[t].new \in 0 .. n /\ jar \in 0 .. n /\ 0 \in 0 .. n
      BY <1>1, <1>2, <1>4
    <3> QED
      BY <1>18, <3>1, <3>2, Zenon
  <2>2. jar' \in 0 .. n /\ refresh' \in [Tab -> RefreshType(n)]
    BY <1>2, <1>5, <2>1 DEF Resume
  <2>3. UNCHANGED tokens
    BY <1>18 DEF RefreshAnswered, RefreshFailed
  <2>4. \A d \in Caller :
           /\ [Sent(call[d].op, TRUE) EXCEPT !.token = cookies] \in CallType(n)
           /\ [Sent(call[d].op, TRUE) EXCEPT !.token = cookies].st = "sent"
    <3>1. \A d \in Caller : /\ Sent(call[d].op, TRUE) \in CallType(n)
                             /\ Sent(call[d].op, TRUE).st = "sent"
      BY <1>3, <1>6
    <3> QED
      BY <3>1 DEF CallType
  <2>5. \A d \in Caller :
           call'[d] \in {call[d], NoCall, [Sent(call[d].op, TRUE) EXCEPT !.token = cookies]}
    BY <2>1 DEF Resume
  <2>6. \A d \in Caller : call'[d] \in CallType(n) /\ (Going(call'[d]) => call'[d].token # 0)
    <3>1. ~Going(NoCall)
      BY DEF Going, NoCall
    <3>2. \A d \in Caller : ~Going([Sent(call[d].op, TRUE) EXCEPT !.token = cookies])
      BY <2>4 DEF Going
    <3> QED
      BY <1>2, <1>5, <2>4, <2>5, <3>1, <3>2
  <2>7. call' \in [Caller -> CallType(n)]
    <3>1. call' = [d \in Caller |-> call'[d]]
      BY <2>1 DEF Resume
    <3> QED
      BY <2>6, <3>1
  <2> QED
    BY <1>1, <2>2, <2>3, <2>6, <2>7, Held
<1>19. ASSUME NEW c \in Caller, CallFailed(c) \/ Answered(c) PROVE IInv'
  <2>1. UNCHANGED tokens /\ jar' \in {jar, 0, call[c].new}
    BY <1>19 DEF CallFailed, Answered
  <2>2. jar' \in 0 .. n
    BY <1>2, <1>3, <2>1 DEF CallType
  <2>3. refresh' \in [Tab -> RefreshType(n)]
    BY <1>2, <1>5, <1>19 DEF CallFailed, Answered, Join, Leave, Unload, AuthSessionAssumption
  <2>4. [call[c] EXCEPT !.st = "refreshing"] \in CallType(n)
        /\ [call[c] EXCEPT !.st = "refreshing"].st = "refreshing"
    BY <1>3 DEF CallType
  <2>5. \/ call' = [call EXCEPT ![c].st = "refreshing"]
        \/ call' = [call EXCEPT ![c] = NoCall]
        \/ call' = CallsLeft(TabOf[c], [call EXCEPT ![c] = NoCall])
    BY <1>19 DEF CallFailed, Answered
  <2>6. \A d \in Caller : \/ call'[d] \in {call[d], NoCall}
                          \/ d = c /\ call'[d] = [call[c] EXCEPT !.st = "refreshing"]
    <3>1. CASE call' = CallsLeft(TabOf[c], [call EXCEPT ![c] = NoCall])
      <4> DEFINE k == [call EXCEPT ![c] = NoCall]
      <4>1. \A d \in Caller : k[d] \in {call[d], NoCall}
        BY <1>2
      <4>2. call' = CallsLeft(TabOf[c], k)
        BY <3>1
      <4> HIDE DEF k
      <4>3. \A d \in Caller : call'[d] \in {k[d], NoCall}
        BY <4>2 DEF CallsLeft
      <4> QED
        BY <4>1, <4>3
    <3>2. CASE \/ call' = [call EXCEPT ![c].st = "refreshing"]
               \/ call' = [call EXCEPT ![c] = NoCall]
      BY <1>2, <3>2
    <3> QED
      BY <2>5, <3>1, <3>2
  <2>7. call' = [d \in Caller |-> call'[d]]
    BY <1>2, <2>5 DEF CallsLeft
  <2>8. \A d \in Caller : call'[d] \in CallType(n) /\ (Going(call'[d]) => call'[d].token # 0)
    <3>1. ~Going(NoCall) /\ ~Going([call[c] EXCEPT !.st = "refreshing"])
      BY <2>4 DEF Going, NoCall
    <3> QED
      BY <1>2, <1>5, <2>4, <2>6, <3>1
  <2>9. call' \in [Caller -> CallType(n)]
    BY <2>7, <2>8
  <2> QED
    BY <1>1, <2>1, <2>2, <2>3, <2>8, <2>9, Held
<1>20. ASSUME NEW t \in Tab, LoadPage(t) PROVE IInv'
  <2>1. UNCHANGED <<tokens, jar>> /\ Unload(t) /\ call' = CallsLeft(t, call)
    BY <1>20 DEF LoadPage, Leave
  <2>2. refresh' \in [Tab -> RefreshType(n)]
    BY <1>2, <1>5, <2>1 DEF Unload
  <2>3. /\ call' = [d \in Caller |-> call'[d]]
        /\ \A d \in Caller : call'[d] \in {call[d], NoCall}
    BY <2>1 DEF CallsLeft
  <2>4. \A d \in Caller : call'[d] \in CallType(n) /\ (Going(call'[d]) => call'[d].token # 0)
    <3>1. ~Going(NoCall)
      BY DEF Going, NoCall
    <3> QED
      BY <1>2, <1>5, <2>3, <3>1
  <2>5. call' \in [Caller -> CallType(n)]
    BY <2>3, <2>4
  <2> QED
    BY <1>1, <1>2, <2>1, <2>2, <2>4, <2>5, Held
<1> QED
  BY <1>7, <1>8, <1>9, <1>10, <1>11, <1>12, <1>13, <1>14, <1>15, <1>16, <1>17, <1>18, <1>19,
     <1>20 DEF Next, ServeCall, ServeRefresh

\* A refresh token has one successor: whatever tabs present it, however their
\* refreshes interleave with logouts, changes of environment and losses, a chain
\* of rotated tokens has one token at most that is not revoked
\* (AuthenticationSecurityService.RotateRefreshToken).
THEOREM OneSuccessor == Spec => []OneLivePerChain
<1>1. Init => IInv
  BY AuthSessionAssumption, InitIInv
<1>2. IInv /\ [Next]_vars => IInv'
  BY AuthSessionAssumption, StepIInv
<1>3. IInv => OneLivePerChain
  BY DEF IInv, TokensOK, OneLivePerChain, Pair
<1> QED
  BY <1>1, <1>2, <1>3, PTL DEF Spec

-----------------------------------------------------------------------------
(* A logout sticks.  Once it was answered, and no request under way could  *)
(* bring tokens of an open session, the cookies hold none and nobody who   *)
(* sends them can get any: rotation and a change of environment issue a    *)
(* token of the session of the one presented.                              *)

\* Two tokens of one session.
Twin(j, k) == j # 0 /\ k # 0 /\ tokens[j].session = tokens[k].session

CallFine(q) ==
    /\ q.after => ~Open(q.token) /\ (q.st = "ok" => q.op \in {"switch", "logout"})
    /\ q.st \in {"revoking", "creating"} => q.op \in {"switch", "logout"}
    /\ q.op = "switch" /\ q.st = "ok" => Twin(q.token, q.new)
    /\ out = "out" /\ q.op = "switch" /\ q.st \notin {"idle", "refreshing"} => ~Open(q.token)

RefreshFine(q) ==
    /\ q.st \in {"rotated", "surplus", "granted"} => Twin(q.token, q.new)
    /\ out = "out" /\ q.st \in {"sent", "rotated", "granted"} => ~Open(q.token)

OutInv ==
    /\ out = "out" => ~Open(jar)
    /\ \A c \in Caller : CallFine(call[c])
    /\ \A t \in Tab : RefreshFine(refresh[t])

\* The same after a step, of what a request is then.
OpenThen(k) == k # 0 /\ tokens'[k].session \notin closed'
TwinThen(j, k) == j # 0 /\ k # 0 /\ tokens'[j].session = tokens'[k].session
CallFineThen(q) ==
    /\ q.after => ~OpenThen(q.token) /\ (q.st = "ok" => q.op \in {"switch", "logout"})
    /\ q.st \in {"revoking", "creating"} => q.op \in {"switch", "logout"}
    /\ q.op = "switch" /\ q.st = "ok" => TwinThen(q.token, q.new)
    /\ out' = "out" /\ q.op = "switch" /\ q.st \notin {"idle", "refreshing"} =>
         ~OpenThen(q.token)
RefreshFineThen(q) ==
    /\ q.st \in {"rotated", "surplus", "granted"} => TwinThen(q.token, q.new)
    /\ out' = "out" /\ q.st \in {"sent", "rotated", "granted"} => ~OpenThen(q.token)

\* What was issued stays in its session, and no session opens again.
SessionsKept ==
    /\ Len(tokens') >= Len(tokens)
    /\ \A j \in 1 .. Len(tokens) : tokens'[j].session = tokens[j].session
    /\ closed \subseteq closed'

\* OutInv after a step, from what is fine then.
LEMMA OutFinish ==
    ASSUME out' = "out" => ~OpenThen(jar'),
           \A c \in Caller : CallFineThen(call'[c]),
           \A t \in Tab : RefreshFineThen(refresh'[t])
    PROVE  OutInv'
BY DEF OutInv, CallFine, CallFineThen, RefreshFine, RefreshFineThen, Open, OpenThen, Twin,
       TwinThen

\* Revoking does not move a token to another session.
LEMMA SameSessions ==
    ASSUME TokensOK(tokens)
    PROVE  /\ \A k : \A j \in 1 .. Len(tokens) : Revoke(k)[j].session = tokens[j].session
           /\ \A r : \A j \in 1 .. Len(tokens) : RevokeFamily(r)[j].session = tokens[j].session
<1>1. \A j \in Pair : tokens[j] \in Token
  BY DEF TokensOK, Pair
<1>2. \A j \in Pair : [tokens[j] EXCEPT !.revoked = TRUE].session = tokens[j].session
  BY <1>1 DEF Token
<1> QED
  BY <1>2 DEF Revoke, RevokeFamily, Pair

\* Issuing a token leaves the others where they are.
LEMMA AppendKeeps ==
    ASSUME NEW s, TokensOK(s), NEW x
    PROVE  /\ Len(Append(s, x)) = Len(s) + 1 /\ Append(s, x)[Len(s) + 1] = x
           /\ \A j \in 1 .. Len(s) : Append(s, x)[j] = s[j]
BY DEF TokensOK

\* Rotation keeps sessions, and its new token is of the session of the old one.
LEMMA RotatedKeeps ==
    ASSUME TokensOK(tokens), NEW k \in 0 .. Len(tokens)
    PROVE  /\ \A j \in 1 .. Len(tokens) : Rotated(k)[j].session = tokens[j].session
           /\ Len(Rotated(k)) > Len(tokens) =>
                k # 0 /\ Rotated(k)[Len(Rotated(k))].session = tokens[k].session
<1>1. CASE k = 0
  BY <1>1 DEF Rotated
<1>2. CASE k # 0 /\ tokens[k].revoked
  <2>1. Rotated(k) = RevokeFamily(tokens[k].session)
    BY <1>2 DEF Rotated
  <2> QED
    BY <2>1, RevokeOK, SameSessions DEF TokensOK
<1>3. CASE k # 0 /\ ~tokens[k].revoked /\ tokens[k].age = "lapsed"
  <2>1. Rotated(k) = Revoke(k)
    BY <1>3 DEF Rotated
  <2> QED
    BY <2>1, RevokeOK, SameSessions DEF TokensOK
<1>4. CASE k # 0 /\ ~tokens[k].revoked /\ tokens[k].age # "lapsed"
  <2> DEFINE x == NewToken(tokens[k].session, tokens[k].chain)
             s == Revoke(k)
  <2>1. Rotated(k) = Append(s, x) /\ x.session = tokens[k].session
    BY <1>4 DEF Rotated, NewToken
  <2>2. TokensOK(s) /\ Len(s) = Len(tokens)
        /\ \A j \in 1 .. Len(tokens) : s[j].session = tokens[j].session
    BY RevokeOK, SameSessions
  <2> HIDE DEF x, s
  <2>3. /\ Len(Append(s, x)) = Len(s) + 1 /\ Append(s, x)[Len(s) + 1] = x
        /\ \A j \in 1 .. Len(s) : Append(s, x)[j] = s[j]
    BY <2>2, AppendKeeps
  <2> QED
    BY <1>4, <2>1, <2>2, <2>3
<1> QED
  BY <1>1, <1>2, <1>3, <1>4

\* What was fine and did not change is fine after the step.
LEMMA StillFine ==
    ASSUME IInv, OutInv, SessionsKept, out' = "out" => out = "out"
    PROVE  /\ \A k \in 0 .. Len(tokens) : OpenThen(k) => Open(k)
           /\ \A j, k \in 0 .. Len(tokens) : Twin(j, k) => TwinThen(j, k)
           /\ \A c \in Caller : CallFineThen(call[c])
           /\ \A t \in Tab : RefreshFineThen(refresh[t])
<1>1. /\ \A c \in Caller : call[c].token \in 0 .. Len(tokens) /\ call[c].new \in 0 .. Len(tokens)
      /\ \A t \in Tab : refresh[t].token \in 0 .. Len(tokens) /\ refresh[t].new \in 0 .. Len(tokens)
  BY DEF IInv, HoldersOK, CallType, RefreshType
<1>2. Len(tokens) \in Nat
  BY DEF IInv, TokensOK
<1>3. \A k \in 0 .. Len(tokens) : OpenThen(k) => Open(k)
  BY <1>2 DEF OpenThen, Open, SessionsKept
<1>4. \A j, k \in 0 .. Len(tokens) : Twin(j, k) => TwinThen(j, k)
  BY <1>2 DEF Twin, TwinThen, SessionsKept
<1>5. \A c \in Caller : CallFineThen(call[c])
  BY <1>1, <1>3, <1>4 DEF OutInv, CallFine, CallFineThen
<1>6. \A t \in Tab : RefreshFineThen(refresh[t])
  BY <1>1, <1>3, <1>4 DEF OutInv, RefreshFine, RefreshFineThen
<1> QED
  BY <1>3, <1>4, <1>5, <1>6

\* A request that is sent.
LEMMA SentFields ==
    ASSUME NEW op, NEW r \in BOOLEAN
    PROVE  /\ Sent(op, r).op = op /\ Sent(op, r).st = "sent" /\ Sent(op, r).token = jar
           /\ Sent(op, r).after => out = "out"
<1>1. \A b \in BOOLEAN :
        LET q == [NoCall EXCEPT !.op = op, !.st = "sent", !.token = jar,
                                !.retried = r, !.after = b]
        IN  q.op = op /\ q.st = "sent" /\ q.token = jar /\ q.after = b
  BY DEF NoCall
<1>2. (out = "out") \in BOOLEAN
  OBVIOUS
<1> QED
  BY ONLY <1>1, <1>2, Zenon DEF Sent

\* Every step keeps it.
LEMMA StepOut ==
    ASSUME AuthSessionAssumption, IInv, OutInv, [Next]_vars
    PROVE  OutInv'
<1> DEFINE n == Len(tokens)
<1>1. TokensOK(tokens) /\ HoldersOK /\ n \in Nat /\ jar \in 0 .. n
  BY DEF IInv, TokensOK, HoldersOK
<1>2. /\ call \in [Caller -> CallType(n)] /\ refresh \in [Tab -> RefreshType(n)]
      /\ \A c \in Caller : call[c] \in CallType(n) /\ call[c].token \in 0 .. n
                           /\ call[c].new \in 0 .. n
      /\ \A t \in Tab : refresh[t] \in RefreshType(n) /\ refresh[t].token \in 0 .. n
                        /\ refresh[t].new \in 0 .. n
  BY <1>1 DEF HoldersOK, CallType, RefreshType
<1>3. UNCHANGED <<tokens, closed>> => SessionsKept
  BY <1>1 DEF SessionsKept
<1>4. SessionsKept /\ (out' = "out" => out = "out") =>
        /\ \A k \in 0 .. n : OpenThen(k) => Open(k)
        /\ \A j, k \in 0 .. n : Twin(j, k) => TwinThen(j, k)
        /\ \A c \in Caller : CallFineThen(call[c])
        /\ \A t \in Tab : RefreshFineThen(refresh[t])
  BY StillFine
<1>5. CallFineThen(NoCall) /\ RefreshFineThen(NoRefresh)
      /\ RefreshFineThen([NoRefresh EXCEPT !.st = "queued"])
  BY DEF CallFineThen, RefreshFineThen, NoCall, NoRefresh
<1>6. ASSUME UNCHANGED vars PROVE OutInv'
  <2>1. /\ UNCHANGED <<tokens, closed>> /\ out' = out /\ jar' = jar
        /\ call' = call /\ refresh' = refresh
    BY <1>6 DEF vars
  <2> QED
    BY <1>1, <1>3, <1>4, <2>1, OutFinish DEF OutInv
<1>7. ASSUME NEW c \in Caller, NEW op \in Ops[c], Start(c, op) PROVE OutInv'
  <2>1. /\ UNCHANGED <<tokens, closed>> /\ out' = out /\ jar' = jar /\ refresh' = refresh
        /\ call' = [call EXCEPT ![c] = Sent(op, FALSE)]
    BY <1>7 DEF Start
  <2>2. CallFineThen(Sent(op, FALSE))
    <3>1. out = "out" => ~OpenThen(jar)
      BY <1>1, <1>3, <1>4, <2>1 DEF OutInv
    <3>2. /\ Sent(op, FALSE).st = "sent" /\ Sent(op, FALSE).token = jar
          /\ Sent(op, FALSE).after => out = "out"
      BY SentFields
    <3> QED
      BY <2>1, <3>1, <3>2 DEF CallFineThen
  <2>3. \A d \in Caller : CallFineThen(call'[d])
    BY <1>2, <1>3, <1>4, <2>1, <2>2
  <2> QED
    BY <1>1, <1>3, <1>4, <2>1, <2>3, OutFinish DEF OutInv
<1>8. ASSUME NEW c \in Caller, Serve(c) PROVE OutInv'
  <2>1. /\ tokens' = tokens /\ out' = out /\ jar' = jar /\ refresh' = refresh
        /\ closed \subseteq closed' /\ call[c].st = "sent"
    BY <1>8 DEF Serve
  <2>2. SessionsKept
    BY <1>1, <2>1 DEF SessionsKept
  <2>3. PICK st \in {"ok", "401", "revoking"} :
           /\ call' = [call EXCEPT ![c].st = st]
           /\ st = "ok" => call[c].op \in {"call", "html"} /\ Admitted(call[c].token)
           /\ st = "revoking" => call[c].op \in {"switch", "logout"}
    BY <1>8 DEF Serve
  <2>4. PICK q : q = [call[c] EXCEPT !.st = st]
    OBVIOUS
  <2>5. q.op = call[c].op /\ q.st = st /\ q.token = call[c].token /\ q.after = call[c].after
    BY <1>2, <2>4 DEF CallType
  <2>6. CallFineThen(call[c])
    BY <1>4, <2>1, <2>2
  <2>7. call[c].after => ~Admitted(call[c].token)
    BY DEF OutInv, CallFine, Open, Admitted, Valid
  <2>8. CallFineThen(q)
    BY <2>1, <2>3, <2>5, <2>6, <2>7 DEF CallFineThen
  <2>9. \A d \in Caller : CallFineThen(call'[d])
    BY <1>2, <1>4, <2>1, <2>2, <2>3, <2>4, <2>8
  <2> QED
    BY <1>1, <1>4, <2>1, <2>2, <2>9, OutFinish DEF OutInv
<1>9. ASSUME NEW c \in Caller, RevokeOld(c) PROVE OutInv'
  <2>1. /\ tokens' = Revoke(call[c].token) /\ closed' = closed /\ out' = out /\ jar' = jar
        /\ refresh' = refresh /\ call[c].st = "revoking"
    BY <1>9 DEF RevokeOld
  <2>2. SessionsKept
    BY <1>1, <2>1, RevokeOK, SameSessions DEF SessionsKept
  <2>3. PICK st \in {"creating", "ok"} : /\ call' = [call EXCEPT ![c].st = st]
                                         /\ st = "ok" => call[c].op # "switch"
    BY <1>9 DEF RevokeOld
  <2>4. PICK q : q = [call[c] EXCEPT !.st = st]
    OBVIOUS
  <2>5. q.op = call[c].op /\ q.st = st /\ q.token = call[c].token /\ q.after = call[c].after
    BY <1>2, <2>4 DEF CallType
  <2>6. CallFineThen(call[c])
    BY <1>4, <2>1, <2>2
  <2>7. call[c].op \in {"switch", "logout"}
    BY <2>1 DEF OutInv, CallFine
  <2>8. CallFineThen(q)
    BY <2>1, <2>3, <2>5, <2>6, <2>7 DEF CallFineThen
  <2>9. \A d \in Caller : CallFineThen(call'[d])
    BY <1>2, <1>4, <2>1, <2>2, <2>3, <2>4, <2>8
  <2> QED
    BY <1>1, <1>4, <2>1, <2>2, <2>9, OutFinish DEF OutInv
<1>10. ASSUME NEW c \in Caller, CreateNew(c) PROVE OutInv'
  <2>1. /\ closed' = closed /\ out' = out /\ jar' = jar /\ refresh' = refresh
        /\ call[c].st = "creating" /\ call[c].token \in 1 .. n
        /\ tokens' = Append(tokens, NewToken(tokens[call[c].token].session, n + 1))
        /\ call' = [call EXCEPT ![c].st = "ok", ![c].new = n + 1]
    BY <1>1, <1>2, <1>10 DEF CreateNew, HoldersOK, Going
  <2>2. /\ SessionsKept
        /\ tokens'[n + 1].session = tokens'[call[c].token].session
    <3>1. /\ Len(tokens') = n + 1 /\ \A j \in 1 .. n : tokens'[j] = tokens[j]
          /\ tokens'[n + 1] = NewToken(tokens[call[c].token].session, n + 1)
      BY <1>1, <2>1, AppendKeeps
    <3> QED
      BY <1>1, <2>1, <3>1 DEF SessionsKept, NewToken
  <2>3. PICK q : q = [call[c] EXCEPT !.st = "ok", !.new = n + 1]
    OBVIOUS
  <2>4. /\ q.op = call[c].op /\ q.st = "ok" /\ q.token = call[c].token
        /\ q.after = call[c].after /\ q.new = n + 1
    BY <1>2, <2>3 DEF CallType
  <2>5. CallFineThen(call[c]) /\ call[c].op \in {"switch", "logout"}
    BY <1>4, <2>1, <2>2 DEF OutInv, CallFine
  <2>6. TwinThen(q.token, q.new)
    BY <1>1, <2>1, <2>2, <2>4 DEF TwinThen
  <2>7. CallFineThen(q)
    BY <2>1, <2>4, <2>5, <2>6 DEF CallFineThen
  <2>8. \A d \in Caller : CallFineThen(call'[d])
    BY <1>2, <1>4, <2>1, <2>2, <2>3, <2>7
  <2> QED
    BY <1>1, <1>4, <2>1, <2>2, <2>8, OutFinish DEF OutInv
<1>11. ASSUME NEW t \in Tab, SendRefresh(t) PROVE OutInv'
  <2>1. /\ UNCHANGED <<tokens, closed>> /\ out' = out /\ jar' = jar /\ call' = call
        /\ refresh' = [refresh EXCEPT ![t].st = "sent", ![t].token = jar]
    BY <1>11 DEF SendRefresh
  <2>2. PICK q : q = [refresh[t] EXCEPT !.st = "sent", !.token = jar]
    OBVIOUS
  <2>3. q.st = "sent" /\ q.token = jar
    BY <1>2, <2>2 DEF RefreshType
  <2>4. out = "out" => ~OpenThen(jar)
    BY <1>1, <1>3, <1>4, <2>1 DEF OutInv
  <2>5. RefreshFineThen(q)
    BY <2>1, <2>3, <2>4 DEF RefreshFineThen
  <2>6. \A u \in Tab : RefreshFineThen(refresh'[u])
    BY <1>2, <1>3, <1>4, <2>1, <2>2, <2>5
  <2> QED
    BY <1>3, <1>4, <2>1, <2>4, <2>6, OutFinish
<1>12. ASSUME NEW t \in Tab, Rotate(t) PROVE OutInv'
  <2>1. /\ closed' = closed /\ out' = out /\ jar' = jar /\ call' = call
        /\ refresh[t].st = "sent" /\ tokens' = Rotated(refresh[t].token)
    BY <1>12 DEF Rotate
  <2>2. /\ SessionsKept
        /\ Len(tokens') > n => TwinThen(refresh[t].token, Len(tokens'))
    <3>1. /\ Len(tokens') \in {n, n + 1}
          /\ \A j \in 1 .. n : tokens'[j].session = tokens[j].session
          /\ Len(tokens') > n =>
               refresh[t].token # 0
               /\ tokens'[Len(tokens')].session = tokens[refresh[t].token].session
      BY <1>1, <1>2, <2>1, RotatedOK, RotatedKeeps
    <3>2. SessionsKept
      BY <1>1, <2>1, <3>1 DEF SessionsKept
    <3> QED
      BY <1>1, <1>2, <3>1, <3>2 DEF TwinThen
  <2>3. RefreshFineThen(refresh[t])
    BY <1>4, <2>1, <2>2
  <2>4. CASE Len(tokens') > n
    <3>1. PICK q : q = [refresh[t] EXCEPT !.st = "rotated", !.new = Len(tokens')]
      OBVIOUS
    <3>2. q.st = "rotated" /\ q.new = Len(tokens') /\ q.token = refresh[t].token
      BY <1>2, <3>1 DEF RefreshType
    <3>3. RefreshFineThen(q)
      BY <2>1, <2>2, <2>3, <2>4, <3>2 DEF RefreshFineThen
    <3>4. refresh' = [refresh EXCEPT ![t].st = "rotated", ![t].new = Len(tokens')]
      BY <1>12, <2>4 DEF Rotate
    <3>5. \A u \in Tab : RefreshFineThen(refresh'[u])
      BY <1>2, <1>4, <2>1, <2>2, <3>1, <3>3, <3>4
    <3> QED
      BY <1>1, <1>4, <2>1, <2>2, <3>5, OutFinish DEF OutInv
  <2>5. CASE ~(Len(tokens') > n)
    <3>1. PICK q : q = [refresh[t] EXCEPT !.st = "denied"]
      OBVIOUS
    <3>2. q.st = "denied"
      BY <1>2, <3>1 DEF RefreshType
    <3>3. RefreshFineThen(q)
      BY <3>2 DEF RefreshFineThen
    <3>4. refresh' = [refresh EXCEPT ![t].st = "denied"]
      BY <1>12, <2>5 DEF Rotate
    <3>5. \A u \in Tab : RefreshFineThen(refresh'[u])
      BY <1>2, <1>4, <2>1, <2>2, <3>1, <3>3, <3>4
    <3> QED
      BY <1>1, <1>4, <2>1, <2>2, <3>5, OutFinish DEF OutInv
  <2> QED
    BY <2>4, <2>5
<1>13. ASSUME NEW t \in Tab, CheckSession(t) \/ RevokeNew(t) PROVE OutInv'
  <2>1. /\ closed' = closed /\ out' = out /\ jar' = jar /\ call' = call
        /\ tokens' \in {tokens, Revoke(refresh[t].new)}
    BY <1>13 DEF CheckSession, RevokeNew
  <2>2. SessionsKept
    BY <1>1, <2>1, RevokeOK, SameSessions DEF SessionsKept
  <2>3. PICK st \in {"surplus", "granted", "denied"} :
          /\ refresh' = [refresh EXCEPT ![t].st = st]
          /\ st # "denied" => refresh[t].st = "rotated"
    BY <1>13 DEF CheckSession, RevokeNew
  <2>4. PICK q : q = [refresh[t] EXCEPT !.st = st]
    OBVIOUS
  <2>5. q.st = st /\ q.new = refresh[t].new /\ q.token = refresh[t].token
    BY <1>2, <2>4 DEF RefreshType
  <2>6. RefreshFineThen(refresh[t])
    BY <1>4, <2>1, <2>2
  <2>7. RefreshFineThen(q)
    BY <2>3, <2>5, <2>6 DEF RefreshFineThen
  <2>8. \A u \in Tab : RefreshFineThen(refresh'[u])
    BY <1>2, <1>4, <2>1, <2>2, <2>3, <2>4, <2>7
  <2> QED
    BY <1>1, <1>4, <2>1, <2>2, <2>8, OutFinish DEF OutInv
<1>14. ASSUME NEW k \in Pair, Age(k) PROVE OutInv'
  <2>1. /\ closed' = closed /\ out' = out /\ jar' = jar /\ call' = call /\ refresh' = refresh
        /\ k \in 1 .. n
    BY <1>14 DEF Age, Pair
  <2>2. PICK age \in {"stale", "lapsed"} : tokens' = [tokens EXCEPT ![k].age = age]
    BY <1>14 DEF Age
  <2>3. SessionsKept
    <3>1. \A j \in 1 .. n : tokens[j] \in Token
      BY <1>1 DEF TokensOK
    <3>2. [tokens[k] EXCEPT !.age = age].session = tokens[k].session
      BY <2>1, <3>1 DEF Token
    <3>3. Len(tokens') = n /\ \A j \in 1 .. n : tokens'[j].session = tokens[j].session
      BY <1>1, <2>1, <2>2, <3>2 DEF TokensOK
    <3> QED
      BY <1>1, <2>1, <3>3 DEF SessionsKept
  <2> QED
    BY <1>1, <1>4, <2>1, <2>3, OutFinish DEF OutInv
<1>15. ASSUME NEW t \in Tab, Login(t) PROVE OutInv'
  <2>1. PICK s \in Session : tokens' = Append(tokens, NewToken(s, n + 1))
    BY <1>15 DEF Login
  <2>2. closed' = closed /\ out' = "in" /\ call' = call /\ refresh' = refresh
    BY <1>15 DEF Login
  <2>3. SessionsKept
    <3>1. Len(tokens') = n + 1 /\ \A j \in 1 .. n : tokens'[j] = tokens[j]
      BY <1>1, <2>1, AppendKeeps
    <3> QED
      BY <1>1, <2>2, <3>1 DEF SessionsKept
  <2> QED
    BY <1>4, <2>2, <2>3, OutFinish
<1>16. ASSUME NEW t \in Tab, RefreshAnswered(t) \/ RefreshFailed(t) PROVE OutInv'
  <2>1. UNCHANGED <<tokens, closed>> /\ out' = out
    BY <1>16 DEF RefreshAnswered, RefreshFailed
  <2>2. PICK renewed \in BOOLEAN, cookies \in {0, jar, refresh[t].new} :
          /\ Resume(t, renewed, cookies)
          /\ cookies = refresh[t].new => cookies = 0 \/ cookies = jar \/ refresh[t].st = "granted"
    <3>1. /\ RefreshAnswered(t) => \/ refresh[t].st = "granted" /\ Resume(t, TRUE, refresh[t].new)
                                   \/ Resume(t, FALSE, 0)
          /\ RefreshFailed(t) => Resume(t, FALSE, jar)
      BY Zenon DEF RefreshAnswered, RefreshFailed
    <3> QED
      BY <1>16, <3>1, Zenon
  <2>3. out = "out" => ~OpenThen(cookies)
    <3>1. OpenThen(cookies) => Open(cookies)
      BY <1>1, <1>2, <1>3, <1>4, <2>1
    <3>2. out = "out" /\ refresh[t].st = "granted" => ~Open(refresh[t].new)
      BY DEF OutInv, RefreshFine, Twin, Open
    <3>3. out = "out" => ~Open(jar) /\ ~Open(0)
      BY DEF OutInv, Open
    <3> QED
      BY <2>2, <3>1, <3>2, <3>3
  <2>4. jar' = cookies /\ refresh' = [refresh EXCEPT ![t] = NoRefresh]
    BY <2>2 DEF Resume
  <2>5. \A u \in Tab : RefreshFineThen(refresh'[u])
    BY <1>2, <1>3, <1>4, <1>5, <2>1, <2>4
  <2>6. \A d \in Caller :
          call'[d] \in {call[d], NoCall, [Sent(call[d].op, TRUE) EXCEPT !.token = cookies]}
    BY <2>2 DEF Resume
  <2>7. \A d \in Caller : CallFineThen([Sent(call[d].op, TRUE) EXCEPT !.token = cookies])
    <3> SUFFICES ASSUME NEW d \in Caller
                 PROVE  CallFineThen([Sent(call[d].op, TRUE) EXCEPT !.token = cookies])
      OBVIOUS
    <3>1. PICK q : q = [Sent(call[d].op, TRUE) EXCEPT !.token = cookies]
      OBVIOUS
    <3>2. Sent(call[d].op, TRUE) \in CallType(n)
      BY <1>1, <1>2, SentType DEF CallType
    <3>3. q.after => out = "out"
      BY <3>1, <3>2, SentFields DEF CallType
    <3>4. q.st = "sent" /\ q.token = cookies
      BY <3>1, <3>2, SentFields DEF CallType
    <3>5. CallFineThen(q)
      BY <2>1, <2>3, <3>3, <3>4 DEF CallFineThen
    <3> QED
      BY <3>1, <3>5
  <2>8. \A d \in Caller : CallFineThen(call'[d])
    BY <1>3, <1>4, <1>5, <2>1, <2>6, <2>7
  <2> QED
    BY <2>1, <2>3, <2>4, <2>5, <2>8, OutFinish
<1>17. ASSUME NEW c \in Caller, CallFailed(c) \/ Answered(c) PROVE OutInv'
  <2>1. UNCHANGED <<tokens, closed>>
    BY <1>17 DEF CallFailed, Answered
  <2>2. /\ \A k : OpenThen(k) <=> Open(k)
        /\ \A j, k : TwinThen(j, k) <=> Twin(j, k)
    BY <2>1 DEF OpenThen, Open, TwinThen, Twin
  <2>3. \/ out' = out /\ jar' = jar
        \/ out' = out /\ jar' = call[c].new /\ call[c].st = "ok" /\ call[c].op = "switch"
        \/ jar' = 0 /\ (out' = "out" => ~MayBringTokens)
    BY <1>17 DEF CallFailed, Answered
  <2>4. \A d \in Caller : CallFineThen(call[d])
    <3>1. CASE out' = "out" => out = "out"
      BY <1>3, <1>4, <2>1, <3>1
    <3>2. CASE ~MayBringTokens
      BY <2>2, <3>2 DEF OutInv, CallFine, CallFineThen, MayBringTokens
    <3> QED
      BY <2>3, <3>1, <3>2
  <2>5. \A u \in Tab : RefreshFineThen(refresh[u])
    <3>1. CASE out' = "out" => out = "out"
      BY <1>3, <1>4, <2>1, <3>1
    <3>2. CASE ~MayBringTokens
      BY <2>2, <3>2 DEF OutInv, RefreshFine, RefreshFineThen, MayBringTokens
    <3> QED
      BY <2>3, <3>1, <3>2
  <2>6. out' = "out" => ~OpenThen(jar')
    <3>1. CASE out' = out /\ jar' = jar
      BY <2>2, <3>1 DEF OutInv
    <3>2. CASE out' = out /\ jar' = call[c].new /\ call[c].st = "ok" /\ call[c].op = "switch"
      BY <2>2, <3>2 DEF OutInv, CallFine, Twin, Open
    <3>3. CASE jar' = 0
      BY <3>3 DEF OpenThen
    <3> QED
      BY <2>3, <3>1, <3>2, <3>3
  <2>7. \A u \in Tab :
          refresh'[u] \in {refresh[u], NoRefresh, [NoRefresh EXCEPT !.st = "queued"]}
    BY <1>2, <1>17 DEF CallFailed, Answered, Join, Leave, Unload
  <2>8. \A u \in Tab : RefreshFineThen(refresh'[u])
    BY <1>5, <2>5, <2>7
  <2>9. \/ call' = [call EXCEPT ![c].st = "refreshing"]
        \/ call' = [call EXCEPT ![c] = NoCall]
        \/ call' = CallsLeft(TabOf[c], [call EXCEPT ![c] = NoCall])
    BY <1>17 DEF CallFailed, Answered
  <2>10. PICK q : q = [call[c] EXCEPT !.st = "refreshing"]
    OBVIOUS
  <2>11. CallFineThen(q)
    <3>1. /\ q.st = "refreshing" /\ q.op = call[c].op /\ q.token = call[c].token
          /\ q.after = call[c].after
      BY <1>2, <2>10 DEF CallType
    <3> QED
      BY <2>4, <3>1 DEF CallFineThen
  <2>12. \A d \in Caller : call'[d] \in {call[d], NoCall, q}
    <3>1. CASE call' = CallsLeft(TabOf[c], [call EXCEPT ![c] = NoCall])
      <4> DEFINE k == [call EXCEPT ![c] = NoCall]
      <4>1. \A d \in Caller : k[d] \in {call[d], NoCall}
        BY <1>2
      <4>2. call' = CallsLeft(TabOf[c], k)
        BY <3>1
      <4> HIDE DEF k
      <4>3. \A d \in Caller : call'[d] \in {k[d], NoCall}
        BY <4>2 DEF CallsLeft
      <4> QED
        BY <4>1, <4>3
    <3>2. CASE \/ call' = [call EXCEPT ![c].st = "refreshing"]
               \/ call' = [call EXCEPT ![c] = NoCall]
      BY <1>2, <2>10, <3>2
    <3> QED
      BY <2>9, <3>1, <3>2
  <2>13. \A d \in Caller : CallFineThen(call'[d])
    BY <1>5, <2>4, <2>11, <2>12
  <2> QED
    BY <2>6, <2>8, <2>13, OutFinish
<1>18. ASSUME NEW t \in Tab, LoadPage(t) PROVE OutInv'
  <2>1. /\ UNCHANGED <<tokens, closed, jar>> /\ out' = out /\ Unload(t)
        /\ call' = CallsLeft(t, call)
    BY <1>18 DEF LoadPage, Leave
  <2>2. out' = "out" => ~OpenThen(jar')
    BY <1>1, <1>3, <1>4, <2>1 DEF OutInv
  <2>3. \A d \in Caller : CallFineThen(call'[d])
    <3>1. \A d \in Caller : call'[d] \in {call[d], NoCall}
      BY <2>1 DEF CallsLeft
    <3> QED
      BY <1>3, <1>4, <1>5, <2>1, <3>1
  <2>4. \A u \in Tab : RefreshFineThen(refresh'[u])
    <3>1. \A u \in Tab : refresh'[u] \in {refresh[u], NoRefresh}
      BY <1>2, <2>1 DEF Unload
    <3> QED
      BY <1>3, <1>4, <1>5, <2>1, <3>1
  <2> QED
    BY <2>2, <2>3, <2>4, OutFinish
<1> QED
  BY <1>6, <1>7, <1>8, <1>9, <1>10, <1>11, <1>12, <1>13, <1>14, <1>15, <1>16, <1>17, <1>18
     DEF Next, ServeCall, ServeRefresh

\* After a logout was answered nobody is admitted to the company's data until
\* somebody signs in again, for any tabs, callers and losses, unless a refresh
\* or a change of environment with a session still open was under way when the
\* answer came (Program.cs, POST /api/auth/logout).
THEOREM LogoutHolds == Spec => []LogoutSticks
<1>1. Init => IInv /\ OutInv
  <2>1. Init => OutInv
    BY DEF Init, OutInv, CallFine, RefreshFine, NoCall, NoRefresh
  <2> QED
    BY <2>1, AuthSessionAssumption, InitIInv
<1>2. IInv /\ OutInv /\ [Next]_vars => IInv' /\ OutInv'
  BY AuthSessionAssumption, StepIInv, StepOut
<1>3. OutInv => LogoutSticks
  BY DEF OutInv, CallFine, LogoutSticks
<1> QED
  BY <1>1, <1>2, <1>3, PTL DEF Spec
-----------------------------------------------------------------------------
(* The queue of the Web Lock, and the other variables. *)

Has(s, x) == \E i \in DOMAIN s : s[i] = x

\* A tab that leaves the queue is no longer in it, and the others still are,
\* the first one first.
LEMMA Dequeue ==
    ASSUME NEW s \in Seq(Tab), IsInjective(s), NEW t
    PROVE  /\ RemoveFirst(s, t) \in Seq(Tab) /\ IsInjective(RemoveFirst(s, t))
           /\ \A x : Has(RemoveFirst(s, t), x) <=> Has(s, x) /\ x # t
           /\ s # <<>> /\ Head(s) # t =>
                RemoveFirst(s, t) # <<>> /\ Head(RemoveFirst(s, t)) = Head(s)
<1> DEFINE n == Len(s)
<1>1. n \in Nat /\ DOMAIN s = 1 .. n /\ s \in [1 .. n -> Tab]
  OBVIOUS
<1>2. CASE ~Has(s, t)
  BY <1>1, <1>2 DEF RemoveFirst, Has
<1>3. CASE Has(s, t)
  <2>1. PICK i \in 1 .. n : s[i] = t
    BY <1>1, <1>3 DEF Has
  <2> DEFINE u == SubSeq(s, 1, i - 1)  v == SubSeq(s, i + 1, n)  w == u \o v
  <2>2. RemoveFirst(s, t) = w
    <3>1. {j \in 1 .. n : s[j] = t} = {i}
      BY <1>1, <2>1 DEF IsInjective
    <3>2. Min({i}) = i
      BY <2>1 DEF Min
    <3>3. SelectInSeq(s, LAMBDA x : x = t) = i
      BY <3>1, <3>2 DEF SelectInSeq
    <3> QED
      BY <2>1, <3>3 DEF RemoveFirst, RemoveAt
  <2>3. u \in Seq(Tab) /\ Len(u) = i - 1 /\ \A j \in 1 .. i - 1 : u[j] = s[j]
    <3>1. 1 \in Int /\ i - 1 \in Int /\ \A j \in 1 .. i - 1 : s[j] \in Tab
      BY <1>1, <2>1
    <3> QED
      BY <1>1, <2>1, <3>1, SubSeqProperties
  <2>4. v \in Seq(Tab) /\ Len(v) = n - i /\ \A j \in 1 .. n - i : v[j] = s[i + j]
    <3>1. i + 1 \in Int /\ n \in Int /\ \A j \in i + 1 .. n : s[j] \in Tab
      BY <1>1, <2>1
    <3>2. /\ SubSeq(s, i + 1, n) \in Seq(Tab)
          /\ Len(SubSeq(s, i + 1, n)) = IF i + 1 <= n THEN n - (i + 1) + 1 ELSE 0
          /\ \A j \in 1 .. n - (i + 1) + 1 : SubSeq(s, i + 1, n)[j] = s[(i + 1) + j - 1]
      BY <3>1, SubSeqProperties
    <3>3. ASSUME NEW j \in 1 .. n - i PROVE v[j] = s[i + j]
      <4>1. j \in 1 .. n - (i + 1) + 1 /\ (i + 1) + j - 1 = i + j
        BY <1>1, <2>1
      <4>2. SubSeq(s, i + 1, n)[j] = s[(i + 1) + j - 1]
        BY ONLY <3>2, <4>1
      <4> QED
        BY <4>1, <4>2
    <3>4. Len(v) = n - i
      <4>1. i \in Nat /\ i <= n
        BY <1>1, <2>1
      <4>2. /\ i + 1 <= n => Len(v) = n - (i + 1) + 1
            /\ ~(i + 1 <= n) => Len(v) = 0
        BY <3>2
      <4> HIDE DEF v, n
      <4>3. CASE i + 1 <= n
        BY <1>1, <4>1, <4>2, <4>3
      <4>4. CASE ~(i + 1 <= n)
        <5>1. n - i = 0
          BY <1>1, <4>1, <4>4
        <5> QED
          BY <4>2, <4>4, <5>1
      <4> QED
        BY <4>3, <4>4
    <3> QED
      BY <3>2, <3>3, <3>4
  <2> HIDE DEF u, v
  <2>5. /\ w \in Seq(Tab) /\ Len(w) = Len(u) + Len(v)
        /\ \A j \in 1 .. Len(u) + Len(v) : w[j] = IF j <= Len(u) THEN u[j] ELSE v[j - Len(u)]
    BY <2>3, <2>4, ConcatProperties
  <2> HIDE DEF w
  <2>6. Len(w) = n - 1 /\ \A j \in 1 .. n - 1 : w[j] = IF j < i THEN s[j] ELSE s[j + 1]
    <3>1. Len(w) = n - 1
      BY <1>1, <2>1, <2>3, <2>4, <2>5
    <3>2. ASSUME NEW j \in 1 .. n - 1 PROVE w[j] = IF j < i THEN s[j] ELSE s[j + 1]
      <4>1. j \in 1 .. Len(u) + Len(v) /\ (j <= Len(u) <=> j < i)
        BY <1>1, <2>1, <2>3, <2>4
      <4>2. CASE j < i
        <5>1. j \in 1 .. i - 1 /\ w[j] = u[j]
          BY <2>1, <2>5, <4>1, <4>2
        <5> QED
          BY <2>3, <4>2, <5>1
      <4>3. CASE ~(j < i)
        <5>1. j - Len(u) \in 1 .. n - i /\ i + (j - Len(u)) = j + 1
          BY <1>1, <2>1, <2>3, <4>3
        <5>2. w[j] = v[j - Len(u)]
          BY <2>5, <4>1, <4>3
        <5>3. v[j - Len(u)] = s[i + (j - Len(u))]
          BY ONLY <2>4, <5>1
        <5> QED
          BY <4>3, <5>1, <5>2, <5>3
      <4> QED
        BY <4>2, <4>3
    <3> QED
      BY <3>1, <3>2
  <2>7. \A j, k \in 1 .. n : s[j] = s[k] => j = k
    BY <1>1 DEF IsInjective
  <2>8. DOMAIN w = 1 .. n - 1
    BY <2>5, <2>6
  <2>9. ASSUME NEW j \in 1 .. n - 1
        PROVE  \E k \in 1 .. n : k # i /\ w[j] = s[k] /\ k = IF j < i THEN j ELSE j + 1
    <3>1. CASE j < i
      BY <1>1, <2>1, <2>6, <3>1
    <3>2. CASE ~(j < i)
      <4>1. j + 1 \in 1 .. n /\ j + 1 # i /\ w[j] = s[j + 1]
        BY <1>1, <2>1, <2>6, <3>2
      <4> QED
        BY <3>2, <4>1
    <3> QED
      BY <3>1, <3>2
  <2>10. IsInjective(w)
    <3> SUFFICES ASSUME NEW j \in 1 .. n - 1, NEW k \in 1 .. n - 1, w[j] = w[k]
                 PROVE  j = k
      BY <2>8 DEF IsInjective
    <3>1. PICK a \in 1 .. n : w[j] = s[a] /\ a = IF j < i THEN j ELSE j + 1
      BY <2>9
    <3>2. PICK b \in 1 .. n : w[k] = s[b] /\ b = IF k < i THEN k ELSE k + 1
      BY <2>9
    <3>3. a = b
      BY <2>7, <3>1, <3>2
    <3> QED
      BY <1>1, <2>1, <3>1, <3>2, <3>3
  <2>11. ASSUME NEW x, Has(w, x) PROVE Has(s, x) /\ x # t
    <3>1. PICK j \in 1 .. n - 1 : w[j] = x
      BY <2>8, <2>11 DEF Has
    <3>2. PICK k \in 1 .. n : k # i /\ w[j] = s[k]
      BY <2>9
    <3> QED
      BY <1>1, <2>1, <2>7, <3>1, <3>2 DEF Has
  <2>12. ASSUME NEW x, Has(s, x), x # t PROVE Has(w, x)
    <3>1. PICK j \in 1 .. n : s[j] = x
      BY <1>1, <2>12 DEF Has
    <3>2. j # i
      BY <2>1, <2>12, <3>1
    <3>3. CASE j < i
      <4>1. j \in 1 .. n - 1 /\ w[j] = x
        BY <1>1, <2>1, <2>6, <3>1, <3>3
      <4> QED
        BY <2>8, <4>1 DEF Has
    <3>4. CASE j > i
      <4>1. j - 1 \in 1 .. n - 1 /\ ~(j - 1 < i) /\ (j - 1) + 1 = j
        BY <1>1, <2>1, <3>4
      <4>2. w[j - 1] = s[(j - 1) + 1]
        BY ONLY <2>6, <4>1
      <4>3. w[j - 1] = x
        BY <3>1, <4>1, <4>2
      <4> QED
        BY <2>8, <4>1, <4>3 DEF Has
    <3> QED
      BY <2>1, <3>2, <3>3, <3>4
  <2>13. ASSUME s # <<>>, Head(s) # t PROVE w # <<>> /\ Head(w) = Head(s)
    <3>1. Head(s) = s[1] /\ i # 1
      BY <1>1, <2>1, <2>13
    <3>2. 1 \in 1 .. n - 1 /\ 1 < i
      BY <1>1, <2>1, <3>1
    <3>3. w[1] = s[1] /\ Len(w) # 0
      BY <1>1, <2>6, <3>2
    <3> QED
      BY <2>5, <3>1, <3>3
  <2> QED
    BY <2>2, <2>5, <2>10, <2>11, <2>12, <2>13
<1> QED
  BY <1>2, <1>3

\* One that joins the queue is in it, behind the others.
LEMMA Enqueue ==
    ASSUME NEW s \in Seq(Tab), IsInjective(s), NEW t \in Tab, ~Has(s, t)
    PROVE  /\ Append(s, t) \in Seq(Tab) /\ IsInjective(Append(s, t))
           /\ Append(s, t) # <<>> /\ (s # <<>> => Head(Append(s, t)) = Head(s))
           /\ \A x : Has(Append(s, t), x) <=> Has(s, x) \/ x = t
<1> DEFINE n == Len(s)  w == Append(s, t)
<1>1. n \in Nat /\ DOMAIN s = 1 .. n
  OBVIOUS
<1>2. /\ w \in Seq(Tab) /\ w # <<>> /\ Len(w) = n + 1 /\ w[n + 1] = t
      /\ \A i \in 1 .. n : w[i] = s[i]
  BY AppendProperties
<1>3. s # <<>> => Head(w) = Head(s)
  BY <1>1, <1>2
<1> HIDE DEF w
<1>4. DOMAIN w = 1 .. n + 1 /\ \A i \in 1 .. n + 1 : i \in 1 .. n \/ i = n + 1
  BY <1>1, <1>2
<1>5. IsInjective(w)
  BY <1>1, <1>2, <1>4 DEF IsInjective, Has
<1>6. ASSUME NEW x PROVE Has(w, x) <=> Has(s, x) \/ x = t
  BY <1>1, <1>2, <1>4 DEF Has
<1> QED
  BY <1>2, <1>3, <1>5, <1>6 DEF w

\* A tab is in the queue of the lock just when a refresh of its page is under
\* way; a page that was left has none that still waits for the lock.
LocksOK ==
    /\ locks \in Seq(Tab) /\ IsInjective(locks)
    /\ page \in [Tab -> {"app", "login"}]
    /\ \A t \in Tab : Has(locks, t) <=> page[t] = "app" /\ refresh[t].st \in Waiting
    /\ \A t \in Tab : page[t] = "login" => refresh[t].st # "queued"

\* A step that only moves refreshes along leaves the queue alone.
LEMMA SameQueue ==
    ASSUME LocksOK, UNCHANGED <<locks, page>>,
           \A t \in Tab : /\ refresh'[t].st \in Waiting <=> refresh[t].st \in Waiting
                          /\ refresh'[t].st = "queued" => refresh[t].st = "queued"
    PROVE  LocksOK'
BY DEF LocksOK

\* A refresh that is over leaves the queue, and so does a page that is left.
LEMMA ResumeLocks ==
    ASSUME IInv, LocksOK, NEW t \in Tab, NEW renewed, NEW cookies, Resume(t, renewed, cookies)
    PROVE  LocksOK'
<1>1. /\ locks \in Seq(Tab) /\ IsInjective(locks) /\ locks' = RemoveFirst(locks, t)
      /\ refresh \in [Tab -> RefreshType(Len(tokens))]
  BY DEF LocksOK, IInv, HoldersOK, Resume, Release
<1>2. /\ locks' \in Seq(Tab) /\ IsInjective(locks')
      /\ \A x : Has(locks', x) <=> Has(locks, x) /\ x # t
  BY <1>1, Dequeue
<1>3. refresh'[t].st = "none" /\ \A u \in Tab \ {t} : refresh'[u] = refresh[u]
  BY <1>1 DEF Resume, NoRefresh
<1>4. /\ page' \in [Tab -> {"app", "login"}]
      /\ \A u \in Tab \ {t} : page'[u] = page[u]
  BY DEF LocksOK, Resume, Left
<1>5. "none" \notin Waiting
  BY DEF Waiting
<1> QED
  BY <1>2, <1>3, <1>4, <1>5 DEF LocksOK

\* A page that is left takes its refresh out of the queue.
LEMMA LeaveLocks ==
    ASSUME IInv, LocksOK, NEW t \in Tab, Leave(t)
    PROVE  LocksOK'
<1>1. /\ locks \in Seq(Tab) /\ IsInjective(locks) /\ locks' = RemoveFirst(locks, t)
      /\ refresh \in [Tab -> RefreshType(Len(tokens))]
  BY DEF LocksOK, IInv, HoldersOK, Leave, Unload, Release
<1>2. /\ locks' \in Seq(Tab) /\ IsInjective(locks')
      /\ \A x : Has(locks', x) <=> Has(locks, x) /\ x # t
  BY <1>1, Dequeue
<1>3. refresh'[t].st # "queued" /\ \A u \in Tab \ {t} : refresh'[u] = refresh[u]
  BY <1>1 DEF Leave, Unload, NoRefresh
<1>4. /\ page' \in [Tab -> {"app", "login"}] /\ page'[t] = "login"
      /\ \A u \in Tab \ {t} : page'[u] = page[u]
  BY DEF LocksOK, Leave, Left
<1> QED
  BY <1>2, <1>3, <1>4 DEF LocksOK

\* And so does one that is replaced by another page.
LEMMA UnloadLocks ==
    ASSUME IInv, LocksOK, NEW t \in Tab, Unload(t), page' = page, page[t] = "app",
           refresh[t].st \in {"none", "queued"}
    PROVE  LocksOK'
<1>1. /\ locks \in Seq(Tab) /\ IsInjective(locks) /\ locks' = RemoveFirst(locks, t)
      /\ refresh \in [Tab -> RefreshType(Len(tokens))]
  BY DEF LocksOK, IInv, HoldersOK, Unload, Release
<1>2. /\ locks' \in Seq(Tab) /\ IsInjective(locks')
      /\ \A x : Has(locks', x) <=> Has(locks, x) /\ x # t
  BY <1>1, Dequeue
<1>3. refresh'[t].st = "none" /\ \A u \in Tab \ {t} : refresh'[u] = refresh[u]
  BY <1>1 DEF Unload, NoRefresh
<1>4. "none" \notin Waiting
  BY DEF Waiting
<1> QED
  BY <1>2, <1>3, <1>4 DEF LocksOK

\* Every step keeps the queue.
LEMMA StepLocks ==
    ASSUME AuthSessionAssumption, IInv, LocksOK, [Next]_vars
    PROVE  LocksOK'
<1>1. /\ locks \in Seq(Tab) /\ IsInjective(locks)
      /\ page \in [Tab -> {"app", "login"}]
      /\ \A t \in Tab : Has(locks, t) <=> page[t] = "app" /\ refresh[t].st \in Waiting
      /\ \A t \in Tab : page[t] = "login" => refresh[t].st # "queued"
      /\ refresh \in [Tab -> RefreshType(Len(tokens))]
  BY DEF LocksOK, IInv, HoldersOK
<1>2. ASSUME UNCHANGED <<locks, page, refresh>> PROVE LocksOK'
  BY <1>2, SameQueue
<1>3. ASSUME UNCHANGED vars PROVE LocksOK'
  BY <1>2, <1>3 DEF vars
<1>4. ASSUME NEW c \in Caller, ServeCall(c) PROVE LocksOK'
  BY <1>2, <1>4 DEF ServeCall, Serve, RevokeOld, CreateNew
<1>5. ASSUME NEW c \in Caller, NEW op \in Ops[c], Start(c, op) PROVE LocksOK'
  BY <1>2, <1>5 DEF Start
<1>6. ASSUME NEW k \in Pair, Age(k) PROVE LocksOK'
  BY <1>2, <1>6 DEF Age
<1>7. ASSUME NEW t \in Tab, SendRefresh(t) \/ ServeRefresh(t) PROVE LocksOK'
  <2>1. /\ UNCHANGED <<locks, page>> /\ refresh[t].st \in Waiting
        /\ refresh'[t].st \in Waiting \ {"queued"}
        /\ \A u \in Tab \ {t} : refresh'[u] = refresh[u]
    BY <1>1, <1>7 DEF SendRefresh, ServeRefresh, Rotate, CheckSession, RevokeNew, Waiting,
                      RefreshType
  <2> QED
    BY <2>1, SameQueue
<1>8. ASSUME NEW t \in Tab, RefreshAnswered(t) \/ RefreshFailed(t) PROVE LocksOK'
  <2>1. \E renewed, cookies : Resume(t, renewed, cookies)
    BY <1>8, Zenon DEF RefreshAnswered, RefreshFailed
  <2> QED
    BY <2>1, ResumeLocks
<1>9. ASSUME NEW t \in Tab, Login(t) PROVE LocksOK'
  <2>1. /\ page' = [page EXCEPT ![t] = "app"] /\ refresh' = refresh /\ locks' = locks
        /\ page[t] = "login" /\ refresh[t].st = "none"
    BY <1>9 DEF Login
  <2>2. "none" \notin Waiting
    BY DEF Waiting
  <2> QED
    BY <1>1, <2>1, <2>2 DEF LocksOK
<1>10. ASSUME NEW c \in Caller, Answered(c) \/ CallFailed(c) PROVE LocksOK'
  <2> DEFINE t == TabOf[c]
  <2>1. t \in Tab
    BY DEF AuthSessionAssumption
  <2> HIDE DEF t
  <2>2. \/ UNCHANGED <<locks, page, refresh>>
        \/ Leave(t)
        \/ page' = page /\ page[t] = "app" /\ Join(t)
    BY <1>10 DEF Answered, CallFailed, t
  <2>3. ASSUME page' = page, page[t] = "app", refresh[t].st = "none",
               refresh' = [refresh EXCEPT ![t] = [NoRefresh EXCEPT !.st = "queued"]],
               locks' = Append(locks, t)
        PROVE  LocksOK'
    <3>1. ~Has(locks, t)
      BY <1>1, <2>1, <2>3 DEF Waiting
    <3>2. /\ locks' \in Seq(Tab) /\ IsInjective(locks')
          /\ \A x : Has(locks', x) <=> Has(locks, x) \/ x = t
      BY <1>1, <2>1, <2>3, <3>1, Enqueue
    <3>3. refresh'[t].st = "queued" /\ \A u \in Tab \ {t} : refresh'[u] = refresh[u]
      BY <1>1, <2>1, <2>3 DEF NoRefresh
    <3>4. "queued" \in Waiting
      BY DEF Waiting
    <3> QED
      BY <1>1, <2>1, <2>3, <3>2, <3>3, <3>4 DEF LocksOK
  <2> QED
    BY <1>2, <2>1, <2>2, <2>3, LeaveLocks DEF Join
<1>11. ASSUME NEW t \in Tab, LoadPage(t) PROVE LocksOK'
  BY <1>11, LeaveLocks, UnloadLocks DEF LoadPage
<1> QED
  BY <1>3, <1>4, <1>5, <1>6, <1>7, <1>8, <1>9, <1>10, <1>11 DEF Next

\* The variables the other invariants leave out.
RestOK ==
    /\ closed \subseteq Session
    /\ spent \in [calls : 0 .. MaxCalls, lost : 0 .. MaxLost, aged : 0 .. MaxAged]
    /\ upset \in BOOLEAN
    /\ out \in {"in", "out", "slipped"}

\* Every step keeps the rest.
LEMMA StepRest ==
    ASSUME AuthSessionAssumption, IInv, RestOK, [Next]_vars
    PROVE  RestOK'
<1>1. closed' \subseteq Session
  <2>1. ASSUME NEW c \in Caller, Valid(call[c].token)
        PROVE  tokens[call[c].token].session \in Session
    <3>1. call[c].token \in 1 .. Len(tokens)
      BY <2>1 DEF IInv, HoldersOK, CallType, Valid
    <3>2. tokens[call[c].token] \in Token
      BY <3>1 DEF IInv, TokensOK
    <3> QED
      BY <3>2 DEF Token
  <2>2. ASSUME NEW c \in Caller, Serve(c) PROVE closed' \subseteq Session
    BY <2>1, <2>2 DEF RestOK, Serve
  <2>3. \/ closed' = closed
        \/ \E c \in Caller : Serve(c)
    BY DEF Next, vars, Start, ServeCall, RevokeOld, CreateNew, Answered, CallFailed, SendRefresh,
           ServeRefresh, Rotate, CheckSession, RevokeNew, RefreshAnswered, RefreshFailed, LoadPage,
           Login, Age
  <2> QED
    BY <2>2, <2>3 DEF RestOK
<1>2. spent' \in [calls : 0 .. MaxCalls, lost : 0 .. MaxLost, aged : 0 .. MaxAged]
  <2>1. \/ spent' = spent
        \/ spent.calls < MaxCalls /\ spent' = [spent EXCEPT !.calls = @ + 1]
        \/ spent.lost < MaxLost /\ spent' = [spent EXCEPT !.lost = @ + 1]
        \/ spent.aged < MaxAged /\ spent' = [spent EXCEPT !.aged = @ + 1]
    BY DEF Next, vars, Start, ServeCall, Serve, RevokeOld, CreateNew, Answered, CallFailed,
           SendRefresh, ServeRefresh, Rotate, CheckSession, RevokeNew, RefreshAnswered,
           RefreshFailed, LoadPage, Login, Age
  <2>2. MaxCalls \in Nat /\ MaxLost \in Nat /\ MaxAged \in Nat
    BY DEF AuthSessionAssumption
  <2> QED
    BY <2>1, <2>2 DEF RestOK
<1>3. upset' \in BOOLEAN
  BY DEF RestOK, Next, vars, Start, ServeCall, Serve, RevokeOld, CreateNew, Answered, CallFailed,
         SendRefresh, ServeRefresh, Rotate, CheckSession, RevokeNew, RefreshAnswered,
         RefreshFailed, LoadPage, Login, Age
<1>4. out' \in {"in", "out", "slipped"}
  BY DEF RestOK, Next, vars, Start, ServeCall, Serve, RevokeOld, CreateNew, Answered, CallFailed,
         SendRefresh, ServeRefresh, Rotate, CheckSession, RevokeNew, RefreshAnswered,
         RefreshFailed, LoadPage, Login, Age
<1> QED
  BY <1>1, <1>2, <1>3, <1>4 DEF RestOK

\* Before the first step nobody waits for the lock.
LEMMA InitTypes ==
    ASSUME AuthSessionAssumption, Init
    PROVE  LocksOK /\ RestOK
<1>1. LocksOK
  BY DEF Init, LocksOK, Has, NoRefresh, Waiting, IsInjective
<1>2. RestOK
  <2>1. 0 \in 0 .. MaxCalls /\ 0 \in 0 .. MaxLost /\ 0 \in 0 .. MaxAged
    BY DEF AuthSessionAssumption
  <2>2. spent \in [calls : 0 .. MaxCalls, lost : 0 .. MaxLost, aged : 0 .. MaxAged]
    BY <2>1 DEF Init
  <2> QED
    BY <2>2 DEF Init, RestOK
<1> QED
  BY <1>1, <1>2

\* Every variable keeps its type, and a tab is in the queue of the Web Lock
\* once, just while a refresh of its page is under way.
THEOREM TypesHold == Spec => []TypeOK
<1>1. Init => IInv /\ LocksOK /\ RestOK
  BY AuthSessionAssumption, InitIInv, InitTypes
<1>2. IInv /\ LocksOK /\ RestOK /\ [Next]_vars => IInv' /\ LocksOK' /\ RestOK'
  BY AuthSessionAssumption, StepIInv, StepLocks, StepRest
<1>3. IInv /\ LocksOK /\ RestOK => TypeOK
  BY DEF TypeOK, IInv, TokensOK, HoldersOK, CallType, RefreshType, LocksOK, RestOK, Has
<1> QED
  BY <1>1, <1>2, <1>3, PTL DEF Spec
-----------------------------------------------------------------------------
(* No spurious logout, in a browser with Web Locks. *)

\* A refresh that holds the lock and has been sent; one whose new tokens, or a
\* change of environment whose new tokens, are yet to reach the cookies.
Active(t) == refresh[t].st \in {"sent", "rotated", "granted"}
Renewing(t) == refresh[t].st \in {"rotated", "granted"}
Switched(c) == call[c].op = "switch" /\ call[c].st = "ok"

Usable(k) == k # 0 /\ ~tokens[k].revoked
\* A token only the answer holds that is to bring it.
Unseen(k) ==
    /\ Usable(k) /\ jar # k
    /\ \A c \in Caller : call[c].token # k
    /\ \A t \in Tab : refresh[t].token # k

Undisturbed ==
    /\ closed = {}
    /\ \A t \in Tab : page[t] = "app"
    /\ \A c \in Caller : call[c].op # "logout"
    /\ \A k \in Pair : tokens[k].age # "lapsed"
    /\ \A t \in Tab : refresh[t].st \in {"none", "queued", "sent", "rotated", "granted"}

LockHeld == \A t \in Tab : Active(t) => locks # <<>> /\ Head(locks) = t

SentUsable == \A t \in Tab : refresh[t].st = "sent" => Usable(refresh[t].token)

\* The token of the cookies is revoked only while its successor is on its way.
JarUsable ==
    /\ jar # 0
    /\ \/ Usable(jar)
       \/ \E t \in Tab : Renewing(t)
       \/ \E c \in Caller : Switching(c)

NewUnseen ==
    /\ \A t \in Tab : Renewing(t) =>
          /\ Unseen(refresh[t].new)
          /\ \A c \in Caller : Switched(c) => call[c].new # refresh[t].new
    /\ \A c \in Caller : Switched(c) =>
          /\ Unseen(call[c].new)
          /\ \A d \in Caller \ {c} : Switched(d) => call[d].new # call[c].new

\* Until something happens that may end the login, every refresh presents a
\* token that can be traded: the lock is held from the reading of the cookies
\* to their replacement.
Calm == Undisturbed /\ LockHeld /\ SentUsable /\ JarUsable /\ NewUnseen

\* The first login has the one token, and nothing has happened.
LEMMA InitCalm == ASSUME Init PROVE Calm
BY DEF Init, Calm, Undisturbed, LockHeld, SentUsable, JarUsable, NewUnseen, Active, Renewing,
       Switched, Usable, NoCall, NoRefresh, NewToken, Pair

\* A step that does not upset the login keeps it so.
LEMMA StepCalm ==
    ASSUME AuthSessionAssumption, WebLocks, IInv, LocksOK, OutInv, Calm, Next, ~upset'
    PROVE  Calm'
<1> DEFINE n == Len(tokens)
<1>1. /\ TokensOK(tokens) /\ n \in Nat /\ Pair = 1 .. n
      /\ \A j \in 1 .. n : tokens[j] \in Token
      /\ call \in [Caller -> CallType(n)] /\ refresh \in [Tab -> RefreshType(n)]
      /\ \A c \in Caller : /\ call[c] \in CallType(n)
                           /\ call[c].token \in 0 .. n /\ call[c].new \in 0 .. n
      /\ \A t \in Tab : /\ refresh[t] \in RefreshType(n)
                        /\ refresh[t].token \in 0 .. n /\ refresh[t].new \in 0 .. n
  BY DEF IInv, TokensOK, HoldersOK, CallType, RefreshType, Pair
<1>2. Undisturbed /\ LockHeld /\ SentUsable /\ JarUsable /\ NewUnseen /\ jar \in 1 .. n
  BY DEF Calm, JarUsable, IInv, HoldersOK
<1>3. \A t, u \in Tab : Active(t) /\ Active(u) => t = u
  BY <1>2 DEF LockHeld
<1>4. \A c \in Caller : call[c].st \in {"revoking", "creating"} => call[c].op = "switch"
  BY <1>2 DEF OutInv, CallFine, Undisturbed
<1> HIDE DEF n
<1>5. ASSUME NEW c \in Caller, NEW op \in Ops[c], Start(c, op) PROVE Calm'
  <2>1. /\ UNCHANGED <<tokens, closed, jar, page, refresh, locks>> /\ op # "logout"
        /\ call[c].st = "idle" /\ call' = [call EXCEPT ![c] = Sent(op, FALSE)]
    BY <1>5 DEF Start
  <2>2. /\ \A d \in Caller \ {c} : call'[d] = call[d]
        /\ call'[c].op = op /\ call'[c].st = "sent" /\ call'[c].token = jar
    <3>1. PICK q : q = Sent(op, FALSE)
      OBVIOUS
    <3>2. q.op = op /\ q.st = "sent" /\ q.token = jar
      BY <3>1, SentFields
    <3>3. call' = [call EXCEPT ![c] = q]
      BY <2>1, <3>1
    <3> QED
      BY <1>1, <3>2, <3>3
  <2>3. Undisturbed' /\ LockHeld' /\ SentUsable' /\ JarUsable'
    BY <1>2, <2>1, <2>2 DEF Undisturbed, LockHeld, SentUsable, JarUsable, Active, Renewing,
                            Usable, Switching, Pair
  <2>4. NewUnseen'
    <3>1. \A j : Unseen(j) => Unseen(j)'
      BY <2>1, <2>2 DEF Unseen, Usable
    <3>2. \A d \in Caller : Switched(d)' => Switched(d) /\ call'[d] = call[d]
      BY <2>2 DEF Switched
    <3> QED
      BY <1>2, <2>1, <3>1, <3>2 DEF NewUnseen, Renewing
  <2> QED
    BY <2>3, <2>4 DEF Calm
<1>6. ASSUME NEW c \in Caller, Serve(c) PROVE Calm'
  <2>1. /\ UNCHANGED <<tokens, jar, page, refresh, locks>> /\ closed' = closed
        /\ call[c].st = "sent"
    BY <1>2, <1>6 DEF Serve, Undisturbed
  <2>2. PICK st \in {"ok", "401", "revoking"} :
          /\ call' = [call EXCEPT ![c].st = st]
          /\ st = "ok" => call[c].op # "switch"
    BY <1>6 DEF Serve
  <2>3. /\ \A d \in Caller \ {c} : call'[d] = call[d]
        /\ call'[c].op = call[c].op /\ call'[c].st = st /\ call'[c].token = call[c].token
    BY <1>1, <2>2 DEF CallType
  <2>4. Undisturbed' /\ LockHeld' /\ SentUsable' /\ JarUsable'
    BY <1>2, <2>1, <2>2, <2>3 DEF Undisturbed, LockHeld, SentUsable, JarUsable, Active, Renewing,
                                  Usable, Switching, Pair
  <2>5. NewUnseen'
    BY <1>2, <2>1, <2>2, <2>3 DEF NewUnseen, Renewing, Switched, Unseen, Usable
  <2> QED
    BY <2>4, <2>5 DEF Calm
<1>7. ASSUME NEW c \in Caller, RevokeOld(c) PROVE Calm'
  <2> DEFINE k == call[c].token
  <2>1. /\ UNCHANGED <<closed, jar, page, refresh, locks>> /\ call[c].st = "revoking"
        /\ call[c].op = "switch" /\ tokens' = Revoke(k)
        /\ call' = [call EXCEPT ![c].st = "creating"]
        /\ \A t \in Tab : refresh[t].st = "sent" => refresh[t].token # k
    BY <1>4, <1>7 DEF RevokeOld
  <2>2. /\ \A d \in Caller \ {c} : call'[d] = call[d]
        /\ call'[c].op = "switch" /\ call'[c].st = "creating" /\ call'[c].token = k
    BY <1>1, <2>1 DEF CallType
  <2>3. /\ Pair' = Pair
        /\ \A j \in 1 .. n : j # k => tokens'[j] = tokens[j]
        /\ \A j \in 1 .. n : tokens'[j].age = tokens[j].age
    BY <1>1, <2>1 DEF Revoke, Pair, Token
  <2> HIDE DEF k
  <2>4. \A j \in 0 .. n : Usable(j) /\ j # k => Usable(j)'
    BY <1>1, <2>3 DEF Usable
  <2>5. Undisturbed' /\ LockHeld'
    <3>1. \A j \in Pair' : tokens'[j].age # "lapsed"
      BY <1>1, <1>2, <2>3 DEF Undisturbed
    <3>2. \A d \in Caller : call'[d].op # "logout"
      BY <1>2, <2>2 DEF Undisturbed
    <3> QED
      BY <1>2, <2>1, <3>1, <3>2 DEF Undisturbed, LockHeld, Active
  <2>6. SentUsable'
    BY <1>1, <1>2, <2>1, <2>4 DEF SentUsable
  <2>7. JarUsable'
    BY <1>2, <2>1, <2>2 DEF JarUsable, Switching
  <2>8. NewUnseen'
    <3>1. \A j \in 0 .. n : Unseen(j) => Unseen(j)'
      BY <2>1, <2>2, <2>4 DEF Unseen, k
    <3> QED
      BY <1>1, <1>2, <2>1, <2>2, <3>1 DEF NewUnseen, Renewing, Switched
  <2> QED
    BY <2>5, <2>6, <2>7, <2>8 DEF Calm
<1>8. ASSUME NEW c \in Caller, CreateNew(c) PROVE Calm'
  <2> PICK m : m = n + 1
    OBVIOUS
  <2>1. /\ UNCHANGED <<closed, jar, page, refresh, locks>> /\ call[c].st = "creating"
        /\ call[c].op = "switch"
        /\ tokens' = Append(tokens, NewToken(tokens[call[c].token].session, m))
        /\ call' = [call EXCEPT ![c].st = "ok", ![c].new = m]
    BY <1>4, <1>8 DEF CreateNew, n
  <2>2. /\ \A d \in Caller \ {c} : call'[d] = call[d]
        /\ call'[c].op = "switch" /\ call'[c].st = "ok" /\ call'[c].new = m
        /\ call'[c].token = call[c].token
    BY <1>1, <2>1 DEF CallType
  <2>3. /\ Len(tokens') = m /\ \A j \in 1 .. n : tokens'[j] = tokens[j]
        /\ tokens'[m].age = "fresh" /\ ~tokens'[m].revoked
    BY <1>1, <2>1, AppendKeeps DEF n, NewToken
  <2>4. /\ \A j \in 0 .. n : Usable(j) => Usable(j)'
        /\ m # 0 /\ m \notin 0 .. n /\ Usable(m)'
    <3>1. m # 0 /\ m \notin 0 .. n /\ \A j \in 0 .. n : j # 0 => j \in 1 .. n
      BY <1>1
    <3> QED
      BY <2>3, <3>1 DEF Usable
  <2>5. Undisturbed' /\ LockHeld'
    <3>1. Pair' = Pair \cup {m}
      BY <1>1, <2>3 DEF Pair
    <3> QED
      BY <1>1, <1>2, <2>1, <2>2, <2>3, <3>1 DEF Undisturbed, LockHeld, Active
  <2>6. SentUsable' /\ JarUsable'
    BY <1>1, <1>2, <2>1, <2>2, <2>4 DEF SentUsable, JarUsable, Switching
  <2>7. NewUnseen'
    <3>1. \A j \in 0 .. n : Unseen(j) => Unseen(j)'
      BY <2>1, <2>2, <2>4 DEF Unseen
    <3>2. Unseen(m)'
      <4>1. jar \in 0 .. n
        BY <1>1, <1>2
      <4>2. \A d \in Caller : call'[d].token \in 0 .. n
        BY <1>1, <2>2
      <4> QED
        BY <1>1, <2>1, <2>4, <4>1, <4>2 DEF Unseen
    <3>3. \A d \in Caller \ {c} : Switched(d)' => Switched(d) /\ call'[d] = call[d]
      BY <2>2 DEF Switched
    <3>4. /\ \A d \in Caller \ {c} : call'[d].new # m
          /\ \A t \in Tab : refresh[t].new # m
      BY <1>1, <2>2, <2>4
    <3> QED
      BY <1>1, <1>2, <2>1, <2>2, <3>1, <3>2, <3>3, <3>4 DEF NewUnseen, Renewing
  <2> QED
    BY <2>5, <2>6, <2>7 DEF Calm
<1>9. ASSUME NEW c \in Caller, Answered(c), call[c].st = "401", page[TabOf[c]] = "app",
             Join(TabOf[c]), call' = [call EXCEPT ![c].st = "refreshing"],
             UNCHANGED <<jar, page, out>>
      PROVE  Calm'
  <2> DEFINE t == TabOf[c]
  <2>1. UNCHANGED <<tokens, closed, jar, page>> /\ t \in Tab
    BY <1>9 DEF Answered, AuthSessionAssumption
  <2>2. /\ \A d \in Caller \ {c} : call'[d] = call[d]
        /\ call'[c].op = call[c].op /\ call'[c].st = "refreshing"
        /\ call'[c].token = call[c].token
    BY <1>1, <1>9 DEF CallType
  <2>3. /\ \A u \in Tab : \/ refresh'[u] = refresh[u]
                          \/ /\ refresh[u].st = "none" /\ refresh'[u].st = "queued"
                             /\ refresh'[u].token = 0
        /\ locks # <<>> => locks' # <<>> /\ Head(locks') = Head(locks)
    <3>1. CASE refresh[t].st = "none"
      <4>1. ~Has(locks, t) /\ locks \in Seq(Tab) /\ IsInjective(locks)
        BY <2>1, <3>1 DEF LocksOK, Waiting
      <4>2. /\ refresh' = [refresh EXCEPT ![t] = [NoRefresh EXCEPT !.st = "queued"]]
            /\ locks' = Append(locks, t)
        BY <1>9, <3>1 DEF Join
      <4> HIDE DEF t
      <4> QED
        BY <1>1, <2>1, <3>1, <4>1, <4>2, Enqueue DEF NoRefresh
    <3>2. CASE refresh[t].st # "none"
      BY <1>9, <3>2 DEF Join
    <3> QED
      BY <3>1, <3>2
  <2> HIDE DEF t
  <2>4. Undisturbed' /\ LockHeld' /\ SentUsable'
    BY <1>2, <2>1, <2>2, <2>3 DEF Undisturbed, LockHeld, SentUsable, Active, Usable, Pair
  <2>5. JarUsable'
    BY <1>2, <1>9, <2>1, <2>2, <2>3 DEF JarUsable, Renewing, Usable, Switching
  <2>6. NewUnseen'
    <3>1. \A j : Unseen(j) => Unseen(j)'
      BY <2>1, <2>2, <2>3 DEF Unseen, Usable
    <3> QED
      BY <1>2, <1>9, <2>1, <2>2, <2>3, <3>1 DEF NewUnseen, Renewing, Switched
  <2> QED
    BY <2>4, <2>5, <2>6 DEF Calm
<1>10. ASSUME NEW c \in Caller, call' = [call EXCEPT ![c] = NoCall], ~Switching(c),
              UNCHANGED <<tokens, closed, jar, page, refresh, locks>>
       PROVE  Calm'
  <2>1. /\ \A d \in Caller \ {c} : call'[d] = call[d]
        /\ call'[c].op = "none" /\ call'[c].st = "idle" /\ call'[c].token = 0
    BY <1>1, <1>10 DEF NoCall
  <2>2. Undisturbed' /\ LockHeld' /\ SentUsable' /\ JarUsable'
    BY <1>2, <1>10, <2>1 DEF Undisturbed, LockHeld, SentUsable, JarUsable, Active, Renewing,
                             Usable, Switching, Pair
  <2>3. NewUnseen'
    <3>1. \A j : Unseen(j) => Unseen(j)'
      BY <1>10, <2>1 DEF Unseen, Usable
    <3> QED
      BY <1>2, <1>10, <2>1, <3>1 DEF NewUnseen, Renewing, Switched
  <2> QED
    BY <2>2, <2>3 DEF Calm
<1>11. ASSUME NEW c \in Caller, Switched(c), jar' = call[c].new,
              call' = [call EXCEPT ![c] = NoCall],
              UNCHANGED <<tokens, closed, page, refresh, locks>>
       PROVE  Calm'
  <2>1. /\ \A d \in Caller \ {c} : call'[d] = call[d]
        /\ call'[c].op = "none" /\ call'[c].st = "idle" /\ call'[c].token = 0
    BY <1>1, <1>11 DEF NoCall
  <2>2. Undisturbed' /\ LockHeld' /\ SentUsable'
    BY <1>2, <1>11, <2>1 DEF Undisturbed, LockHeld, SentUsable, Active, Usable, Pair
  <2>3. JarUsable'
    BY <1>2, <1>11 DEF NewUnseen, JarUsable, Unseen, Usable
  <2>4. NewUnseen'
    <3>1. \A j : Unseen(j) /\ j # call[c].new => Unseen(j)'
      BY <1>11, <2>1 DEF Unseen, Usable
    <3>2. \A t \in Tab : Renewing(t) => Unseen(refresh[t].new)'
      BY <1>2, <1>11, <3>1 DEF NewUnseen
    <3>3. \A d \in Caller \ {c} : Switched(d) => Unseen(call[d].new)'
      BY <1>2, <1>11, <3>1 DEF NewUnseen
    <3> QED
      BY <1>2, <1>11, <2>1, <3>2, <3>3 DEF NewUnseen, Renewing, Switched
  <2> QED
    BY <2>2, <2>3, <2>4 DEF Calm
<1>12. ASSUME NEW c \in Caller, Answered(c) PROVE Calm'
  <2>1. call[c].op # "logout"
    BY <1>2 DEF Undisturbed
  <2> QED
    BY <1>9, <1>10, <1>11, <1>12, <2>1 DEF Answered, Switching, Switched
<1>13. ASSUME NEW t \in Tab, SendRefresh(t) PROVE Calm'
  <2>1. /\ UNCHANGED <<tokens, closed, jar, page, call, locks>>
        /\ refresh[t].st = "queued" /\ Head(locks) = t
        /\ \A c \in Caller : ~Switching(c)
        /\ refresh' = [refresh EXCEPT ![t].st = "sent", ![t].token = jar]
    BY <1>13 DEF SendRefresh, MayPerform
  <2>2. /\ \A u \in Tab \ {t} : refresh'[u] = refresh[u]
        /\ refresh'[t].st = "sent" /\ refresh'[t].token = jar
    BY <1>1, <2>1 DEF RefreshType
  <2>3. locks # <<>>
    <3>1. Has(locks, t)
      BY <1>2, <2>1 DEF LocksOK, Waiting, Undisturbed
    <3> QED
      BY <3>1 DEF Has
  <2>4. \A u \in Tab : ~Active(u)
    BY <1>2, <2>1 DEF LockHeld, Active
  <2>5. Usable(jar)
    BY <1>2, <2>1, <2>4 DEF JarUsable, Renewing, Active
  <2>6. Undisturbed' /\ LockHeld' /\ SentUsable' /\ JarUsable'
    BY <1>2, <2>1, <2>2, <2>3, <2>4, <2>5 DEF Undisturbed, LockHeld, SentUsable, JarUsable,
                                              Active, Usable, Pair
  <2>7. NewUnseen'
    <3>1. \A j : Unseen(j) => Unseen(j)'
      BY <2>1, <2>2 DEF Unseen, Usable
    <3>2. \A u \in Tab : Renewing(u)' => Renewing(u) /\ refresh'[u] = refresh[u]
      BY <2>2 DEF Renewing
    <3>3. \A u \in Tab : Renewing(u)' => Unseen(refresh[u].new)'
      BY <1>2, <3>1, <3>2 DEF NewUnseen
    <3>4. \A c \in Caller : Switched(c)' => Switched(c) /\ Unseen(call[c].new)'
      BY <1>2, <2>1, <3>1 DEF NewUnseen, Switched
    <3> QED
      BY <1>2, <2>1, <3>2, <3>3, <3>4 DEF NewUnseen
  <2> QED
    BY <2>6, <2>7 DEF Calm
<1>14. ASSUME NEW t \in Tab, Rotate(t) PROVE Calm'
  <2> PICK m : m = n + 1
    OBVIOUS
  <2> DEFINE k == refresh[t].token  x == NewToken(tokens[k].session, tokens[k].chain)
  <2>1. /\ UNCHANGED <<closed, jar, page, call, locks>> /\ refresh[t].st = "sent"
        /\ tokens' = Rotated(k)
    BY <1>14 DEF Rotate
  <2>2. k \in 1 .. n /\ ~tokens[k].revoked /\ tokens[k].age # "lapsed" /\ Active(t)
    BY <1>1, <1>2, <2>1 DEF SentUsable, Usable, Undisturbed, Active
  <2>3. tokens' = Append(Revoke(k), x)
    BY <1>1, <2>1, <2>2 DEF Rotated
  <2>4. /\ Len(tokens') = m /\ tokens'[m].age = "fresh" /\ ~tokens'[m].revoked
        /\ \A j \in 1 .. n : /\ tokens'[j].age = tokens[j].age
                             /\ j # k => tokens'[j] = tokens[j]
    <3>1. TokensOK(Revoke(k)) /\ Len(Revoke(k)) = n
      BY <1>1, RevokeOK DEF n
    <3>2. \A j \in 1 .. n : Revoke(k)[j].age = tokens[j].age /\ (j # k => Revoke(k)[j] = tokens[j])
      BY <1>1 DEF Revoke, Token
    <3>3. x.age = "fresh" /\ ~x.revoked
      BY DEF NewToken
    <3> HIDE DEF x
    <3> QED
      BY <2>3, <3>1, <3>2, <3>3, AppendKeeps
  <2>5. refresh' = [refresh EXCEPT ![t].st = "rotated", ![t].new = m]
    BY <1>1, <1>14, <2>4 DEF Rotate, n
  <2>6. /\ \A u \in Tab \ {t} : refresh'[u] = refresh[u]
        /\ refresh'[t].st = "rotated" /\ refresh'[t].new = m /\ refresh'[t].token = k
    BY <1>1, <2>5 DEF RefreshType
  <2>7. \A u \in Tab \ {t} : ~Active(u)
    BY <1>3, <2>2
  <2> HIDE DEF k, x
  <2>8. /\ \A j \in 0 .. n : Usable(j) /\ j # k => Usable(j)'
        /\ m # 0 /\ m \notin 0 .. n /\ Usable(m)'
    <3>1. m # 0 /\ m \notin 0 .. n /\ \A j \in 0 .. n : j # 0 => j \in 1 .. n
      BY <1>1
    <3> QED
      BY <2>4, <3>1 DEF Usable
  <2>9. Undisturbed' /\ LockHeld'
    <3>1. Pair' = Pair \cup {m}
      BY <1>1, <2>4 DEF Pair
    <3> QED
      BY <1>1, <1>2, <2>1, <2>2, <2>4, <2>6, <3>1 DEF Undisturbed, LockHeld, Active
  <2>10. SentUsable' /\ JarUsable'
    BY <1>2, <2>1, <2>6, <2>7 DEF SentUsable, JarUsable, Active, Renewing
  <2>11. NewUnseen'
    <3>1. \A j \in 0 .. n : Unseen(j) => Unseen(j)'
      BY <2>1, <2>6, <2>8 DEF Unseen, k
    <3>2. Unseen(m)'
      <4>1. jar \in 0 .. n /\ k \in 0 .. n
        BY <1>1, <1>2, <2>2
      <4>2. \A u \in Tab : refresh'[u].token \in 0 .. n
        BY <1>1, <2>6, <4>1
      <4> QED
        BY <1>1, <2>1, <2>8, <4>1, <4>2 DEF Unseen
    <3>3. \A u \in Tab \ {t} : ~Renewing(u)'
      BY <2>6, <2>7 DEF Renewing, Active
    <3>4. \A c \in Caller : call[c].new # m
      BY <1>1, <2>8
    <3> QED
      BY <1>1, <1>2, <2>1, <2>6, <3>1, <3>2, <3>3, <3>4 DEF NewUnseen, Switched
  <2> QED
    BY <2>9, <2>10, <2>11 DEF Calm
<1>15. ASSUME NEW t \in Tab, CheckSession(t) \/ RevokeNew(t) PROVE Calm'
  <2>1. /\ UNCHANGED <<tokens, closed, jar, page, call, locks>> /\ refresh[t].st = "rotated"
        /\ refresh' = [refresh EXCEPT ![t].st = "granted"]
    BY <1>2, <1>15 DEF CheckSession, RevokeNew, Undisturbed
  <2>2. /\ \A u \in Tab \ {t} : refresh'[u] = refresh[u]
        /\ refresh'[t].st = "granted" /\ refresh'[t].new = refresh[t].new
        /\ refresh'[t].token = refresh[t].token
    BY <1>1, <2>1 DEF RefreshType
  <2>3. Undisturbed' /\ LockHeld' /\ SentUsable' /\ JarUsable'
    BY <1>2, <2>1, <2>2 DEF Undisturbed, LockHeld, SentUsable, JarUsable, Active, Renewing,
                            Usable, Pair
  <2>4. NewUnseen'
    <3>1. \A j : Unseen(j) => Unseen(j)'
      BY <2>1, <2>2 DEF Unseen, Usable
    <3> QED
      BY <1>2, <2>1, <2>2, <3>1 DEF NewUnseen, Renewing, Switched
  <2> QED
    BY <2>3, <2>4 DEF Calm
<1>16. ASSUME NEW t \in Tab, RefreshAnswered(t) PROVE Calm'
  <2> DEFINE k == refresh[t].new
  <2>1. UNCHANGED <<tokens, closed>> /\ refresh[t].st = "granted" /\ Resume(t, TRUE, k)
    BY <1>2, <1>16 DEF RefreshAnswered, Undisturbed
  <2>2. /\ jar' = k /\ page' = page /\ refresh' = [refresh EXCEPT ![t] = NoRefresh]
        /\ \A d \in Caller :
              \/ call'[d] = call[d]
              \/ /\ call[d].st = "refreshing"
                 /\ call'[d] = [Sent(call[d].op, TRUE) EXCEPT !.token = k]
    BY <2>1 DEF Resume, Awaiting
  <2>3. /\ \A u \in Tab \ {t} : refresh'[u] = refresh[u]
        /\ refresh'[t].st = "none" /\ refresh'[t].token = 0
    BY <1>1, <2>2 DEF NoRefresh
  <2> HIDE DEF k
  <2>4. \A d \in Caller :
           \/ call'[d] = call[d]
           \/ /\ call[d].st = "refreshing" /\ call'[d].op = call[d].op
              /\ call'[d].st = "sent" /\ call'[d].token = k
    <3> SUFFICES ASSUME NEW d \in Caller, call'[d] # call[d]
                 PROVE  /\ call[d].st = "refreshing" /\ call'[d].op = call[d].op
                        /\ call'[d].st = "sent" /\ call'[d].token = k
      OBVIOUS
    <3>1. PICK q : q = Sent(call[d].op, TRUE)
      OBVIOUS
    <3>2. q \in CallType(n) /\ q.op = call[d].op /\ q.st = "sent"
      <4>1. call[d].op \in {"none", "call", "html", "switch", "logout"} /\ HoldersOK
        BY <1>1 DEF CallType, IInv
      <4>2. TRUE \in BOOLEAN /\ n = Len(tokens)
        BY DEF n
      <4> QED
        BY <1>1, <3>1, <4>1, <4>2, SentType, SentFields
    <3>3. call[d].st = "refreshing" /\ call'[d] = [q EXCEPT !.token = k]
      BY <2>2, <3>1
    <3> QED
      BY <3>2, <3>3 DEF CallType
  <2>5. /\ Unseen(k) /\ Renewing(t)
        /\ \A c \in Caller : Switched(c) => call[c].new # k
        /\ \A u \in Tab \ {t} : ~Active(u)
    BY <1>2, <1>3, <2>1 DEF NewUnseen, Renewing, Active, k
  <2>6. Undisturbed' /\ LockHeld' /\ SentUsable' /\ JarUsable'
    BY <1>2, <2>1, <2>2, <2>3, <2>4, <2>5 DEF Undisturbed, LockHeld, SentUsable, JarUsable,
                                              Active, Usable, Unseen, Pair
  <2>7. NewUnseen'
    <3>1. \A j : Unseen(j) /\ j # k => Unseen(j)'
      BY <2>1, <2>2, <2>3, <2>4 DEF Unseen, Usable
    <3>2. \A c \in Caller : Switched(c)' => Switched(c) /\ call'[c] = call[c]
      BY <2>4 DEF Switched
    <3>3. \A u \in Tab : ~Renewing(u)'
      BY <2>3, <2>5 DEF Renewing, Active
    <3> QED
      BY <1>2, <2>5, <3>1, <3>2, <3>3 DEF NewUnseen
  <2> QED
    BY <2>6, <2>7 DEF Calm
<1>17. ASSUME NEW k \in Pair, Age(k) PROVE Calm'
  <2>1. /\ UNCHANGED <<closed, jar, page, call, refresh, locks>> /\ k \in 1 .. n
        /\ tokens' = [tokens EXCEPT ![k].age = "stale"]
    BY <1>1, <1>17 DEF Age
  <2>2. /\ Len(tokens') = n
        /\ \A j \in 1 .. n : /\ tokens'[j].revoked = tokens[j].revoked
                             /\ tokens'[j].age \in {tokens[j].age, "stale"}
    <3>1. /\ [tokens[k] EXCEPT !.age = "stale"].revoked = tokens[k].revoked
          /\ [tokens[k] EXCEPT !.age = "stale"].age = "stale"
      BY <1>1, <2>1 DEF Token
    <3> QED
      BY <1>1, <2>1, <3>1 DEF TokensOK, n
  <2>3. \A j \in 0 .. n : Usable(j)' <=> Usable(j)
    BY <1>1, <2>2 DEF Usable
  <2>4. Undisturbed' /\ LockHeld' /\ SentUsable' /\ JarUsable'
    <3>1. Pair' = Pair
      BY <1>1, <2>2 DEF Pair
    <3> QED
      BY <1>1, <1>2, <2>1, <2>2, <2>3, <3>1
         DEF Undisturbed, LockHeld, SentUsable, JarUsable, Active, Renewing, Switching
  <2>5. NewUnseen'
    <3>1. \A j \in 0 .. n : Unseen(j) => Unseen(j)'
      BY <2>1, <2>3 DEF Unseen
    <3> QED
      BY <1>1, <1>2, <2>1, <3>1 DEF NewUnseen, Renewing, Switched
  <2> QED
    BY <2>4, <2>5 DEF Calm
<1>18. \A c \in Caller : ~CallFailed(c)
  BY DEF CallFailed
<1>19. \A t \in Tab : ~RefreshFailed(t) /\ ~Login(t)
  BY <1>2 DEF RefreshFailed, Login, Undisturbed
<1>20. ASSUME NEW t \in Tab, LoadPage(t) PROVE Calm'
  <2>1. tokens[jar].age = "fresh" /\ jar # 0 /\ tokens[jar].session \notin closed
    BY <1>2, <1>20 DEF LoadPage, JarUsable, Undisturbed
  <2>2. /\ UNCHANGED <<tokens, closed, jar, page>> /\ call' = CallsLeft(t, call)
        /\ Unload(t) /\ refresh[t].st \in {"none", "queued"}
    BY <1>20, <2>1 DEF LoadPage, Admitted, Valid
  <2>3. \A u \in Tab : \/ /\ u # t
                           /\ refresh'[u] = refresh[u]
                        \/ /\ u = t /\ refresh'[u].st = "none"
                           /\ refresh'[u].token \in {0, refresh[u].token}
    <3>1. NoRefresh.st = "none" /\ NoRefresh.token = 0
      BY DEF NoRefresh
    <3>2. \A u \in Tab : refresh'[u] = IF u = t /\ refresh[u].st = "queued"
                                       THEN NoRefresh ELSE refresh[u]
      BY <1>1, <2>2 DEF Unload
    <3> QED
      BY <2>2, <3>1, <3>2
  <2>4. \A d \in Caller : \/ call'[d] = call[d]
                           \/ /\ call[d].st = "refreshing" /\ call'[d].op = "none"
                              /\ call'[d].st = "idle" /\ call'[d].token = 0
    BY <2>2 DEF CallsLeft, NoCall
  <2>5. \A u \in Tab : (Active(u)' <=> Active(u)) /\ (Active(u) => u # t)
                       /\ (Renewing(u)' <=> Renewing(u)) /\ (Renewing(u) => u # t)
    BY <2>2, <2>3 DEF Active, Renewing
  <2>6. LockHeld'
    <3>1. locks \in Seq(Tab) /\ IsInjective(locks) /\ locks' = RemoveFirst(locks, t)
      BY <2>2 DEF LocksOK, Unload, Release
    <3>2. locks # <<>> /\ Head(locks) # t => locks' # <<>> /\ Head(locks') = Head(locks)
      BY <3>1, Dequeue
    <3> QED
      BY <1>2, <2>5, <3>2 DEF LockHeld
  <2>7. Undisturbed' /\ SentUsable'
    BY <1>2, <2>2, <2>3, <2>4 DEF Undisturbed, SentUsable, Usable, Pair
  <2>8. JarUsable'
    <3>1. \A d \in Caller : Switching(d) => Switching(d)'
      BY <2>4 DEF Switching
    <3> QED
      BY <1>2, <2>2, <2>5, <3>1 DEF JarUsable, Usable
  <2>9. NewUnseen'
    <3>1. \A j : Unseen(j) => Unseen(j)'
      BY <2>2, <2>3, <2>4 DEF Unseen, Usable
    <3>2. \A d \in Caller : Switched(d)' => Switched(d) /\ call'[d] = call[d]
      BY <2>4 DEF Switched
    <3>3. \A u \in Tab : Renewing(u)' => Renewing(u) /\ refresh'[u] = refresh[u]
      BY <2>3, <2>5
    <3> QED
      BY <1>2, <3>1, <3>2, <3>3 DEF NewUnseen
  <2> QED
    BY <2>6, <2>7, <2>8, <2>9 DEF Calm
<1> QED
  BY <1>5, <1>6, <1>7, <1>8, <1>12, <1>13, <1>14, <1>15, <1>16, <1>17, <1>18, <1>19,
     <1>20 DEF Next, ServeCall, ServeRefresh

\* What has happened stays so.
LEMMA UpsetStays == ASSUME [Next]_vars, upset PROVE upset'
BY DEF Next, vars, Start, ServeCall, Serve, RevokeOld, CreateNew, Answered, CallFailed,
       SendRefresh, ServeRefresh, Rotate, CheckSession, RevokeNew, RefreshAnswered,
       RefreshFailed, LoadPage, Login, Age

\* Where the browser has Web Locks, neither api.js nor the server's page route
\* sends a tab to the login page unless somebody logged out, a request failed or
\* its answer was lost, a refresh token lapsed, a page was loaded after the
\* access token had expired, or a change of environment revoked the token of a
\* refresh under way: tabs that refresh at the same time do not end each other's
\* login (api.js, refresh).  Without Web Locks they can.
THEOREM TabsSpareEachOther == WebLocks /\ Spec => []NoSpuriousLogout
<1> DEFINE Inv == WebLocks /\ IInv /\ LocksOK /\ OutInv /\ (~upset => Calm)
<1>1. Init => OutInv
  BY DEF Init, OutInv, CallFine, RefreshFine, NoCall, NoRefresh
<1>2. WebLocks /\ Init => Inv
  BY <1>1, AuthSessionAssumption, InitIInv, InitTypes, InitCalm
<1>3. ASSUME Inv, [Next]_vars PROVE Inv'
  <2>1. IInv' /\ LocksOK' /\ OutInv'
    BY <1>3, AuthSessionAssumption, StepIInv, StepLocks, StepOut
  <2>2. ~upset' => Calm'
    <3>1. CASE UNCHANGED vars
      BY <1>3, <3>1 DEF vars, Calm, Undisturbed, LockHeld, SentUsable, JarUsable, NewUnseen,
                        Active, Renewing, Switched, Switching, Usable, Unseen, Pair
    <3>2. CASE Next
      BY <1>3, <3>2, AuthSessionAssumption, StepCalm, UpsetStays
    <3> QED
      BY <1>3, <3>1, <3>2
  <2> QED
    BY <1>3, <2>1, <2>2
<1>4. Inv => NoSpuriousLogout
  BY DEF Calm, Undisturbed, NoSpuriousLogout
<1> HIDE DEF Inv
<1> QED
  BY <1>2, <1>3, <1>4, PTL DEF Spec
=============================================================================
