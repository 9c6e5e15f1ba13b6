-------------------------- MODULE AuthTokensProofs --------------------------
(***************************************************************************)
(* Theorems about AuthTokens, for any passwords, tokens, resets and number *)
(* of requests in progress.                                                *)
(***************************************************************************)
EXTENDS AuthTokens, TLAPS

-----------------------------------------------------------------------------
(* Type correctness.                                                       *)

LEMMA RowsNotNone == None \notin TokenRow \cup OnceRow \cup AccountRow \cup Tokens \cup Passwords \cup Resets
  BY AuthAssumption DEF AuthAssumption

LEMMA ReqBecomesOne ==
    ASSUME req \in [Requests -> ReqType], NEW q \in Requests, NEW x, ReqBecomes(q, x)
    PROVE  /\ req'[q] = x
           /\ \A p \in Requests \ {q} : req'[p] = req[p]
           /\ x \in ReqType => req' \in [Requests -> ReqType]
  BY DEF ReqBecomes

LEMMA IdleTyped == ReqOK(IdleReq) /\ ReqOK(IdleReq)' /\ IdleReq \in ReqType
  BY RowsNotNone DEF ReqOK, IdleReq, ReqType

\* No row disappears, and no token changes its session.
RowsStay ==
    /\ account # None => account' # None
    /\ \A z \in Resets : resets[z] # None => resets'[z] # None
    /\ \A t \in Tokens : tokens[t] # None => tokens'[t] # None /\ session'[t] = session[t]

LEMMA OthersTyped ==
    ASSUME TypeOK, RowsStay, NEW p \in Requests, req'[p] = req[p]
    PROVE  ReqOK(req[p])'
<1>1. ReqOK(req[p]) /\ req[p].token \in Tokens \cup {None}
  BY DEF TypeOK, ReqType
<1> QED BY <1>1 DEF ReqOK, RowsStay

\* One request moves to x.
LEMMA StepTyped ==
    ASSUME TypeOK, RowsStay, RowsOK', NEW q \in Requests, NEW x, ReqBecomes(q, x), ReqOK(x)'
    PROVE  TypeOK' /\ RowsStay
<1>1. /\ req'[q] = x /\ req' \in [Requests -> ReqType]
      /\ \A p \in Requests \ {q} : req'[p] = req[p]
  BY ReqBecomesOne DEF TypeOK, ReqOK
<1>2. ASSUME NEW p \in Requests PROVE ReqOK(req[p])'
  <2>1. CASE p = q
    <3>1. req'[p] = x
      BY <1>1, <2>1
    <3> QED BY <3>1 DEF ReqOK
  <2>2. CASE p # q
    BY <1>1, <2>2, OthersTyped
  <2> QED BY <2>1, <2>2
<1> QED BY <1>1, <1>2 DEF TypeOK

\* One request moves to x, and outdates what others have read.
LEMMA OvertakingTyped ==
    ASSUME TypeOK, RowsStay, RowsOK', NEW q \in Requests, NEW x, NEW others,
           NEW by \in {"refresh", "reset"}, Overtakes(q, x, others, by), ReqOK(x)'
    PROVE  TypeOK' /\ RowsStay
<1>1. ASSUME NEW p \in Requests PROVE req'[p] \in ReqType /\ ReqOK(req[p])'
  <2>1. CASE req'[p] = x
    BY <2>1 DEF ReqOK
  <2>2. CASE req'[p] = req[p]
    <3>1. ReqOK(req[p])'
      BY <2>2, OthersTyped
    <3> QED BY <2>2, <3>1 DEF TypeOK
  <2>3. CASE req'[p] = [req[p] EXCEPT !.overtaken = @ \cup {by}]
    <3> DEFINE y == [req[p] EXCEPT !.overtaken = @ \cup {by}]
    <3>1. ReqOK(req[p]) /\ req[p] \in ReqType
      BY DEF TypeOK
    <3>2. /\ y \in ReqType /\ y.pc = req[p].pc /\ y.password = req[p].password
          /\ y.token = req[p].token /\ y.family = req[p].family /\ y.reset = req[p].reset
      BY <3>1 DEF ReqType
    <3>3. req'[p] = y
      BY <2>3
    <3> HIDE DEF y
    <3> QED BY <3>1, <3>2, <3>3 DEF ReqOK, ReqType, RowsStay
  <2> QED BY <2>1, <2>2, <2>3 DEF Overtakes
<1>2. req' \in [Requests -> ReqType]
  <2>1. req' = [p \in Requests |-> req'[p]]
    BY DEF Overtakes
  <2> QED BY <1>1, <2>1
<1> QED BY <1>1, <1>2 DEF TypeOK

\* A statement that moves no request.
LEMMA IdleStepTyped ==
    ASSUME TypeOK, RowsStay, RowsOK', req' = req
    PROVE  TypeOK' /\ RowsStay
<1>1. ASSUME NEW p \in Requests PROVE ReqOK(req[p])'
  BY OthersTyped
<1> QED BY <1>1 DEF TypeOK

LEMMA EndTyped ==
    ASSUME TypeOK, RowsStay, RowsOK', NEW q \in Requests, Ends(q)
    PROVE  TypeOK' /\ RowsStay
  BY IdleTyped, StepTyped DEF Ends

\* A request begins: it has read rows, and changes none.
LEMMA ReadTyped ==
    ASSUME TypeOK, NEW q \in Requests, NEW x, ReqBecomes(q, x), ReqOK(x), UNCHANGED <<db, history>>
    PROVE  TypeOK' /\ RowsStay
<1>1. RowsStay
  BY DEF RowsStay, db, history
<1>2. RowsOK'
  BY DEF TypeOK, RowsOK, db, history
<1>3. ReqOK(x)'
  BY DEF ReqOK, db, history
<1> QED BY <1>1, <1>2, <1>3, StepTyped

LEMMA BeginTyped ==
    ASSUME TypeOK, NEW q \in Requests, Begin(q)
    PROVE  TypeOK' /\ RowsStay
<1> USE RowsNotNone DEF IdleReq, ReqType, ReqOK
<1>1. ASSUME NEW w \in Passwords, BeginRegister(q, w) PROVE TypeOK' /\ RowsStay
  <2> DEFINE x == [IdleReq EXCEPT !.pc = "create", !.password = w]
  <2>1. ReqOK(x)
    OBVIOUS
  <2>2. ReqBecomes(q, x) /\ UNCHANGED <<db, history>>
    BY <1>1 DEF BeginRegister
  <2> HIDE DEF x
  <2> QED BY <2>1, <2>2, ReadTyped
<1>2. ASSUME NEW w \in Passwords, BeginLogin(q, w) PROVE TypeOK' /\ RowsStay
  <2> DEFINE x == [IdleReq EXCEPT !.pc = "issue", !.since = version]
  <2>1. ReqOK(x)
    BY DEF TypeOK, RowsOK
  <2>2. ReqBecomes(q, x) /\ UNCHANGED <<db, history>>
    BY <1>2 DEF BeginLogin
  <2> HIDE DEF x
  <2> QED BY <2>1, <2>2, ReadTyped
<1>3. ASSUME NEW w \in Passwords, NEW z \in Resets, BeginConfirm(q, z, w) PROVE TypeOK' /\ RowsStay
  <2> DEFINE x == [IdleReq EXCEPT !.pc = "confirm", !.reset = z, !.password = w]
  <2>1. resets[z] # None
    BY <1>3 DEF BeginConfirm, Resettable, Usable
  <2>2. account # None
    BY <2>1 DEF TypeOK, RowsOK
  <2>3. ReqOK(x)
    BY <2>1, <2>2
  <2>4. ReqBecomes(q, x) /\ UNCHANGED <<db, history>>
    BY <1>3 DEF BeginConfirm
  <2> HIDE DEF x
  <2> QED BY <2>3, <2>4, ReadTyped
<1>4. ASSUME NEW t \in Tokens, BeginRefresh(q, t) PROVE TypeOK' /\ RowsStay
  <2> DEFINE x == [IdleReq EXCEPT !.pc = IF tokens[t].revoked THEN "reuse" ELSE "rotate",
                                  !.token = t, !.family = tokens[t].family,
                                  !.since = since[t]]
  <2>1. tokens[t] \in TokenRow /\ tokens[t].family = session[t] /\ since[t] \in Nat
    BY <1>4 DEF BeginRefresh, TypeOK, RowsOK
  <2>2. ReqOK(x)
    BY <2>1 DEF TokenRow
  <2>3. ReqBecomes(q, x) /\ UNCHANGED <<db, history>>
    BY <1>4 DEF BeginRefresh
  <2> HIDE DEF x
  <2> QED BY <2>2, <2>3, ReadTyped
<1>5. CASE BeginVerify(q)
  <2> DEFINE x == [IdleReq EXCEPT !.pc = "verify"]
  <2>1. ReqOK(x)
    BY <1>5 DEF BeginVerify, Usable, TypeOK, RowsOK
  <2>2. ReqBecomes(q, x) /\ UNCHANGED <<db, history>>
    BY <1>5 DEF BeginVerify
  <2> HIDE DEF x
  <2> QED BY <2>1, <2>2, ReadTyped
<1> QED BY <1>1, <1>2, <1>3, <1>4, <1>5 DEF Begin

\* The statement that revokes tokens changes nothing else of them.
LEMMA RevokeOne ==
    ASSUME RowsOK, NEW ts, Revoke(ts)
    PROVE  /\ tokens' \in [Tokens -> TokenRow \cup {None}]
           /\ \A t \in Tokens : tokens[t] = None <=> tokens'[t] = None
           /\ \A t \in Tokens : tokens[t] # None => tokens'[t].family = tokens[t].family
           /\ \A t \in Tokens : tokens'[t] # None /\ ~tokens'[t].revoked =>
                                  t \notin ts /\ tokens[t] # None /\ ~tokens[t].revoked
<1>1. ASSUME NEW t \in Tokens, tokens[t] # None
      PROVE  /\ [tokens[t] EXCEPT !.revoked = TRUE] \in TokenRow
             /\ [tokens[t] EXCEPT !.revoked = TRUE].family = tokens[t].family
             /\ [tokens[t] EXCEPT !.revoked = TRUE].revoked
             /\ [tokens[t] EXCEPT !.revoked = TRUE] # None
  <2> DEFINE row == [tokens[t] EXCEPT !.revoked = TRUE]
  <2>1. tokens[t] \in TokenRow
    BY <1>1 DEF RowsOK
  <2>2. row \in TokenRow /\ row.family = tokens[t].family /\ row.revoked
    BY <2>1 DEF TokenRow
  <2>3. row # None
    BY <2>2, RowsNotNone
  <2> QED BY <2>2, <2>3
<1>2. ASSUME NEW t \in Tokens
      PROVE  tokens'[t] = IF t \in ts /\ tokens[t] # None
                          THEN [tokens[t] EXCEPT !.revoked = TRUE] ELSE tokens[t]
  BY DEF Revoke
<1>3. tokens' \in [Tokens -> TokenRow \cup {None}]
  BY <1>1 DEF Revoke, RowsOK
<1> QED BY <1>1, <1>2, <1>3

\* A statement that only revokes tokens leaves the rows in order.
LEMMA RevokeTyped ==
    ASSUME TypeOK, NEW ts, Revoke(ts), RowsOK, reused' \subseteq Tokens,
           forked' \subseteq Tokens, UNCHANGED <<account, verification, resets, version, session, since, stale>>
    PROVE  RowsOK' /\ RowsStay
<1>1. /\ tokens' \in [Tokens -> TokenRow \cup {None}]
      /\ \A t \in Tokens : tokens[t] = None <=> tokens'[t] = None
      /\ \A t \in Tokens : tokens[t] # None => tokens'[t].family = tokens[t].family
  BY RevokeOne
<1>2. \A t \in Tokens : tokens[t] # None => tokens[t].family \in Tokens
  BY DEF RowsOK, TokenRow
<1> QED BY <1>1, <1>2 DEF RowsOK, RowsStay

LEMMA IssueTyped ==
    ASSUME TypeOK, NEW q \in Requests, IssueTokens(q)
    PROVE  TypeOK' /\ RowsStay
<1>0. ReqOK(req[q]) /\ RowsOK /\ req[q] \in ReqType
  BY DEF TypeOK
<1>1. PICK t \in Tokens :
        /\ tokens[t] = None
        /\ tokens' = [tokens EXCEPT ![t] = [family |-> FamilyOf(q, t), revoked |-> FALSE,
                                            expired |-> FALSE]]
        /\ session' = [session EXCEPT ![t] = IF req[q].token = None
                                             THEN t ELSE session[req[q].token]]
        /\ since' = [since EXCEPT ![t] = req[q].since]
        /\ forked' \in {forked, forked \cup {session'[t]}}
        /\ stale' \in {stale, stale \cup {session'[t]}}
  <2>1. PICK t \in Tokens :
          LET opener == IF req[q].token = None THEN t ELSE session[req[q].token] IN
          /\ tokens[t] = None
          /\ tokens' = [tokens EXCEPT ![t] = [family |-> FamilyOf(q, t), revoked |-> FALSE,
                                              expired |-> FALSE]]
          /\ session' = [session EXCEPT ![t] = opener]
          /\ since' = [since EXCEPT ![t] = req[q].since]
          /\ forked' = IF "refresh" \in req[q].overtaken THEN forked \cup {opener} ELSE forked
          /\ stale' = IF "reset" \in req[q].overtaken THEN stale \cup {opener} ELSE stale
    BY DEF IssueTokens
  <2> DEFINE opener == IF req[q].token = None THEN t ELSE session[req[q].token]
  <2>2. session'[t] = opener
    BY <1>0, <2>1 DEF RowsOK
  <2> QED BY <2>1, <2>2
<1> DEFINE f == FamilyOf(q, t)
           row == [family |-> f, revoked |-> FALSE, expired |-> FALSE]
<1>2. f \in Tokens /\ (f = t \/ tokens[f] # None) /\ session' = [session EXCEPT ![t] = f]
  <2>1. CASE req[q].token = None
    BY <1>0, <1>1, <2>1 DEF FamilyOf, ReqOK
  <2>2. CASE req[q].token # None
    <3>1. /\ req[q].token \in Tokens /\ tokens[req[q].token] # None
          /\ req[q].family = session[req[q].token]
      BY <1>0, <2>2 DEF ReqOK, ReqType
    <3>2. /\ tokens[req[q].token] \in TokenRow
          /\ tokens[req[q].token].family = session[req[q].token]
          /\ tokens[tokens[req[q].token].family] # None
      BY <1>0, <3>1 DEF RowsOK
    <3>3. f = session[req[q].token] /\ f \in Tokens /\ tokens[f] # None
      BY <3>1, <3>2, RowsNotNone DEF FamilyOf, TokenRow
    <3> QED BY <1>1, <2>2, <3>3
  <2> QED BY <2>1, <2>2
<1>3. tokens' = [tokens EXCEPT ![t] = row]
  BY <1>1
<1> HIDE DEF f
<1>4. row \in TokenRow /\ row.family = f
  BY <1>2 DEF TokenRow
<1>5. row # None
  BY <1>4, RowsNotNone
<1> HIDE DEF row
<1>6. /\ tokens'[t] = row /\ session'[t] = f
      /\ \A u \in Tokens \ {t} : tokens'[u] = tokens[u] /\ session'[u] = session[u]
  BY <1>0, <1>2, <1>3 DEF RowsOK
<1>7. tokens' \in [Tokens -> TokenRow \cup {None}] /\ session' \in [Tokens -> Tokens \cup {None}]
  BY <1>0, <1>2, <1>3, <1>4 DEF RowsOK
<1>8. since' \in [Tokens -> Nat]
  <2>1. req[q].since \in Nat /\ since \in [Tokens -> Nat]
    BY <1>0 DEF ReqType, RowsOK
  <2> QED BY <1>1, <2>1
<1>9. RowsStay
  BY <1>1, <1>5, <1>6 DEF RowsStay, IssueTokens
<1>10. ASSUME NEW u \in Tokens, tokens'[u] # None
       PROVE  tokens'[tokens'[u].family] # None /\ tokens'[u].family = session'[u]
  <2>1. CASE u = t
    BY <1>2, <1>4, <1>5, <1>6, <1>9, <2>1 DEF RowsStay
  <2>2. CASE u # t
    <3>1. tokens[u] \in TokenRow /\ tokens[tokens[u].family] # None /\ tokens[u].family = session[u]
      BY <1>0, <1>6, <1>10, <2>2 DEF RowsOK
    <3>2. tokens[u].family \in Tokens
      BY <3>1 DEF TokenRow
    <3> QED BY <1>6, <1>9, <2>2, <3>1, <3>2 DEF RowsStay
  <2> QED BY <2>1, <2>2
<1>11. forked' \subseteq Tokens /\ stale' \subseteq Tokens
  BY <1>0, <1>1, <1>2, <1>6 DEF RowsOK
<1>12. RowsOK'
  BY <1>0, <1>7, <1>8, <1>10, <1>11 DEF RowsOK, IssueTokens
<1> QED BY <1>9, <1>12, EndTyped DEF IssueTokens

LEMMA HandleTyped ==
    ASSUME TypeOK, NEW q \in Requests, Handle(q)
    PROVE  TypeOK' /\ RowsStay
<1>0. ReqOK(req[q]) /\ RowsOK /\ req[q] \in ReqType
  BY DEF TypeOK
<1>1. CASE CreateAccount(q)
  <2>0. PICK n \in Nat : n = version + 1
    BY <1>0 DEF RowsOK
  <2> DEFINE x == [IdleReq EXCEPT !.pc = "issue", !.since = n]
             row == [password |-> req[q].password, verified |-> FALSE]
  <2>1. row \in AccountRow
    BY <1>0, <1>1 DEF CreateAccount, ReqOK, AccountRow
  <2>2. row # None /\ FreshRow \in OnceRow /\ FreshRow # None
    <3>1. FreshRow \in OnceRow
      BY DEF FreshRow, OnceRow
    <3> QED BY <2>1, <3>1, RowsNotNone
  <2>3. /\ account' = row /\ verification' = FreshRow /\ ReqBecomes(q, x)
        /\ version' = version + 1 /\ UNCHANGED <<resets, tokens, session, since, reused, forked, stale>>
    BY <1>1, <2>0 DEF CreateAccount
  <2>4. x \in ReqType /\ x.pc = "issue" /\ x.token = None /\ x.family = None
    BY RowsNotNone DEF IdleReq, ReqType
  <2> HIDE DEF x, row
  <2>5. RowsStay /\ version' \in Nat
    BY <2>0, <2>2, <2>3 DEF RowsStay
  <2>6. RowsOK'
    BY <1>0, <2>1, <2>2, <2>3, <2>5 DEF RowsOK
  <2>7. ReqOK(x)'
    BY <2>4 DEF ReqOK
  <2> QED BY <2>3, <2>5, <2>6, <2>7, StepTyped
<1>2. CASE CreateRejected(q) \/ StopRequest(q)
  <2>1. UNCHANGED <<db, history>> /\ Ends(q)
    BY <1>2 DEF CreateRejected, StopRequest
  <2> QED BY <2>1, IdleTyped, ReadTyped DEF Ends
<1>3. CASE IssueTokens(q)
  BY <1>3, IssueTyped
<1>4. CASE RevokeFamily(q)
  <2>1. session[req[q].token] \in Tokens
    <3>1. req[q].token \in Tokens /\ tokens[req[q].token] # None
      BY <1>0, <1>4, RowsNotNone DEF RevokeFamily, ReqOK
    <3> QED BY <1>0, <3>1 DEF RowsOK, TokenRow
  <2>2. reused' \subseteq Tokens /\ forked' \subseteq Tokens
    BY <1>0, <1>4, <2>1 DEF RevokeFamily, RowsOK
  <2>3. RowsOK' /\ RowsStay
    BY <1>0, <1>4, <2>2, RevokeTyped DEF RevokeFamily
  <2>4. Overtakes(q, IdleReq, RefreshesOf(q, {"rotate", "issue"}), "refresh")
    BY <1>4 DEF RevokeFamily
  <2> QED BY <2>3, <2>4, IdleTyped, OvertakingTyped
<1>5. CASE RevokeOld(q)
  <2>0. PICK x : x = [req[q] EXCEPT !.pc = "issue"]
    OBVIOUS
  <2>1. RowsOK' /\ RowsStay
    BY <1>0, <1>5, RevokeTyped DEF RevokeOld, history, RowsOK
  <2>2. /\ x \in ReqType /\ x.pc = "issue" /\ x.token = req[q].token /\ x.family = req[q].family
        /\ x.token \in Tokens
    BY <1>0, <1>5, <2>0 DEF ReqType, RevokeOld, ReqOK
  <2>3. Overtakes(q, x, RefreshesOf(q, {"rotate"}), "refresh")
    BY <1>5, <2>0 DEF RevokeOld
  <2>4. ReqOK(x)'
    BY <1>0, <2>1, <2>2 DEF ReqOK, RowsStay
  <2> QED BY <2>1, <2>3, <2>4, OvertakingTyped
<1>6. CASE VerifyEmail(q)
  <2>1. account # None /\ verification # None
    BY <1>0, <1>6 DEF VerifyEmail, ReqOK, RowsOK
  <2>2. /\ [verification EXCEPT !.used = TRUE] \in OnceRow
        /\ [account EXCEPT !.verified = TRUE] \in AccountRow
    BY <1>0, <2>1 DEF RowsOK, OnceRow, AccountRow
  <2>3. account' \in AccountRow /\ verification' \in OnceRow
    BY <1>6, <2>2 DEF VerifyEmail
  <2>4. account' # None /\ verification' # None
    BY <2>3, RowsNotNone
  <2>5. RowsOK' /\ RowsStay
    BY <1>0, <1>6, <2>3, <2>4 DEF VerifyEmail, history, RowsOK, RowsStay
  <2> QED BY <1>6, <2>5, EndTyped DEF VerifyEmail
<1>7. CASE ConfirmReset(q)
  <2> DEFINE z == req[q].reset
  <2>1. account # None /\ z \in Resets /\ resets[z] # None /\ req[q].password \in Passwords
    BY <1>0, <1>7 DEF ConfirmReset, ReqOK
  <2>2. /\ [account EXCEPT !.password = req[q].password] \in AccountRow
        /\ [resets[z] EXCEPT !.used = TRUE] \in OnceRow
    BY <1>0, <2>1 DEF RowsOK, OnceRow, AccountRow
  <2>3. account' \in AccountRow /\ account' # None
    BY <1>7, <2>2, RowsNotNone DEF ConfirmReset
  <2>4. resets' = [resets EXCEPT ![z] = [resets[z] EXCEPT !.used = TRUE]]
    BY <1>7 DEF ConfirmReset
  <2>5. [resets[z] EXCEPT !.used = TRUE] # None
    BY <2>2, RowsNotNone
  <2>6. resets' \in [Resets -> OnceRow \cup {None}] /\ \A y \in Resets : resets[y] # None => resets'[y] # None
    <3> DEFINE row == [resets[z] EXCEPT !.used = TRUE]
    <3>1. row \in OnceRow /\ row # None /\ resets' = [resets EXCEPT ![z] = row]
      BY <2>2, <2>4, <2>5
    <3> HIDE DEF row, z
    <3> QED BY <1>0, <2>1, <3>1 DEF RowsOK
  <2>7. version' \in Nat /\ stale' \subseteq Tokens
    BY <1>0, <1>7 DEF ConfirmReset, RowsOK
  <2>8. /\ tokens' \in [Tokens -> TokenRow \cup {None}]
        /\ \A t \in Tokens : tokens[t] = None <=> tokens'[t] = None
        /\ \A t \in Tokens : tokens[t] # None => tokens'[t].family = tokens[t].family
    BY <1>0, <1>7, RevokeOne DEF ConfirmReset
  <2>9. UNCHANGED <<verification, session, since, reused, forked>>
    BY <1>7 DEF ConfirmReset
  <2> HIDE DEF z
  <2>10. RowsStay
    BY <2>3, <2>6, <2>8, <2>9 DEF RowsStay
  <2>11. \A t \in Tokens : tokens'[t] # None => tokens'[tokens'[t].family] # None /\ tokens'[t].family = session'[t]
    <3>1. \A t \in Tokens : tokens[t] # None => tokens[t].family \in Tokens
      BY <1>0 DEF RowsOK, TokenRow
    <3> QED BY <1>0, <2>8, <2>9, <3>1 DEF RowsOK
  <2>12. RowsOK'
    BY <1>0, <2>1, <2>3, <2>6, <2>7, <2>8, <2>9, <2>11 DEF RowsOK
  <2>13. Overtakes(q, IdleReq, {p \in Requests : req[p].pc \in {"rotate", "issue"}}, "reset")
    BY <1>7 DEF ConfirmReset
  <2> QED BY <2>10, <2>12, <2>13, IdleTyped, OvertakingTyped
<1> QED BY <1>1, <1>2, <1>3, <1>4, <1>5, <1>6, <1>7 DEF Handle

LEMMA ExpireTyped ==
    ASSUME TypeOK,
           \/ \E t \in Tokens : Logout(t) \/ ExpireToken(t)
           \/ \E z \in Resets : RequestReset(z) \/ ExpireReset(z)
           \/ ExpireVerification
    PROVE  TypeOK' /\ RowsStay
<1>0. RowsOK
  BY DEF TypeOK
<1>1. ASSUME NEW t \in Tokens, Logout(t) PROVE TypeOK' /\ RowsStay
  <2>1. RowsOK' /\ RowsStay
    BY <1>0, <1>1, RevokeTyped DEF Logout, history, RowsOK
  <2> QED BY <1>1, <2>1, IdleStepTyped DEF Logout
<1>2. ASSUME NEW t \in Tokens, ExpireToken(t) PROVE TypeOK' /\ RowsStay
  <2> DEFINE row == [tokens[t] EXCEPT !.expired = TRUE]
  <2>1. tokens[t] \in TokenRow
    BY <1>0, <1>2 DEF ExpireToken, Standing, RowsOK
  <2>2. row \in TokenRow /\ row.family = tokens[t].family /\ row.family \in Tokens
    BY <2>1 DEF TokenRow
  <2>3. row # None
    BY <2>2, RowsNotNone
  <2>4. tokens' = [tokens EXCEPT ![t] = row]
    BY <1>2 DEF ExpireToken, Standing
  <2> HIDE DEF row
  <2>5. /\ tokens'[t] = row /\ tokens' \in [Tokens -> TokenRow \cup {None}]
        /\ \A u \in Tokens \ {t} : tokens'[u] = tokens[u]
    BY <1>0, <2>2, <2>4 DEF RowsOK
  <2>6. RowsStay
    BY <1>2, <2>3, <2>5 DEF ExpireToken, Standing, history, RowsStay
  <2>7. ASSUME NEW u \in Tokens, tokens'[u] # None
        PROVE  tokens'[tokens'[u].family] # None /\ tokens'[u].family = session'[u]
    <3>1. tokens'[u].family = tokens[u].family /\ tokens[u] # None
      BY <1>2, <2>2, <2>5, <2>7 DEF ExpireToken, Standing
    <3>2. tokens[u].family \in Tokens /\ tokens[tokens[u].family] # None /\ tokens[u].family = session[u]
      BY <1>0, <3>1 DEF RowsOK, TokenRow
    <3> QED BY <1>2, <2>6, <3>1, <3>2 DEF RowsStay
  <2>8. RowsOK'
    BY <1>0, <1>2, <2>5, <2>7 DEF ExpireToken, Standing, history, RowsOK
  <2> QED BY <1>2, <2>6, <2>8, IdleStepTyped DEF ExpireToken, Standing
<1>3. ASSUME NEW z \in Resets, RequestReset(z) PROVE TypeOK' /\ RowsStay
  <2>1. FreshRow \in OnceRow
    BY DEF FreshRow, OnceRow
  <2>2. FreshRow # None
    BY <2>1, RowsNotNone
  <2>3. RowsOK' /\ RowsStay
    BY <1>0, <1>3, <2>1, <2>2 DEF RequestReset, history, RowsOK, RowsStay
  <2> QED BY <1>3, <2>3, IdleStepTyped DEF RequestReset
<1>4. ASSUME NEW z \in Resets, ExpireReset(z) PROVE TypeOK' /\ RowsStay
  <2> DEFINE row == [resets[z] EXCEPT !.expired = TRUE]
  <2>1. row \in OnceRow
    BY <1>0, <1>4 DEF ExpireReset, Usable, RowsOK, OnceRow
  <2>2. row # None
    BY <2>1, RowsNotNone
  <2>3. resets' = [resets EXCEPT ![z] = row]
    BY <1>4 DEF ExpireReset
  <2> HIDE DEF row
  <2>4. RowsOK' /\ RowsStay
    BY <1>0, <1>4, <2>1, <2>2, <2>3 DEF ExpireReset, Usable, history, RowsOK, RowsStay
  <2> QED BY <1>4, <2>4, IdleStepTyped DEF ExpireReset
<1>5. ASSUME ExpireVerification PROVE TypeOK' /\ RowsStay
  <2> DEFINE row == [verification EXCEPT !.expired = TRUE]
  <2>1. row \in OnceRow
    BY <1>0, <1>5 DEF ExpireVerification, Usable, RowsOK, OnceRow
  <2>2. row # None
    BY <2>1, RowsNotNone
  <2>3. verification' = row
    BY <1>5 DEF ExpireVerification
  <2> HIDE DEF row
  <2>4. RowsOK' /\ RowsStay
    BY <1>0, <1>5, <2>1, <2>2, <2>3 DEF ExpireVerification, Usable, history, RowsOK, RowsStay
  <2> QED BY <1>5, <2>4, IdleStepTyped DEF ExpireVerification
<1> QED BY <1>1, <1>2, <1>3, <1>4, <1>5

LEMMA TypeStep == TypeOK /\ [Next]_vars => TypeOK' /\ RowsStay
<1> SUFFICES ASSUME TypeOK, [Next]_vars PROVE TypeOK' /\ RowsStay /\ RowsStay
  OBVIOUS
<1>1. CASE UNCHANGED vars
  <2>1. RowsOK' /\ RowsStay /\ req' = req
    BY <1>1 DEF TypeOK, RowsOK, RowsStay, vars, db, history
  <2> QED BY <2>1, IdleStepTyped
<1>2. ASSUME NEW q \in Requests, Begin(q) \/ Handle(q) PROVE TypeOK' /\ RowsStay
  BY <1>2, BeginTyped, HandleTyped
<1> QED BY <1>1, <1>2, ExpireTyped DEF Next

\* Every row has its type and refers to rows that exist, and what a request has
\* read still exists when it writes: TypeOK holds of every behaviour.
THEOREM TypeCorrect == Spec => []TypeOK
<1>1. Init => TypeOK
  <2> SUFFICES ASSUME Init PROVE TypeOK
    OBVIOUS
  <2>1. RowsOK
    BY DEF Init, RowsOK
  <2>2. IdleReq \in ReqType /\ ReqOK(IdleReq)
    BY IdleTyped
  <2> QED BY <2>1, <2>2 DEF Init, TypeOK
<1> QED BY <1>1, TypeStep, PTL DEF Spec

-----------------------------------------------------------------------------
(* Which tokens can be refreshed after a step.                             *)

\* No token is issued, and no token that is revoked can be refreshed again.
Quiet ==
    /\ session' = session /\ since' = since
    /\ \A t \in Tokens : tokens'[t] # None => tokens[t] # None
    /\ \A t \in Tokens : Standing(t)' => Standing(t)

LEMMA RevokeQuiet ==
    ASSUME RowsOK, NEW ts, Revoke(ts), session' = session, since' = since
    PROVE  Quiet /\ \A t \in Tokens : Standing(t)' => t \notin ts
  BY RevokeOne DEF Quiet, Standing

LEMMA SameQuiet ==
    ASSUME tokens' = tokens, session' = session, since' = since
    PROVE  Quiet
  BY DEF Quiet, Standing

LEMMA BeginQuiet ==
    ASSUME NEW q \in Requests, Begin(q)
    PROVE  Quiet /\ UNCHANGED <<db, history>>
<1>1. UNCHANGED <<db, history>>
  BY DEF Begin, BeginRegister, BeginLogin, BeginConfirm, BeginRefresh, BeginVerify
<1> QED BY <1>1, SameQuiet DEF db, history

LEMMA HandleQuiet ==
    ASSUME TypeOK, NEW q \in Requests, Handle(q), ~IssueTokens(q)
    PROVE  Quiet
<1>0. RowsOK
  BY DEF TypeOK
<1>1. CASE CreateAccount(q) \/ CreateRejected(q) \/ StopRequest(q) \/ VerifyEmail(q)
  BY <1>1, SameQuiet DEF CreateAccount, CreateRejected, StopRequest, VerifyEmail, db, history
<1>2. CASE RevokeFamily(q) \/ RevokeOld(q) \/ ConfirmReset(q)
  <2>1. PICK ts : Revoke(ts) /\ session' = session /\ since' = since
    BY <1>2 DEF RevokeFamily, RevokeOld, ConfirmReset, history
  <2> QED BY <1>0, <2>1, RevokeQuiet
<1> QED BY <1>1, <1>2 DEF Handle

LEMMA ExpireQuiet ==
    ASSUME TypeOK,
           \/ \E t \in Tokens : Logout(t) \/ ExpireToken(t)
           \/ \E z \in Resets : RequestReset(z) \/ ExpireReset(z)
           \/ ExpireVerification
    PROVE  Quiet /\ UNCHANGED <<req, history>>
<1>0. RowsOK
  BY DEF TypeOK
<1>1. ASSUME NEW t \in Tokens, Logout(t) PROVE Quiet /\ UNCHANGED <<req, history>>
  BY <1>0, <1>1, RevokeQuiet DEF Logout, history
<1>2. ASSUME NEW t \in Tokens, ExpireToken(t) PROVE Quiet /\ UNCHANGED <<req, history>>
  <2>1. tokens[t] \in TokenRow
    BY <1>0, <1>2 DEF ExpireToken, Standing, RowsOK
  <2>2. [tokens[t] EXCEPT !.expired = TRUE].revoked = tokens[t].revoked
    BY <2>1 DEF TokenRow
  <2>3. /\ tokens'[t].revoked = tokens[t].revoked
        /\ \A u \in Tokens \ {t} : tokens'[u] = tokens[u]
    BY <1>0, <1>2, <2>2 DEF ExpireToken, Standing, RowsOK
  <2> QED BY <1>2, <2>3 DEF ExpireToken, Quiet, Standing, history
<1>3. ASSUME NEW z \in Resets, RequestReset(z) \/ ExpireReset(z)
      PROVE  Quiet /\ UNCHANGED <<req, history>>
  BY <1>3, SameQuiet DEF RequestReset, ExpireReset, history
<1>4. CASE ExpireVerification
  BY <1>4, SameQuiet DEF ExpireVerification, Usable, history
<1> QED BY <1>1, <1>2, <1>3, <1>4

-----------------------------------------------------------------------------
(* Rotation.  A refresh that is overtaken, or whose session is forked, is  *)
(* not Rotating any more, and promises nothing.                            *)

\* Two refreshes of a session exclude one another once one of them has revoked.
Apart(x, y) ==
    Rotating(x) /\ Rotating(y) /\ x.family = y.family => x.pc = "rotate" /\ y.pc = "rotate"

\* What the step leaves of a refresh that was there.
Lags(p) ==
    Rotating(req[p])' => /\ Rotating(req[p])
                         /\ req'[p].pc = req[p].pc /\ req'[p].token = req[p].token
                         /\ req'[p].family = req[p].family

\* Nothing is issued in the session, and it is not reused by the step.
NoNews(f) ==
    /\ f \in reused' => f \in reused
    /\ \A t \in Tokens : Standing(t)' /\ session'[t] = f => Standing(t) /\ session[t] = f

RotatedRows ==
    /\ OneStandingPerSession /\ ReuseEndsSession
    /\ \A f \in reused : tokens[f] # None

LEMMA RotationIs ==
    /\ RotationInvariant <=> /\ RotatedRows
                             /\ \A q \in Requests : HoldsSession(req[q])
                             /\ \A q, p \in Requests : q # p => Apart(req[q], req[p])
    /\ RotationInvariant' <=> /\ RotatedRows'
                              /\ \A q \in Requests : HoldsSession(req[q])'
                              /\ \A q, p \in Requests : q # p => Apart(req[q], req[p])'
<1>1. (RotationInvariant <=> /\ RotatedRows
                             /\ \A q \in Requests : HoldsSession(req[q])
                             /\ \A q, p \in Requests : q # p => Apart(req[q], req[p]))
  BY DEF RotationInvariant, RotatedRows, Apart
<1>2. (RotationInvariant' <=> /\ RotatedRows'
                              /\ \A q \in Requests : HoldsSession(req[q])'
                              /\ \A q, p \in Requests : q # p => Apart(req[q], req[p])')
  BY DEF RotationInvariant, RotatedRows, Apart
<1> QED BY <1>1, <1>2

LEMMA LagsHolds ==
    ASSUME RotationInvariant, NEW p \in Requests, Lags(p),
           Rotating(req[p])' => NoNews(req[p].family)
    PROVE  HoldsSession(req[p])'
<1>1. SUFFICES ASSUME Rotating(req[p])'
               PROVE  /\ req'[p].family \notin reused'
                      /\ \A t \in Tokens : Standing(t)' /\ session'[t] = req'[p].family =>
                                             req'[p].pc = "rotate" /\ t = req'[p].token
  BY DEF HoldsSession
<1>2. /\ Rotating(req[p]) /\ NoNews(req[p].family)
      /\ req'[p].pc = req[p].pc /\ req'[p].token = req[p].token /\ req'[p].family = req[p].family
  BY <1>1 DEF Lags
<1>3. HoldsSession(req[p])
  BY DEF RotationInvariant
<1> QED BY <1>2, <1>3 DEF HoldsSession, NoNews

LEMMA LagsApart ==
    ASSUME RotationInvariant, NEW p \in Requests, NEW o \in Requests, p # o, Lags(p), Lags(o)
    PROVE  Apart(req[p], req[o])'
<1>1. SUFFICES ASSUME Rotating(req[p])', Rotating(req[o])', req'[p].family = req'[o].family
               PROVE  req'[p].pc = "rotate" /\ req'[o].pc = "rotate"
  BY DEF Apart
<1>2. /\ Rotating(req[p]) /\ Rotating(req[o])
      /\ req'[p].pc = req[p].pc /\ req'[p].family = req[p].family
      /\ req'[o].pc = req[o].pc /\ req'[o].family = req[o].family
  BY <1>1 DEF Lags
<1>3. Apart(req[p], req[o])
  BY RotationIs
<1> QED BY <1>1, <1>2, <1>3 DEF Apart

\* No refresh starts or goes on.
LEMMA RotationKept ==
    ASSUME RotationInvariant, RotatedRows',
           \A p \in Requests : Lags(p) /\ (Rotating(req[p])' => NoNews(req[p].family))
    PROVE  RotationInvariant'
<1>1. ASSUME NEW p \in Requests PROVE HoldsSession(req[p])'
  BY LagsHolds
<1>2. ASSUME NEW p \in Requests, NEW o \in Requests, p # o PROVE Apart(req[p], req[o])'
  BY <1>2, LagsApart
<1> QED BY <1>1, <1>2, RotationIs

\* The refresh q starts or goes on.
LEMMA RotationMoves ==
    ASSUME RotationInvariant, RotatedRows', NEW q \in Requests,
           \A p \in Requests \ {q} : Lags(p) /\ (Rotating(req[p])' => NoNews(req[p].family)),
           HoldsSession(req[q])',
           \A p \in Requests \ {q} : Apart(req[q], req[p])'
    PROVE  RotationInvariant'
<1>1. ASSUME NEW p \in Requests PROVE HoldsSession(req[p])'
  BY LagsHolds
<1>2. ASSUME NEW p \in Requests, NEW o \in Requests, p # o PROVE Apart(req[p], req[o])'
  <2>1. CASE p = q
    BY <1>2, <2>1
  <2>2. CASE o = q
    <3>1. Apart(req[q], req[p])'
      BY <1>2, <2>2
    <3> QED BY <2>2, <3>1 DEF Apart
  <2>3. CASE p # q /\ o # q
    BY <1>2, <2>3, LagsApart
  <2> QED BY <2>1, <2>2, <2>3
<1> QED BY <1>1, <1>2, RotationIs

\* A step that issues nothing and marks no session.
LEMMA QuietRows ==
    ASSUME TypeOK, RotationInvariant, RowsStay, Quiet, reused' = reused, forked' = forked
    PROVE  RotatedRows' /\ \A f : NoNews(f)
<1>1. reused \subseteq Tokens
  BY DEF TypeOK, RowsOK
<1>2. OneStandingPerSession' /\ ReuseEndsSession'
  BY <1>1 DEF RotationInvariant, OneStandingPerSession, ReuseEndsSession, Quiet
<1>3. \A f \in reused' : tokens'[f] # None
  BY <1>1 DEF RotationInvariant, RowsStay
<1>4. ASSUME NEW f PROVE NoNews(f)
  BY DEF NoNews, Quiet
<1> QED BY <1>2, <1>3, <1>4 DEF RotatedRows

\* A request that was left alone, or ended, lags behind what it was.
LEMMA SameLags ==
    ASSUME NEW p \in Requests, forked' = forked, req'[p] = req[p]
    PROVE  Lags(p)
  BY DEF Lags, Rotating

LEMMA ResetLags ==
    ASSUME NEW p \in Requests, req'[p].pc \notin {"rotate", "issue"} \/ req'[p].token = None
    PROVE  Lags(p) /\ ~Rotating(req[p])'
  BY DEF Lags, Rotating

LEMMA MarkLags ==
    ASSUME TypeOK, NEW p \in Requests, forked' = forked, NEW by \in {"refresh", "reset"},
           req'[p] = [req[p] EXCEPT !.overtaken = @ \cup {by}]
    PROVE  Lags(p) /\ (by = "refresh" => ~Rotating(req[p])')
<1>1. req[p] \in ReqType
  BY DEF TypeOK
<1>2. /\ req'[p].pc = req[p].pc /\ req'[p].token = req[p].token
      /\ req'[p].family = req[p].family /\ req'[p].overtaken = req[p].overtaken \cup {by}
  BY <1>1 DEF ReqType
<1> QED BY <1>2 DEF Lags, Rotating

LEMMA EndLags ==
    ASSUME TypeOK, NEW q \in Requests, Ends(q), forked' = forked
    PROVE  \A p \in Requests : Lags(p)
<1>1. req'[q] = IdleReq /\ \A p \in Requests \ {q} : req'[p] = req[p]
  BY ReqBecomesOne DEF TypeOK, Ends
<1>2. ASSUME NEW p \in Requests PROVE Lags(p)
  <2>1. CASE p = q
    <3>1. req'[p].pc = "idle"
      BY <1>1, <2>1 DEF IdleReq
    <3> QED BY <3>1, ResetLags
  <2>2. CASE p # q
    BY <1>1, <2>2, SameLags
  <2> QED BY <2>1, <2>2
<1> QED BY <1>2

\* A request ends with a step that issues nothing and marks no session.
LEMMA RotationEnds ==
    ASSUME TypeOK, RotationInvariant, RowsStay, Quiet, reused' = reused, forked' = forked,
           NEW q \in Requests, Ends(q)
    PROVE  RotationInvariant'
  BY EndLags, QuietRows, RotationKept

\* The same, when the request moves to x, which is no refresh.
LEMMA RotationOther ==
    ASSUME TypeOK, RotationInvariant, RowsStay, Quiet, reused' = reused, forked' = forked,
           NEW q \in Requests, NEW x, ReqBecomes(q, x), x.token = None
    PROVE  RotationInvariant'
<1>1. req'[q] = x /\ \A p \in Requests \ {q} : req'[p] = req[p]
  BY ReqBecomesOne DEF TypeOK
<1>2. ASSUME NEW p \in Requests PROVE Lags(p)
  <2>1. CASE p = q
    <3>1. req'[p].token = None
      BY <1>1, <2>1
    <3> QED BY <3>1, ResetLags
  <2>2. CASE p # q
    BY <1>1, <2>2, SameLags
  <2> QED BY <2>1, <2>2
<1> QED BY <1>2, QuietRows, RotationKept

LEMMA RotationBegin ==
    ASSUME TypeOK, RotationInvariant, NEW q \in Requests, Begin(q)
    PROVE  RotationInvariant'
<1>0. /\ RowsStay /\ Quiet /\ UNCHANGED <<db, history>> /\ RowsOK
      /\ reused' = reused /\ forked' = forked
  BY BeginTyped, BeginQuiet DEF TypeOK, history
<1>2. ASSUME NEW x, ReqBecomes(q, x), x.token = None PROVE RotationInvariant'
  BY <1>0, <1>2, RotationOther
<1>3. ASSUME NEW w \in Passwords, BeginRegister(q, w) \/ BeginLogin(q, w) PROVE RotationInvariant'
  <2>1. CASE BeginRegister(q, w)
    <3>1. PICK x : x = [IdleReq EXCEPT !.pc = "create", !.password = w]
      OBVIOUS
    <3> QED BY <1>2, <2>1, <3>1 DEF BeginRegister, IdleReq
  <2>2. CASE BeginLogin(q, w)
    <3>1. PICK x : x = [IdleReq EXCEPT !.pc = "issue", !.since = version]
      OBVIOUS
    <3> QED BY <1>2, <2>2, <3>1 DEF BeginLogin, IdleReq
  <2> QED BY <1>3, <2>1, <2>2
<1>4. ASSUME NEW w \in Passwords, NEW z \in Resets, BeginConfirm(q, z, w) PROVE RotationInvariant'
  <2>1. PICK x : x = [IdleReq EXCEPT !.pc = "confirm", !.reset = z, !.password = w]
    OBVIOUS
  <2> QED BY <1>2, <1>4, <2>1 DEF BeginConfirm, IdleReq
<1>5. ASSUME NEW t \in Tokens, BeginRefresh(q, t) PROVE RotationInvariant'
  <2>1. PICK x : x = [IdleReq EXCEPT !.pc = IF tokens[t].revoked THEN "reuse" ELSE "rotate",
                                     !.token = t, !.family = tokens[t].family,
                                     !.since = since[t]]
    OBVIOUS
  <2>2. ReqBecomes(q, x) /\ tokens[t] # None
    BY <1>5, <2>1 DEF BeginRefresh
  <2>3. /\ x.pc = IF tokens[t].revoked THEN "reuse" ELSE "rotate"
        /\ x.token = t /\ x.family = session[t]
    BY <1>0, <2>1, <2>2 DEF IdleReq, RowsOK
  <2>4. req'[q] = x /\ \A p \in Requests \ {q} : req'[p] = req[p]
    BY <2>2, ReqBecomesOne DEF TypeOK
  <2>5. \A p \in Requests \ {q} : Lags(p)
    BY <1>0, <2>4, SameLags
  <2>6. RotatedRows' /\ \A f : NoNews(f)
    BY <1>0, QuietRows
  <2>7. CASE tokens[t].revoked
    <3>1. Lags(q)
      BY <2>3, <2>4, <2>7, ResetLags
    <3> QED BY <2>5, <2>6, <3>1, RotationKept
  <2>8. CASE ~tokens[t].revoked
    <3>1. Standing(t) /\ x.pc = "rotate"
      BY <2>2, <2>3, <2>8 DEF Standing
    <3>2. x.family \notin forked =>
            /\ x.family \notin reused
            /\ \A u \in Tokens : Standing(u) /\ session[u] = x.family => u = t
      BY <2>3, <3>1 DEF RotationInvariant, OneStandingPerSession, ReuseEndsSession
    <3>3. HoldsSession(req[q])'
      BY <1>0, <2>3, <2>4, <3>1, <3>2 DEF HoldsSession, Rotating, Quiet
    <3>4. ASSUME NEW p \in Requests \ {q} PROVE Apart(req[q], req[p])'
      <4>1. HoldsSession(req[p])
        BY DEF RotationInvariant
      <4>2. req'[p] = req[p]
        BY <2>4
      <4>3. SUFFICES ASSUME Rotating(req[p])', req'[q].family = req'[p].family
                     PROVE  req'[q].pc = "rotate" /\ req'[p].pc = "rotate"
        BY DEF Apart
      <4>4. Rotating(req[p]) /\ session[t] = req[p].family
        BY <1>0, <2>3, <2>4, <4>2, <4>3 DEF Rotating
      <4>5. req[p].pc = "rotate"
        BY <3>1, <4>1, <4>4 DEF HoldsSession
      <4> QED BY <2>4, <3>1, <4>2, <4>5
    <3> QED BY <2>5, <2>6, <3>3, <3>4, RotationMoves
  <2> QED BY <2>7, <2>8
<1>6. CASE BeginVerify(q)
  <2>1. PICK x : x = [IdleReq EXCEPT !.pc = "verify"]
    OBVIOUS
  <2> QED BY <1>2, <1>6, <2>1 DEF BeginVerify, IdleReq
<1> QED BY <1>3, <1>4, <1>5, <1>6 DEF Begin

\* A token is issued: in a session of its own, in one that nothing stands in and
\* that was not reused, or in one that is forked by it or was before.
LEMMA RotationIssue ==
    ASSUME TypeOK, RotationInvariant, NEW q \in Requests, IssueTokens(q)
    PROVE  RotationInvariant'
<1>0. ReqOK(req[q]) /\ RowsOK /\ req[q] \in ReqType /\ RowsStay
  BY IssueTyped DEF TypeOK
<1>1. PICK t \in Tokens :
        LET opener == IF req[q].token = None THEN t ELSE session[req[q].token] IN
        /\ tokens[t] = None
        /\ tokens' = [tokens EXCEPT ![t] = [family |-> FamilyOf(q, t), revoked |-> FALSE,
                                            expired |-> FALSE]]
        /\ session' = [session EXCEPT ![t] = opener]
        /\ forked' = IF "refresh" \in req[q].overtaken THEN forked \cup {opener} ELSE forked
  BY DEF IssueTokens
<1>2. PICK f : f = IF req[q].token = None THEN t ELSE session[req[q].token]
  OBVIOUS
<1>3. /\ session'[t] = f
      /\ forked' = IF "refresh" \in req[q].overtaken THEN forked \cup {f} ELSE forked
      /\ \A u \in Tokens \ {t} : tokens'[u] = tokens[u] /\ session'[u] = session[u]
  BY <1>0, <1>1, <1>2 DEF RowsOK
<1>4. \A u \in Tokens : Standing(u)' => u = t \/ (Standing(u) /\ session'[u] = session[u])
  BY <1>3 DEF Standing
\* The session of a row was opened by a token that still has one.
<1>5. \A u \in Tokens : tokens[u] # None => session[u] \in Tokens /\ tokens[session[u]] # None
  BY <1>0 DEF RowsOK, TokenRow
<1>6. f \notin forked' => f \notin reused /\ \A u \in Tokens : Standing(u) => session[u] # f
  <2>1. CASE req[q].token = None
    BY <1>1, <1>2, <1>5, <2>1 DEF RotationInvariant, Standing
  <2>2. CASE req[q].token # None
    <3>1. req[q].token \in Tokens /\ tokens[req[q].token] # None /\ f = req[q].family
      BY <1>0, <1>2, <2>2 DEF ReqOK, ReqType
    <3>2. req[q].pc = "issue" /\ HoldsSession(req[q])
      BY DEF IssueTokens, RotationInvariant
    <3>3. f \notin forked' => Rotating(req[q])
      BY <1>3, <2>2, <3>1, <3>2 DEF Rotating
    <3> QED BY <3>1, <3>2, <3>3 DEF HoldsSession
  <2> QED BY <2>1, <2>2
<1>7. /\ reused' = reused /\ reused \subseteq Tokens /\ forked \subseteq forked' /\ Ends(q)
  BY <1>0, <1>3 DEF IssueTokens, RowsOK
<1>8. RotatedRows'
  <2>1. OneStandingPerSession'
    <3>1. ASSUME NEW u \in Tokens, NEW v \in Tokens, Standing(u)', Standing(v)',
                 session'[u] = session'[v], session'[u] \notin forked'
          PROVE  u = v
      BY <1>3, <1>4, <1>6, <1>7, <3>1 DEF OneStandingPerSession, RotationInvariant
    <3> QED BY <3>1 DEF OneStandingPerSession
  <2>2. ReuseEndsSession'
    BY <1>3, <1>4, <1>6, <1>7 DEF ReuseEndsSession, RotationInvariant
  <2> QED BY <1>0, <1>7, <2>1, <2>2 DEF RowsStay, RotationInvariant, RotatedRows
\* Another refresh in progress is of another session, or not Rotating any more.
<1>9. ASSUME NEW p \in Requests
      PROVE  Lags(p) /\ (Rotating(req[p])' => NoNews(req[p].family))
  <2>1. CASE p = q
    <3>1. req'[p].pc = "idle"
      BY <1>7, <2>1, ReqBecomesOne DEF TypeOK, Ends, IdleReq
    <3> QED BY <3>1, ResetLags
  <2>2. CASE p # q
    <3>1. req'[p] = req[p] /\ ReqOK(req[p]) /\ req[p] \in ReqType
      BY <1>7, <2>2, ReqBecomesOne DEF TypeOK, Ends
    <3>2. Lags(p)
      BY <1>7, <3>1 DEF Lags, Rotating
    <3>3. ASSUME Rotating(req[p])' PROVE req[p].family # f
      <4>1. Rotating(req[p]) /\ req[p].token # None /\ req[p].family \notin forked'
        BY <1>7, <3>1, <3>3 DEF Rotating
      <4>2. CASE req[q].token = None
        <5>1. req[p].token \in Tokens /\ tokens[req[p].token] # None /\ req[p].family = session[req[p].token]
          BY <3>1, <4>1 DEF ReqOK, ReqType
        <5>2. tokens[req[p].family] # None
          BY <1>5, <5>1
        <5> QED BY <1>1, <1>2, <4>2, <5>2
      <4>3. CASE req[q].token # None
        <5>1. f = req[q].family /\ req[q].pc = "issue"
          BY <1>0, <1>2, <4>3 DEF ReqOK, IssueTokens
        <5>2. Apart(req[q], req[p])
          BY <2>2, RotationIs
        <5>3. req[p].family = f => Rotating(req[q])
          BY <1>3, <4>1, <4>3, <5>1 DEF Rotating
        <5> QED BY <4>1, <5>1, <5>2, <5>3 DEF Apart
      <4> QED BY <4>2, <4>3
    <3>4. ASSUME Rotating(req[p])' PROVE NoNews(req[p].family)
      BY <1>3, <1>4, <1>7, <3>3, <3>4 DEF NoNews
    <3> QED BY <3>2, <3>4
  <2> QED BY <2>1, <2>2
<1> QED BY <1>8, <1>9, RotationKept

\* The session is revoked, and every refresh of it in progress overtaken.
LEMMA RotationReuse ==
    ASSUME TypeOK, RotationInvariant, NEW q \in Requests, RevokeFamily(q)
    PROVE  RotationInvariant'
<1> DEFINE f == req[q].family
<1>0. RowsOK /\ ReqOK(req[q]) /\ req[q] \in ReqType /\ RowsStay
  BY HandleTyped DEF TypeOK, Handle
<1>1. req[q].token \in Tokens /\ tokens[req[q].token] # None /\ f = session[req[q].token]
  BY <1>0, RowsNotNone DEF RevokeFamily, ReqOK
<1>2. tokens[f] # None /\ f \in Tokens
  BY <1>0, <1>1 DEF RowsOK, TokenRow
<1>3. Quiet /\ \A t \in Tokens : Standing(t)' => t \notin RevokedOnReuse(q)
  BY <1>0, RevokeQuiet DEF RevokeFamily
<1>4. \A t \in Tokens : Standing(t)' => Standing(t) /\ session'[t] = session[t] /\ session[t] # f
  BY <1>0, <1>3 DEF Quiet, RevokedOnReuse, Standing, RowsOK
<1>5. reused' = reused \cup {f} /\ forked' = forked \ {f} /\ reused \subseteq Tokens
  BY <1>0, <1>1 DEF RevokeFamily, RowsOK
<1>6. RotatedRows'
  <2>1. OneStandingPerSession' /\ ReuseEndsSession'
    BY <1>4, <1>5 DEF OneStandingPerSession, ReuseEndsSession, RotationInvariant
  <2> QED BY <1>0, <1>2, <1>5, <2>1 DEF RowsStay, RotationInvariant, RotatedRows
<1>7. ASSUME NEW p \in Requests
      PROVE  Lags(p) /\ (Rotating(req[p])' => NoNews(req[p].family))
  <2>1. CASE req'[p] = IdleReq
    <3>1. req'[p].pc = "idle"
      BY <2>1 DEF IdleReq
    <3> QED BY <3>1, ResetLags
  <2>2. CASE req'[p] = [req[p] EXCEPT !.overtaken = @ \cup {"refresh"}]
    <3>1. "refresh" \in req'[p].overtaken
      BY <2>2 DEF TypeOK, ReqType
    <3> QED BY <3>1 DEF Lags, Rotating
  <2>3. CASE p # q /\ p \notin RefreshesOf(q, {"rotate", "issue"}) /\ req'[p] = req[p]
    <3>1. Rotating(req[p])' => req[p].family # f
      BY <2>3 DEF RefreshesOf, Refreshing, Rotating
    <3>2. Lags(p)
      BY <1>5, <2>3, <3>1 DEF Lags, Rotating
    <3>3. Rotating(req[p])' => NoNews(req[p].family)
      BY <1>4, <1>5, <3>1 DEF NoNews
    <3> QED BY <3>2, <3>3
  <2> QED BY <2>1, <2>2, <2>3 DEF RevokeFamily, Overtakes
<1> QED BY <1>6, <1>7, RotationKept

\* The old token is revoked, and every other refresh that holds it overtaken.
LEMMA RotationRevokes ==
    ASSUME TypeOK, RotationInvariant, NEW q \in Requests, RevokeOld(q)
    PROVE  RotationInvariant'
<1>0. RowsOK /\ ReqOK(req[q]) /\ req[q] \in ReqType /\ RowsStay
  BY HandleTyped DEF TypeOK, Handle
<1>1. PICK x : x = [req[q] EXCEPT !.pc = "issue"]
  OBVIOUS
<1>2. /\ Overtakes(q, x, RefreshesOf(q, {"rotate"}), "refresh")
      /\ x.pc = "issue" /\ x.token = req[q].token /\ x.family = req[q].family
      /\ x.overtaken = req[q].overtaken
      /\ req[q].pc = "rotate" /\ req[q].token \in Tokens
  BY <1>0, <1>1 DEF RevokeOld, ReqType, ReqOK
<1>3. req[q].token # None /\ req'[q] = x
  BY <1>2, RowsNotNone DEF Overtakes
<1>4. /\ Quiet /\ reused' = reused /\ forked' = forked
      /\ \A t \in Tokens : Standing(t)' => t # req[q].token
  BY <1>0, RevokeQuiet DEF RevokeOld, RotatedOut, history
<1>5. RotatedRows' /\ \A g : NoNews(g)
  BY <1>0, <1>4, QuietRows
<1>6. Rotating(req[q])' => Rotating(req[q])
  BY <1>2, <1>3, <1>4 DEF Rotating
<1>7. HoldsSession(req[q])'
  <2>1. HoldsSession(req[q])
    BY DEF RotationInvariant
  <2> QED BY <1>2, <1>3, <1>4, <1>6, <2>1 DEF HoldsSession, Quiet
<1>8. ASSUME NEW p \in Requests \ {q} PROVE Lags(p) /\ Apart(req[q], req[p])'
  <2>1. CASE req'[p] = [req[p] EXCEPT !.overtaken = @ \cup {"refresh"}]
    <3>1. Lags(p) /\ ~Rotating(req[p])'
      BY <1>4, <2>1, MarkLags
    <3> QED BY <3>1 DEF Apart
  <2>2. CASE p \notin RefreshesOf(q, {"rotate"}) /\ req'[p] = req[p]
    <3>1. Lags(p)
      BY <1>4, <2>2, SameLags
    <3>2. SUFFICES ASSUME Rotating(req[q])', Rotating(req[p])', req'[q].family = req'[p].family
                   PROVE  FALSE
      BY <3>1 DEF Apart
    <3>3. /\ Rotating(req[q]) /\ Rotating(req[p]) /\ req[q].family = req[p].family
          /\ Apart(req[q], req[p])
      BY <1>2, <1>3, <1>6, <2>2, <3>1, <3>2, RotationIs DEF Lags
    <3>4. req[p].pc = "issue"
      BY <2>2, <3>3 DEF RefreshesOf, Refreshing, Rotating
    <3> QED BY <3>3, <3>4 DEF Apart
  <2> QED BY <1>2, <2>1, <2>2 DEF Overtakes
<1> QED BY <1>5, <1>7, <1>8, RotationMoves

LEMMA RotationHandle ==
    ASSUME TypeOK, RotationInvariant, NEW q \in Requests, Handle(q)
    PROVE  RotationInvariant'
<1>0. RowsOK /\ ReqOK(req[q]) /\ req[q] \in ReqType /\ RowsStay
  BY HandleTyped DEF TypeOK
<1>1. CASE CreateAccount(q)
  <2>0. PICK x : x = [IdleReq EXCEPT !.pc = "issue", !.since = version + 1]
    OBVIOUS
  <2>1. ReqBecomes(q, x) /\ x.token = None
    BY <1>1, <2>0 DEF CreateAccount, IdleReq
  <2>2. Quiet /\ reused' = reused /\ forked' = forked
    BY <1>1, SameQuiet DEF CreateAccount
  <2> QED BY <1>0, <2>1, <2>2, RotationOther
<1>2. CASE CreateRejected(q) \/ StopRequest(q) \/ VerifyEmail(q)
  <2>1. Quiet /\ reused' = reused /\ forked' = forked /\ Ends(q)
    BY <1>2, SameQuiet
       DEF CreateRejected, StopRequest, VerifyEmail, db, history
  <2> QED BY <1>0, <2>1, RotationEnds
<1>3. CASE IssueTokens(q)
  BY <1>3, RotationIssue
<1>4. CASE RevokeFamily(q)
  BY <1>4, RotationReuse
<1>5. CASE RevokeOld(q)
  BY <1>5, RotationRevokes
<1>6. CASE ConfirmReset(q)
  <2>1. Quiet /\ reused' = reused /\ forked' = forked
    BY <1>0, <1>6, RevokeQuiet DEF ConfirmReset
  <2>2. ASSUME NEW p \in Requests PROVE Lags(p)
    <3>1. CASE req'[p] = IdleReq
      <4>1. req'[p].pc = "idle"
        BY <3>1 DEF IdleReq
      <4> QED BY <4>1, ResetLags
    <3>2. CASE req'[p] = [req[p] EXCEPT !.overtaken = @ \cup {"reset"}]
      BY <2>1, <3>2, MarkLags
    <3>3. CASE req'[p] = req[p]
      BY <2>1, <3>3, SameLags
    <3> QED BY <1>6, <3>1, <3>2, <3>3 DEF ConfirmReset, Overtakes
  <2> QED BY <1>0, <2>1, <2>2, QuietRows, RotationKept
<1> QED BY <1>1, <1>2, <1>3, <1>4, <1>5, <1>6 DEF Handle

LEMMA RotationStep == ASSUME TypeOK, RotationInvariant, [Next]_vars PROVE RotationInvariant'
<1>1. CASE UNCHANGED vars
  BY <1>1 DEF vars, db, history, RotationInvariant,
              OneStandingPerSession, ReuseEndsSession, Standing, HoldsSession, Rotating
<1>2. ASSUME NEW q \in Requests, Begin(q) \/ Handle(q) PROVE RotationInvariant'
  BY <1>2, RotationBegin, RotationHandle
<1>3. CASE \/ \E t \in Tokens : Logout(t) \/ ExpireToken(t)
           \/ \E z \in Resets : RequestReset(z) \/ ExpireReset(z)
           \/ ExpireVerification
  <2>1. Quiet /\ UNCHANGED <<req, history>> /\ RowsStay /\ reused' = reused /\ forked' = forked
    BY <1>3, ExpireQuiet, ExpireTyped DEF history
  <2>2. \A p \in Requests : Lags(p)
    BY <2>1, SameLags
  <2> QED BY <2>1, <2>2, QuietRows, RotationKept
<1> QED BY <1>1, <1>2, <1>3 DEF Next

\* What the two theorems below rest on: a refresh that was not overtaken, of a
\* session that is not forked, holds the only token that stands in it, or has
\* revoked that token and is alone.
THEOREM RotationHolds == Spec => []RotationInvariant
<1>1. Init => RotationInvariant
  BY DEF Init, RotationInvariant, OneStandingPerSession,
         ReuseEndsSession, Standing, HoldsSession, Rotating, IdleReq
<1>2. TypeOK /\ RotationInvariant /\ [Next]_vars => RotationInvariant'
  BY RotationStep
<1> QED BY <1>1, <1>2, TypeCorrect, PTL DEF Spec

\* Rotation: no two tokens of one session can be refreshed, however many refreshes,
\* logouts and resets interleave, unless a refresh continued the session after
\* another one of it had written between its read and its issue.
THEOREM OneStanding == Spec => []OneStandingPerSession
<1>1. RotationInvariant => OneStandingPerSession
  BY DEF RotationInvariant
<1> QED BY <1>1, RotationHolds, PTL

\* Reuse detection: no token of a session that a revoked token came back in can be
\* refreshed, then or later, unless a refresh that was then in progress issues it.
THEOREM ReuseEnds == Spec => []ReuseEndsSession
<1>1. RotationInvariant => ReuseEndsSession
  BY DEF RotationInvariant
<1> QED BY <1>1, RotationHolds, PTL


-----------------------------------------------------------------------------
(* Passwords, and the resets that change them.                             *)

CredentialRows ==
    /\ account = None => \A t \in Tokens : tokens[t] = None
    /\ SessionsAreCurrent

Credential == CredentialRows /\ \A q \in Requests : HoldsCredential(req[q])

LEMMA CredentialIs == CredentialInvariant <=> Credential
  BY DEF CredentialInvariant, Credential, CredentialRows

\* A step that writes no password and takes no session off the stale ones.
Steady == RowsStay /\ version' = version /\ stale \subseteq stale'

LEMMA CredentialFrame ==
    ASSUME Credential, NEW p \in Requests, req'[p] = req[p], Steady
    PROVE  HoldsCredential(req[p])'
<1>1. HoldsCredential(req[p])
  BY DEF Credential
<1> QED BY <1>1 DEF HoldsCredential, Steady, RowsStay

LEMMA CredentialMark ==
    ASSUME TypeOK, Credential, NEW p \in Requests, Steady, NEW by \in {"refresh", "reset"},
           req'[p] = [req[p] EXCEPT !.overtaken = @ \cup {by}]
    PROVE  HoldsCredential(req[p])'
<1>1. HoldsCredential(req[p]) /\ req[p] \in ReqType
  BY DEF Credential, TypeOK
<1>2. /\ req'[p].pc = req[p].pc /\ req'[p].token = req[p].token /\ req'[p].since = req[p].since
      /\ req'[p].family = req[p].family /\ req'[p].overtaken = req[p].overtaken \cup {by}
  BY <1>1 DEF ReqType
<1> QED BY <1>1, <1>2 DEF HoldsCredential, Steady, RowsStay

LEMMA CredentialIdle ==
    ASSUME NEW p \in Requests, req'[p].pc \notin {"rotate", "issue"}
    PROVE  HoldsCredential(req[p])'
  BY DEF HoldsCredential

LEMMA CredentialRowsFrame ==
    ASSUME TypeOK, Credential, Steady, Quiet
    PROVE  CredentialRows'
<1>1. CredentialRows
  BY DEF Credential
<1>2. SessionsAreCurrent'
  BY <1>1 DEF CredentialRows, SessionsAreCurrent, Quiet, Steady
<1>3. account' = None => \A t \in Tokens : tokens'[t] = None
  BY <1>1 DEF CredentialRows, Steady, RowsStay, Quiet
<1> QED BY <1>2, <1>3 DEF CredentialRows

\* One request moves to x.
LEMMA CredentialMove ==
    ASSUME TypeOK, Credential, NEW q \in Requests, NEW x, ReqBecomes(q, x),
           CredentialRows', HoldsCredential(x)', Steady
    PROVE  Credential'
<1>1. req'[q] = x /\ \A p \in Requests \ {q} : req'[p] = req[p]
  BY ReqBecomesOne DEF TypeOK
<1>2. ASSUME NEW p \in Requests PROVE HoldsCredential(req[p])'
  <2>1. CASE p = q
    <3>1. req'[p] = x
      BY <1>1, <2>1
    <3> QED BY <3>1 DEF HoldsCredential
  <2>2. CASE p # q
    BY <1>1, <2>2, CredentialFrame
  <2> QED BY <2>1, <2>2
<1> QED BY <1>2 DEF Credential

LEMMA CredentialEnds ==
    ASSUME TypeOK, Credential, NEW q \in Requests, Ends(q), CredentialRows', Steady
    PROVE  Credential'
<1>1. HoldsCredential(IdleReq)'
  BY DEF IdleReq, HoldsCredential
<1> QED BY <1>1, CredentialMove DEF Ends

\* A request begins: what it has read is valid, unless its session is stale.
LEMMA CredentialBegin ==
    ASSUME TypeOK, Credential, NEW q \in Requests, Begin(q)
    PROVE  Credential'
<1>0. /\ Steady /\ Quiet /\ UNCHANGED <<db, history>> /\ RowsOK /\ CredentialRows
  BY BeginTyped, BeginQuiet DEF TypeOK, Credential, Steady, db, history
<1>1. CredentialRows'
  BY <1>0, CredentialRowsFrame
<1>2. ASSUME NEW x, ReqBecomes(q, x), HoldsCredential(x) PROVE Credential'
  <2>1. HoldsCredential(x)'
    BY <1>0, <1>2 DEF HoldsCredential, db, history
  <2> QED BY <1>0, <1>1, <1>2, <2>1, CredentialMove
<1>3. ASSUME NEW w \in Passwords, BeginRegister(q, w) \/ BeginLogin(q, w) PROVE Credential'
  <2>1. CASE BeginRegister(q, w)
    <3>1. PICK x : x = [IdleReq EXCEPT !.pc = "create", !.password = w]
      OBVIOUS
    <3> QED BY <1>2, <2>1, <3>1 DEF BeginRegister, IdleReq, HoldsCredential
  <2>2. CASE BeginLogin(q, w)
    <3>1. PICK x : x = [IdleReq EXCEPT !.pc = "issue", !.since = version]
      OBVIOUS
    <3> QED BY <1>2, <2>2, <3>1 DEF BeginLogin, IdleReq, HoldsCredential
  <2> QED BY <1>3, <2>1, <2>2
<1>4. ASSUME NEW w \in Passwords, NEW z \in Resets, BeginConfirm(q, z, w) PROVE Credential'
  <2>1. PICK x : x = [IdleReq EXCEPT !.pc = "confirm", !.reset = z, !.password = w]
    OBVIOUS
  <2> QED BY <1>2, <1>4, <2>1 DEF BeginConfirm, IdleReq, HoldsCredential
<1>5. ASSUME NEW t \in Tokens, BeginRefresh(q, t) PROVE Credential'
  <2>1. PICK x : x = [IdleReq EXCEPT !.pc = IF tokens[t].revoked THEN "reuse" ELSE "rotate",
                                     !.token = t, !.family = tokens[t].family,
                                     !.since = since[t]]
    OBVIOUS
  <2>2. ReqBecomes(q, x) /\ tokens[t] # None
    BY <1>5, <2>1 DEF BeginRefresh
  <2>3. /\ x.pc = IF tokens[t].revoked THEN "reuse" ELSE "rotate"
        /\ x.since = since[t] /\ x.family = session[t] /\ x.token = t
    BY <1>0, <2>1, <2>2 DEF IdleReq, RowsOK
  <2>4. HoldsCredential(x)
    BY <1>0, <2>2, <2>3, RowsNotNone
       DEF HoldsCredential, CredentialRows, SessionsAreCurrent, Standing
  <2> QED BY <1>2, <2>2, <2>4
<1>6. CASE BeginVerify(q)
  <2>1. PICK x : x = [IdleReq EXCEPT !.pc = "verify"]
    OBVIOUS
  <2> QED BY <1>2, <1>6, <2>1 DEF BeginVerify, IdleReq, HoldsCredential
<1> QED BY <1>3, <1>4, <1>5, <1>6 DEF Begin

\* The first password: nobody has anything to issue before.
LEMMA CredentialCreate ==
    ASSUME TypeOK, Credential, NEW q \in Requests, CreateAccount(q)
    PROVE  Credential'
<1>0. RowsOK /\ ReqOK(req[q]) /\ CredentialRows
  BY DEF TypeOK, Credential
<1>1. PICK x : x = [IdleReq EXCEPT !.pc = "issue", !.since = version + 1]
  OBVIOUS
<1>2. /\ ReqBecomes(q, x) /\ x.pc = "issue" /\ x.since = version' /\ account = None
      /\ tokens' = tokens /\ stale' = stale
  BY <1>1 DEF CreateAccount, EmailTaken, IdleReq
<1>3. account' # None
  <2>1. account' \in AccountRow
    BY <1>0 DEF CreateAccount, ReqOK, AccountRow
  <2> QED BY <2>1, RowsNotNone
<1>4. CredentialRows'
  BY <1>0, <1>2, <1>3 DEF CredentialRows, SessionsAreCurrent, Standing
<1>5. req'[q] = x /\ \A p \in Requests \ {q} : req'[p] = req[p]
  BY <1>2, ReqBecomesOne DEF TypeOK
<1>6. ASSUME NEW p \in Requests PROVE HoldsCredential(req[p])'
  <2>1. CASE p = q
    BY <1>2, <1>3, <1>5, <2>1 DEF HoldsCredential
  <2>2. CASE p # q
    <3>1. HoldsCredential(req[p]) /\ req'[p] = req[p]
      BY <1>5, <2>2 DEF Credential
    <3>2. req[p].pc \notin {"rotate", "issue"}
      BY <1>2, <3>1 DEF HoldsCredential
    <3> QED BY <3>1, <3>2, CredentialIdle
  <2> QED BY <2>1, <2>2
<1> QED BY <1>4, <1>6 DEF Credential

\* A token is issued for the password that is valid, or its session is stale.
LEMMA CredentialIssue ==
    ASSUME TypeOK, Credential, NEW q \in Requests, IssueTokens(q)
    PROVE  Credential'
<1>0. /\ RowsOK /\ ReqOK(req[q]) /\ req[q] \in ReqType /\ RowsStay
      /\ CredentialRows /\ HoldsCredential(req[q])
  BY IssueTyped DEF TypeOK, Credential
<1>1. PICK t \in Tokens :
        LET opener == IF req[q].token = None THEN t ELSE session[req[q].token] IN
        /\ tokens[t] = None
        /\ tokens' = [tokens EXCEPT ![t] = [family |-> FamilyOf(q, t), revoked |-> FALSE,
                                            expired |-> FALSE]]
        /\ session' = [session EXCEPT ![t] = opener]
        /\ since' = [since EXCEPT ![t] = req[q].since]
        /\ stale' = IF "reset" \in req[q].overtaken THEN stale \cup {opener} ELSE stale
  BY DEF IssueTokens
<1>2. PICK f : f = IF req[q].token = None THEN t ELSE session[req[q].token]
  OBVIOUS
<1>3. /\ session'[t] = f /\ since'[t] = req[q].since
      /\ stale' = IF "reset" \in req[q].overtaken THEN stale \cup {f} ELSE stale
      /\ \A u \in Tokens \ {t} : /\ tokens'[u] = tokens[u]
                                 /\ session'[u] = session[u] /\ since'[u] = since[u]
  BY <1>0, <1>1, <1>2 DEF RowsOK
<1>4. /\ account # None /\ account' = account /\ version' = version
      /\ req[q].pc = "issue" /\ stale \subseteq stale' /\ Ends(q)
  BY <1>0, <1>3 DEF IssueTokens, HoldsCredential
<1>5. f \notin stale' => req[q].since = version
  <2>1. CASE req[q].token = None
    BY <1>0, <1>3, <1>4, <2>1 DEF HoldsCredential
  <2>2. CASE req[q].token # None
    <3>1. f = req[q].family
      BY <1>0, <1>2, <2>2 DEF ReqOK
    <3> QED BY <1>0, <1>3, <1>4, <3>1 DEF HoldsCredential
  <2> QED BY <2>1, <2>2
<1>6. SessionsAreCurrent'
  <2>1. ASSUME NEW u \in Tokens, Standing(u)', session'[u] \notin stale'
        PROVE  since'[u] = version'
    <3>1. CASE u = t
      BY <1>3, <1>4, <1>5, <2>1, <3>1
    <3>2. CASE u # t
      <4>1. Standing(u) /\ session[u] \notin stale /\ since'[u] = since[u]
        BY <1>3, <1>4, <2>1, <3>2 DEF Standing
      <4> QED BY <1>0, <1>4, <4>1 DEF CredentialRows, SessionsAreCurrent
    <3> QED BY <3>1, <3>2
  <2> QED BY <2>1 DEF SessionsAreCurrent
<1>7. CredentialRows' /\ Steady
  BY <1>0, <1>4, <1>6 DEF CredentialRows, Steady
<1> QED BY <1>4, <1>7, CredentialEnds

\* A reset: every token is revoked, and every request that is to issue overtaken.
LEMMA CredentialReset ==
    ASSUME TypeOK, Credential, NEW q \in Requests, ConfirmReset(q)
    PROVE  Credential'
<1>0. RowsOK /\ ReqOK(req[q]) /\ RowsStay
  BY HandleTyped DEF TypeOK, Handle
<1>1. account # None /\ account' # None
  BY <1>0 DEF ConfirmReset, ReqOK, RowsStay
<1>2. \A t \in Tokens : ~Standing(t)'
  BY <1>0, RevokeQuiet DEF ConfirmReset, RevokedOnReset
<1>3. CredentialRows'
  BY <1>1, <1>2 DEF CredentialRows, SessionsAreCurrent
<1>4. ASSUME NEW p \in Requests PROVE HoldsCredential(req[p])'
  <2>1. CASE req'[p] = IdleReq
    <3>1. req'[p].pc = "idle"
      BY <2>1 DEF IdleReq
    <3> QED BY <3>1, CredentialIdle
  <2>2. CASE req'[p] = [req[p] EXCEPT !.overtaken = @ \cup {"reset"}]
    <3>1. "reset" \in req'[p].overtaken
      BY <2>2 DEF TypeOK, ReqType
    <3> QED BY <1>1, <3>1 DEF HoldsCredential
  <2>3. CASE req[p].pc \notin {"rotate", "issue"} /\ req'[p] = req[p]
    BY <2>3, CredentialIdle
  <2> QED BY <2>1, <2>2, <2>3 DEF ConfirmReset, Overtakes
<1> QED BY <1>3, <1>4 DEF Credential

LEMMA CredentialHandle ==
    ASSUME TypeOK, Credential, NEW q \in Requests, Handle(q)
    PROVE  Credential'
<1>0. RowsOK /\ ReqOK(req[q]) /\ req[q] \in ReqType /\ RowsStay
  BY HandleTyped DEF TypeOK
<1>1. CASE CreateAccount(q)
  BY <1>1, CredentialCreate
<1>2. CASE CreateRejected(q) \/ StopRequest(q) \/ VerifyEmail(q)
  <2>1. Steady /\ Quiet /\ Ends(q)
    BY <1>0, <1>2, SameQuiet DEF CreateRejected, StopRequest, VerifyEmail, db, history, Steady
  <2> QED BY <2>1, CredentialRowsFrame, CredentialEnds
<1>3. CASE IssueTokens(q)
  BY <1>3, CredentialIssue
<1>4. CASE RevokeFamily(q) \/ RevokeOld(q)
  <2>1. PICK x, others : /\ Overtakes(q, x, others, "refresh")
                         /\ x.pc \notin {"rotate", "issue"}
                              \/ (x = [req[q] EXCEPT !.pc = "issue"] /\ req[q].pc = "rotate")
    <3>1. CASE RevokeFamily(q)
      <4>1. IdleReq.pc = "idle"
        BY DEF IdleReq
      <4> QED BY <3>1, <4>1 DEF RevokeFamily
    <3>2. CASE RevokeOld(q)
      BY <3>2 DEF RevokeOld
    <3> QED BY <1>4, <3>1, <3>2
  <2>2. Steady /\ Quiet
    <3>1. CASE RevokeFamily(q)
      BY <1>0, <3>1, RevokeQuiet DEF RevokeFamily, Steady
    <3>2. CASE RevokeOld(q)
      BY <1>0, <3>2, RevokeQuiet DEF RevokeOld, history, Steady
    <3> QED BY <1>4, <3>1, <3>2
  <2>3. ASSUME NEW p \in Requests PROVE HoldsCredential(req[p])'
    <3>1. CASE p = q
      <4>1. req'[p] = x
        BY <2>1, <3>1 DEF Overtakes
      <4>2. CASE x.pc \notin {"rotate", "issue"}
        BY <4>1, <4>2, CredentialIdle
      <4>3. CASE x = [req[q] EXCEPT !.pc = "issue"] /\ req[q].pc = "rotate"
        <5>1. /\ x.pc = "issue" /\ x.token = req[q].token /\ x.family = req[q].family
              /\ x.since = req[q].since /\ x.overtaken = req[q].overtaken
          BY <1>0, <4>3 DEF ReqType
        <5>2. HoldsCredential(req[q])
          BY DEF Credential
        <5> QED BY <2>2, <3>1, <4>1, <4>3, <5>1, <5>2 DEF HoldsCredential, Steady, RowsStay
      <4> QED BY <2>1, <4>2, <4>3
    <3>2. CASE req'[p] = [req[p] EXCEPT !.overtaken = @ \cup {"refresh"}]
      BY <2>2, <3>2, CredentialMark
    <3>3. CASE req'[p] = req[p]
      BY <2>2, <3>3, CredentialFrame
    <3> QED BY <2>1, <3>1, <3>2, <3>3 DEF Overtakes
  <2> QED BY <2>2, <2>3, CredentialRowsFrame DEF Credential
<1>5. CASE ConfirmReset(q)
  BY <1>5, CredentialReset
<1> QED BY <1>1, <1>2, <1>3, <1>4, <1>5 DEF Handle

LEMMA CredentialStep == ASSUME TypeOK, Credential, [Next]_vars PROVE Credential'
<1>1. CASE UNCHANGED vars
  BY <1>1 DEF vars, db, history, Credential, CredentialRows, SessionsAreCurrent, Standing,
              HoldsCredential
<1>2. ASSUME NEW q \in Requests, Begin(q) \/ Handle(q) PROVE Credential'
  BY <1>2, CredentialBegin, CredentialHandle
<1>3. CASE \/ \E t \in Tokens : Logout(t) \/ ExpireToken(t)
           \/ \E z \in Resets : RequestReset(z) \/ ExpireReset(z)
           \/ ExpireVerification
  <2>1. Quiet /\ req' = req /\ Steady
    BY <1>3, ExpireQuiet, ExpireTyped DEF history, Steady
  <2> QED BY <2>1, CredentialFrame, CredentialRowsFrame DEF Credential
<1> QED BY <1>1, <1>2, <1>3 DEF Next

\* What the theorem below rests on: a request that no reset has overtaken, of a
\* session that is not stale, issues for the password that is valid, and before
\* there is an account nothing is issued.
THEOREM CredentialHolds == Spec => []CredentialInvariant
<1>1. Init => Credential
  BY DEF Init, Credential, CredentialRows, SessionsAreCurrent, Standing, HoldsCredential, IdleReq
<1>2. TypeOK /\ Credential /\ [Next]_vars => Credential'
  BY CredentialStep
<1>3. Credential => CredentialInvariant
  BY CredentialIs
<1> QED BY <1>1, <1>2, <1>3, TypeCorrect, PTL DEF Spec

\* No session of an earlier password, or of a registration that lost the race for
\* the email address, can be refreshed, however resets, logins and refreshes
\* overlap, unless a reset came between the check and the issue of one of its requests.
THEOREM SessionsCurrent == Spec => []SessionsAreCurrent
<1>1. CredentialInvariant => SessionsAreCurrent
  BY DEF CredentialInvariant
<1> QED BY <1>1, CredentialHolds, PTL
=============================================================================
