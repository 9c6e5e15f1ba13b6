----------------------------- MODULE AuthTokens -----------------------------
(***************************************************************************)
(* The account behind one email address and its tokens                     *)
(* (crates/api/src/auth/service.rs): registration, login, the rotation of  *)
(* refresh tokens, logout, email verification and password reset.          *)
(*                                                                         *)
(* A handler reads its row in one autocommitted statement and writes in    *)
(* later ones; register, verify_email and confirm_password_reset put their *)
(* writes, but not the read they rest on, in a transaction.  Requests that *)
(* end at their first statement change nothing and are no steps.           *)
(***************************************************************************)
EXTENDS Integers, FiniteSets

CONSTANTS
    Passwords,
    Tokens,       \* bound: the rows of refresh_tokens that can be made
    Resets,       \* bound: the rows of password_resets that can be made
    Requests,     \* requests in progress at once
    None          \* SQL NULL, "no row"

\* The id of the token that opened a family stands for the family's.
TokenRow == [family : Tokens, revoked : BOOLEAN, expired : BOOLEAN]
OnceRow == [used : BOOLEAN, expired : BOOLEAN]
AccountRow == [password : Passwords, verified : BOOLEAN]

ASSUME AuthAssumption ==
    /\ None \notin Passwords \cup Tokens \cup Resets
    /\ None \notin TokenRow \cup OnceRow \cup AccountRow

VARIABLES
    account,       \* the row of users
    verification,  \* its row of email_verifications
    resets,        \* rows of password_resets
    tokens,        \* rows of refresh_tokens
    req,           \* the program state of each request
    version,       \* history: how often a password has been written
    session,       \* history: the token that opened the session of a token
    since,         \* history: the version that opened it
    reused,        \* history: sessions that a revoked token came back in
    forked,        \* history: sessions continued by a refresh that another refresh
                   \* of the session has overtaken, until they are revoked
    stale          \* history: sessions opened or continued by a request that a
                   \* reset has overtaken, until the next reset

db == <<account, verification, resets, tokens>>
history == <<version, session, since, reused, forked, stale>>
vars == <<db, req, history>>

IdleReq == [pc |-> "idle", password |-> None, token |-> None, family |-> None,
            reset |-> None, since |-> 0,
            overtaken |-> {}] \* history: see Overtakes

FreshRow == [used |-> FALSE, expired |-> FALSE]
Usable(row) == row # None /\ ~row.used /\ ~row.expired
Standing(t) == tokens[t] # None /\ ~tokens[t].revoked

Init ==
    /\ account = None /\ verification = None
    /\ resets = [z \in Resets |-> None]
    /\ tokens = [t \in Tokens |-> None]
    /\ req = [q \in Requests |-> IdleReq]
    /\ version = 0
    /\ session = [t \in Tokens |-> None]
    /\ since = [t \in Tokens |-> 0]
    /\ reused = {}
    /\ forked = {} /\ stale = {}

ReqBecomes(q, state) == req' = [req EXCEPT ![q] = state]
Ends(q) == ReqBecomes(q, IdleReq)

\* The request moves on with a write, a refresh or a reset, that outdates what
\* the requests in others have read and not acted on yet.
Overtakes(q, state, others, by) ==
    req' = [p \in Requests |->
              CASE p = q -> state
                [] p # q /\ p \in others -> [req[p] EXCEPT !.overtaken = @ \cup {by}]
                [] OTHER -> req[p]]

\* UPDATE refresh_tokens SET revoked_at, for the rows in ts.
Revoke(ts) ==
    tokens' = [t \in Tokens |-> IF t \in ts /\ tokens[t] # None
                                THEN [tokens[t] EXCEPT !.revoked = TRUE] ELSE tokens[t]]

-----------------------------------------------------------------------------
(* register: the email is looked up, then the account, its workspace and   *)
(* its verification are inserted in a transaction, then tokens are issued. *)

BeginRegister(q, w) ==
    /\ req[q].pc = "idle"
    /\ account = None
    /\ ReqBecomes(q, [IdleReq EXCEPT !.pc = "create", !.password = w])
    /\ UNCHANGED <<db, history>>

\* users.email is UNIQUE; in the mutant the second INSERT replaces the row.
EmailTaken_NoConstraint == FALSE
EmailTaken == account # None

CreateAccount(q) ==
    /\ req[q].pc = "create"
    /\ ~EmailTaken
    /\ account' = [password |-> req[q].password, verified |-> FALSE]
    /\ verification' = FreshRow
    /\ version' = version + 1
    /\ ReqBecomes(q, [IdleReq EXCEPT !.pc = "issue", !.since = version + 1])
    /\ UNCHANGED <<resets, tokens, session, since, reused, forked, stale>>

CreateRejected(q) ==
    /\ req[q].pc = "create"
    /\ EmailTaken
    /\ Ends(q)
    /\ UNCHANGED <<db, history>>

(* login: the password is verified against the row that was read.          *)
BeginLogin(q, w) ==
    /\ req[q].pc = "idle"
    /\ account # None /\ account.password = w
    /\ ReqBecomes(q, [IdleReq EXCEPT !.pc = "issue", !.since = version])
    /\ UNCHANGED <<db, history>>

\* issue_tokens continues a family or opens a new one.
FamilyOf(q, t) == IF req[q].family = None THEN t ELSE req[q].family

IssueTokens(q) ==
    /\ req[q].pc = "issue"
    /\ \E t \in Tokens :
         LET opener == IF req[q].token = None THEN t ELSE session[req[q].token] IN
         /\ tokens[t] = None
         /\ tokens' = [tokens EXCEPT ![t] = [family |-> FamilyOf(q, t), revoked |-> FALSE,
                                             expired |-> FALSE]]
         /\ session' = [session EXCEPT ![t] = opener]
         /\ since' = [since EXCEPT ![t] = req[q].since]
         /\ forked' = IF "refresh" \in req[q].overtaken THEN forked \cup {opener} ELSE forked
         /\ stale' = IF "reset" \in req[q].overtaken THEN stale \cup {opener} ELSE stale
    /\ Ends(q)
    /\ UNCHANGED <<account, verification, resets, version, reused>>

-----------------------------------------------------------------------------
(* refresh and logout *)

Refreshing(q) == req[q].token # None

\* The refreshes of the session that q refreshes.
RefreshesOf(q, labels) ==
    {p \in Requests : req[p].pc \in labels /\ Refreshing(p) /\ req[p].family = req[q].family}

BeginRefresh(q, t) ==
    /\ req[q].pc = "idle"
    /\ tokens[t] # None
    /\ tokens[t].revoked \/ ~tokens[t].expired
    /\ ReqBecomes(q, [IdleReq EXCEPT !.pc = IF tokens[t].revoked THEN "reuse" ELSE "rotate",
                                     !.token = t, !.family = tokens[t].family,
                                     !.since = since[t]])
    /\ UNCHANGED <<db, history>>

\* A revoked token came back: its family is revoked.  The mutant revokes by id.
RevokedOnReuse_ById(q) == {req[q].token}
RevokedOnReuse(q) == {t \in Tokens : tokens[t] # None /\ tokens[t].family = req[q].family}

RevokeFamily(q) ==
    /\ req[q].pc = "reuse"
    /\ Revoke(RevokedOnReuse(q))
    /\ reused' = reused \cup {session[req[q].token]}
    /\ forked' = forked \ {session[req[q].token]}
    /\ Overtakes(q, IdleReq, RefreshesOf(q, {"rotate", "issue"}), "refresh")
    /\ UNCHANGED <<account, verification, resets, version, session, since, stale>>

\* The mutant rotates without revoking the old token.
RotatedOut_Kept(q) == {}
RotatedOut(q) == {req[q].token}

RevokeOld(q) ==
    /\ req[q].pc = "rotate"
    /\ Revoke(RotatedOut(q))
    /\ Overtakes(q, [req[q] EXCEPT !.pc = "issue"], RefreshesOf(q, {"rotate"}), "refresh")
    /\ UNCHANGED <<account, verification, resets, history>>

Logout(t) ==
    /\ Standing(t)
    /\ Revoke({t})
    /\ UNCHANGED <<account, verification, resets, req, history>>

-----------------------------------------------------------------------------
(* verify_email *)

BeginVerify(q) ==
    /\ req[q].pc = "idle"
    /\ Usable(verification)
    /\ ReqBecomes(q, [IdleReq EXCEPT !.pc = "verify"])
    /\ UNCHANGED <<db, history>>

VerifyEmail(q) ==
    /\ req[q].pc = "verify"
    /\ verification' = [verification EXCEPT !.used = TRUE]
    /\ account' = [account EXCEPT !.verified = TRUE]
    /\ Ends(q)
    /\ UNCHANGED <<resets, tokens, history>>

-----------------------------------------------------------------------------
(* request_password_reset and confirm_password_reset *)

RequestReset(z) ==
    /\ account # None
    /\ resets[z] = None
    /\ resets' = [resets EXCEPT ![z] = FreshRow]
    /\ UNCHANGED <<account, verification, tokens, req, history>>

\* The checks on the row that was read.
Resettable(z) == Usable(resets[z])

BeginConfirm(q, z, w) ==
    /\ req[q].pc = "idle"
    /\ Resettable(z)
    /\ ReqBecomes(q, [IdleReq EXCEPT !.pc = "confirm", !.reset = z, !.password = w])
    /\ UNCHANGED <<db, history>>

\* Every token of the user is revoked.
RevokedOnReset == Tokens

ConfirmReset(q) ==
    /\ req[q].pc = "confirm"
    /\ account' = [account EXCEPT !.password = req[q].password]
    /\ resets' = [resets EXCEPT ![req[q].reset].used = TRUE]
    /\ Revoke(RevokedOnReset)
    /\ version' = version + 1
    /\ stale' = {}
    /\ Overtakes(q, IdleReq, {p \in Requests : req[p].pc \in {"rotate", "issue"}}, "reset")
    /\ UNCHANGED <<verification, session, since, reused, forked>>

-----------------------------------------------------------------------------
(* expires_at passes, while somebody may still read it; and a request ends *)
(* between two statements.                                                 *)

ExpireToken(t) ==
    /\ Standing(t) /\ ~tokens[t].expired
    /\ tokens' = [tokens EXCEPT ![t].expired = TRUE]
    /\ UNCHANGED <<account, verification, resets, req, history>>

ExpireReset(z) ==
    /\ Usable(resets[z])
    /\ resets' = [resets EXCEPT ![z].expired = TRUE]
    /\ UNCHANGED <<account, verification, tokens, req, history>>

ExpireVerification ==
    /\ Usable(verification)
    /\ verification' = [verification EXCEPT !.expired = TRUE]
    /\ UNCHANGED <<account, resets, tokens, req, history>>

StopRequest(q) ==
    /\ req[q].pc # "idle"
    /\ Ends(q)
    /\ UNCHANGED <<db, history>>

Handle(q) ==
    \/ CreateAccount(q) \/ CreateRejected(q) \/ IssueTokens(q)
    \/ RevokeFamily(q) \/ RevokeOld(q) \/ VerifyEmail(q) \/ ConfirmReset(q)
    \/ StopRequest(q)

Begin(q) ==
    \/ \E w \in Passwords : \/ BeginRegister(q, w) \/ BeginLogin(q, w)
                            \/ \E z \in Resets : BeginConfirm(q, z, w)
    \/ \E t \in Tokens : BeginRefresh(q, t)
    \/ BeginVerify(q)

Next ==
    \/ \E q \in Requests : Begin(q) \/ Handle(q)
    \/ \E t \in Tokens : Logout(t) \/ ExpireToken(t)
    \/ \E z \in Resets : RequestReset(z) \/ ExpireReset(z)
    \/ ExpireVerification

Spec == Init /\ [][Next]_vars

-----------------------------------------------------------------------------
(* Properties.                                                             *)

ReqType == [pc : {"idle", "create", "issue", "rotate", "reuse", "verify", "confirm"},
            password : Passwords \cup {None}, token : Tokens \cup {None},
            family : Tokens \cup {None}, reset : Resets \cup {None}, since : Nat,
            overtaken : SUBSET {"refresh", "reset"}]

\* The rows have their types, and a family is that of its first token.
RowsOK ==
    /\ account \in AccountRow \cup {None}
    /\ verification \in OnceRow \cup {None} /\ (verification = None <=> account = None)
    /\ resets \in [Resets -> OnceRow \cup {None}]
    /\ \A z \in Resets : resets[z] # None => account # None
    /\ tokens \in [Tokens -> TokenRow \cup {None}]
    /\ version \in Nat /\ since \in [Tokens -> Nat]
    /\ forked \subseteq Tokens /\ stale \subseteq Tokens
    /\ session \in [Tokens -> Tokens \cup {None}] /\ reused \subseteq Tokens
    /\ \A t \in Tokens : tokens[t] # None => /\ tokens[tokens[t].family] # None
                                             /\ tokens[t].family = session[t]

\* A request holds what its next statement needs, and what it has read exists.
ReqOK(x) ==
    /\ x \in ReqType
    /\ x.pc \in {"create", "confirm"} => x.password \in Passwords
    /\ x.pc \in {"verify", "confirm"} => account # None
    /\ x.pc = "confirm" => x.reset \in Resets /\ resets[x.reset] # None
    /\ x.pc \in {"rotate", "reuse"} => x.token \in Tokens
    /\ IF x.token = None THEN x.family = None
       ELSE tokens[x.token] # None /\ x.family = session[x.token]

\* Rows have their types and refer to rows that exist, and so do requests.
TypeOK ==
    /\ RowsOK
    /\ req \in [Requests -> ReqType]
    /\ \A q \in Requests : ReqOK(req[q])

\* Rotation: the tokens of a session replace one another, so at most one of them
\* can be refreshed, however logouts, resets and expiry interleave with a refresh
\* that has revoked the old token and has not issued the next; unless a refresh
\* continues the session with what it had read before another one of it wrote.
OneStandingPerSession ==
    \A t, u \in Tokens :
       Standing(t) /\ Standing(u) /\ session[t] = session[u] => t = u \/ session[t] \in forked

\* "Reuse detected": once a revoked token of a session has come back, no token of
\* that session can be refreshed, then or later, unless a refresh that was in
\* progress just then goes on and issues one.
ReuseEndsSession ==
    \A t \in Tokens : Standing(t) /\ session[t] \in reused => session[t] \in forked

\* A session that was opened under an earlier password, or by a registration that
\* lost the race for the email address, cannot be refreshed, unless the reset of
\* the password came between the check and the issue of a request of the session.
SessionsAreCurrent ==
    \A t \in Tokens : Standing(t) /\ session[t] \notin stale => since[t] = version

\* What the proofs of the first two rest on: a refresh of a session that is not
\* forked, and that was not overtaken, holds the only token that stands in it, or
\* has revoked it and is then the only such refresh.
Rotating(x) ==
    /\ x.pc \in {"rotate", "issue"} /\ x.token # None
    /\ "refresh" \notin x.overtaken /\ x.family \notin forked

HoldsSession(x) ==
    Rotating(x) => /\ x.family \notin reused
                   /\ \A t \in Tokens : Standing(t) /\ session[t] = x.family =>
                                          x.pc = "rotate" /\ t = x.token

RotationInvariant ==
    /\ OneStandingPerSession
    /\ ReuseEndsSession
    /\ \A f \in reused : tokens[f] # None
    /\ \A q \in Requests : HoldsSession(req[q])
    /\ \A q, p \in Requests :
         Rotating(req[q]) /\ Rotating(req[p]) /\ req[q].family = req[p].family =>
            q = p \/ (req[q].pc = "rotate" /\ req[p].pc = "rotate")

\* What the proof of the third rests on: before there is an account nothing is
\* issued, and a request that no reset has overtaken issues for the password that
\* is valid.
HoldsCredential(x) ==
    x.pc \in {"rotate", "issue"} =>
       /\ account # None
       /\ "reset" \notin x.overtaken /\ (x.token = None \/ x.family \notin stale) => x.since = version

CredentialInvariant ==
    /\ account = None => \A t \in Tokens : tokens[t] = None
    /\ SessionsAreCurrent
    /\ \A q \in Requests : HoldsCredential(req[q])
=============================================================================
