-------------------------- MODULE ServicesProofs --------------------------
(***************************************************************************)
(* Theorems about what the program asks of services outside, in their      *)
(* composition: the connections to POS providers, for any workspaces,      *)
(* merchants, tokens and number of requests in progress; the history of    *)
(* prices, for any printings, prices and refreshes at once; the lookups of *)
(* certificates and the search of cards, for any number of clients; and    *)
(* what is read of any orders and products of a merchant.                  *)
(***************************************************************************)
EXTENDS Services, TLAPS

-----------------------------------------------------------------------------
(* Types.                                                                  *)

FlowReq == [pc : {"exchange", "setError"}, conn : Conns, workspace : Workspaces, provider : Providers]
HookReq == [pc : {"hook"}, conn : Conns, workspace : Workspaces, provider : Providers, set : TokenSet]
SaveReq == [pc : {"save"}, conn : Conns, workspace : Workspaces, provider : Providers, set : TokenSet,
            webhook : Tokens \cup {Missing}]
EnqueueReq == [pc : {"enqueue"}, conn : Conns]
RevokeReq == [pc : {"revoke"}, conn : Conns, token : Tokens]
EndReq == [pc : {"disconnect"}, conn : Conns, token : Tokens \cup {Missing}]
ConnReq == {Idle} \cup FlowReq \cup HookReq \cup SaveReq \cup EnqueueReq \cup RevokeReq \cup EndReq

\* Tables, requests and what the provider has issued are of their types.
ConnTypeOK ==
    /\ \A c \in Conns : c \in Rows => conns[c] \in ConnRow
    /\ DOMAIN conns = Conns
    /\ req \in [Requests -> ConnReq]
    /\ \A t \in Tokens : granted[t] # Missing => granted[t] \in GrantRow
    /\ DOMAIN granted = Tokens

\* A request is what its label says.
LEMMA ReqShape ==
    ASSUME ConnTypeOK, NEW q \in Requests
    PROVE  /\ req[q].pc = "idle" => req[q] = Idle
           /\ req[q].pc \in {"exchange", "setError"} => req[q] \in FlowReq
           /\ req[q].pc = "hook" => req[q] \in HookReq
           /\ req[q].pc = "save" => req[q] \in SaveReq
           /\ req[q].pc = "enqueue" => req[q] \in EnqueueReq
           /\ req[q].pc = "revoke" => req[q] \in RevokeReq
           /\ req[q].pc = "disconnect" => req[q] \in EndReq
  BY DEF ConnTypeOK, ConnReq, Idle, FlowReq, HookReq, SaveReq, EnqueueReq, RevokeReq, EndReq

LEMMA ReqBecomesOne ==
    ASSUME req \in [Requests -> ConnReq], NEW q \in Requests, NEW x, ReqBecomes(q, x)
    PROVE  /\ req'[q] = x
           /\ \A p \in Requests \ {q} : req'[p] = req[p]
           /\ x \in ConnReq => req' \in [Requests -> ConnReq]
  BY DEF ReqBecomes

\* What an adapter makes of an answer has its token.
LEMMA ExchangedIs ==
    ASSUME NEW p \in Providers, NEW answer \in Answers, Exchanged(p, answer) # Missing
    PROVE  /\ answer.token \in Tokens
           /\ Exchanged(p, answer) \in TokenSet
           /\ Exchanged(p, answer).token = answer.token
           /\ Exchanged(p, answer).merchant \in {answer.merchant, Shop}
<1>1. answer.ok /\ answer.token # Missing
  BY DEF Exchanged
<1>2. CASE p = "square"
  BY <1>1, <1>2 DEF Exchanged, SquareTokens, Answers, TokenSet
<1>3. CASE p = "shopify"
  BY <1>1, <1>3 DEF Exchanged, ShopifyTokens, Answers, TokenSet
<1>4. CASE p = "clover"
  BY <1>1, <1>4 DEF Exchanged, CloverTokens, Answers, TokenSet
<1> QED BY <1>2, <1>3, <1>4 DEF Providers

-----------------------------------------------------------------------------
(* The inductive invariant.                                                *)

Carries(q) == req[q].pc \in {"hook", "save"}
Ending(q) == req[q].pc \in {"revoke", "disconnect"}
Calling(q) == req[q].pc \in {"exchange", "hook", "save", "setError"}

\* A callback is for a row that is there, of the workspace and provider it names.
FlowInv ==
    \A q \in Requests : Calling(q) =>
        /\ req[q].conn \in Rows
        /\ req[q].workspace = conns[req[q].conn].workspace
        /\ req[q].provider = conns[req[q].conn].provider

\* A token was granted for the code of a flow that exists.
GrantInv == \A t \in Tokens : granted[t] # Missing => granted[t].flow \in spent \cap Rows

\* The token that a callback carries is its own.
CarryInv ==
    \A q \in Requests : Carries(q) =>
        LET t == req[q].set.token IN
        /\ granted[t] # Missing
        /\ granted[t].flow = req[q].conn
        /\ req[q].set.merchant \in {Missing, Shop, granted[t].merchant}
        /\ t \notin revoked
        /\ \A c \in Rows : conns[c].token # t
        /\ \A p \in Requests \ {q} : Carries(p) => req[p].set.token # t
        /\ \A p \in Requests : Ending(p) => req[p].token # t

HookInv ==
    \A q \in Requests : req[q].pc = "save" =>
        /\ req[q].webhook \in {Missing, req[q].set.token}
        /\ req[q].webhook # Missing => req[q].webhook \in hooks

\* A row with a token is usable, whatever its status.
Usable(c) ==
    LET row == conns[c]
        grant == granted[row.token]
    IN  /\ grant # Missing
        /\ conns[grant.flow].workspace = row.workspace
        /\ conns[grant.flow].provider = row.provider
        /\ row.merchant \in {Missing, Shop, grant.merchant}
        /\ row.token \in revoked => Revoking(c)
        /\ IF row.polling THEN row.webhook = Missing ELSE row.webhook = row.token /\ row.token \in hooks

RowInv == \A c \in Rows : conns[c].token # Missing => Usable(c)
ActiveInv == \A c \in Rows : conns[c].status = "active" => conns[c].token # Missing

DistinctInv ==
    \A c, d \in Rows : c # d /\ conns[c].token # Missing => conns[c].token # conns[d].token

\* A disconnection revokes a token that only its own row may hold.
EndInv ==
    \A q \in Requests : Ending(q) =>
        /\ req[q].conn \in Rows
        /\ req[q].token # Missing => granted[req[q].token] # Missing
        /\ req[q].pc = "revoke" => \A c \in Rows : conns[c].token = req[q].token => c = req[q].conn

RevokedInv == \A t \in revoked : t \in Tokens /\ granted[t] # Missing

\* A flow that was cancelled has no code to exchange and no callback at work, and
\* cannot get one.
CancelInv ==
    \A c \in cancelled : c \in Rows /\ c \notin spent /\ conns[c].status # "pending" /\ ~CallingBack(c)

ConnInv ==
    /\ ConnTypeOK /\ FlowInv /\ GrantInv /\ CarryInv /\ HookInv /\ RowInv /\ ActiveInv
    /\ DistinctInv /\ EndInv /\ RevokedInv /\ CancelInv

LEMMA ConnInitInv == ASSUME ConnectInit PROVE ConnInv
<1>1. Rows = {}
  BY DEF ConnectInit, Rows
<1> QED
  BY <1>1 DEF ConnectInit, ConnInv, ConnTypeOK, ConnReq, FlowInv, GrantInv, CarryInv, HookInv, RowInv,
     ActiveInv, DistinctInv, EndInv, RevokedInv, CancelInv, Idle, Calling, Carries, Ending

LEMMA StartConnectInv ==
    ASSUME ConnInv, NEW c \in Conns, NEW w \in Workspaces, NEW p \in Providers, StartConnect(c, w, p)
    PROVE  ConnInv'
<1> USE DEF StartConnect, provider
<1>1. NewRow(w, p) \in ConnRow /\ NewRow(w, p).token = Missing /\ NewRow(w, p).status = "pending"
  BY DEF NewRow, ConnRow
<1>2. Rows' = Rows \cup {c} /\ c \notin Rows
  BY <1>1, ConnectAssumption DEF Rows, ConnInv, ConnTypeOK
<1>3. conns'[c] = NewRow(w, p) /\ \A d \in Rows : conns'[d] = conns[d]
  BY <1>2 DEF ConnInv, ConnTypeOK, Rows
<1>4. \A d \in Conns : CallingBack(d)' = CallingBack(d) /\ Revoking(d)' = Revoking(d)
  BY DEF CallingBack, Revoking
<1>5. ConnTypeOK'
  BY <1>1, <1>2, <1>3 DEF ConnInv, ConnTypeOK, Rows
<1>6. FlowInv'
  BY <1>2, <1>3 DEF ConnInv, FlowInv, Calling
<1>7. GrantInv'
  BY <1>2, <1>3 DEF ConnInv, GrantInv
<1>8. CarryInv' /\ HookInv'
  <2>1. \A q \in Requests : Carries(q) => req[q].set.token # Missing
    BY ReqShape, ConnectAssumption DEF ConnInv, Carries, HookReq, SaveReq, TokenSet
  <2> QED BY <1>1, <1>2, <1>3, <2>1 DEF ConnInv, CarryInv, HookInv, Carries, Ending
<1>9. RowInv'
  <2> SUFFICES ASSUME NEW d \in Rows', conns'[d].token # Missing PROVE Usable(d)'
    BY DEF RowInv
  <2>1. d \in Rows /\ Usable(d) /\ conns[d].token \in Tokens
    BY <1>1, <1>2, <1>3 DEF ConnInv, RowInv, ConnTypeOK, ConnRow, Rows
  <2>2. granted[conns[d].token].flow \in Rows
    BY <2>1 DEF ConnInv, GrantInv, Usable
  <2>3. d \in Conns
    BY <2>1 DEF Rows
  <2> QED BY <1>3, <1>4, <2>1, <2>2, <2>3 DEF Usable
<1>10. ActiveInv' /\ DistinctInv'
  BY <1>1, <1>2, <1>3 DEF ConnInv, ActiveInv, DistinctInv
<1>11. EndInv'
  BY <1>1, <1>2, <1>3, ReqShape, ConnectAssumption DEF ConnInv, EndInv, Ending, RevokeReq
<1>12. RevokedInv' /\ CancelInv'
  BY <1>2, <1>3, <1>4 DEF ConnInv, RevokedInv, CancelInv, Rows
<1> QED BY <1>5, <1>6, <1>7, <1>8, <1>9, <1>10, <1>11, <1>12 DEF ConnInv

\* While rows, grants and revocations stay, what a row needs stays too.
LEMMA UsableStays ==
    ASSUME NEW c \in Conns, Usable(c),
           UNCHANGED <<conns, revoked>>, granted'[conns[c].token] = granted[conns[c].token],
           hooks \subseteq hooks',
           Revoking(c) => Revoking(c)'
    PROVE  Usable(c)'
  BY DEF Usable

LEMMA BeginCallbackInv ==
    ASSUME ConnInv, NEW q \in Requests, NEW c \in Conns, BeginCallback(q, c)
    PROVE  ConnInv'
<1> USE DEF BeginCallback, provider
<1> DEFINE x == [pc |-> "exchange", conn |-> c, workspace |-> conns[c].workspace,
                 provider |-> conns[c].provider]
<1>1. c \in Rows /\ conns[c] \in ConnRow /\ conns[c].status = "pending"
  BY DEF FindByState, ConnInv, ConnTypeOK
<1>2. x \in FlowReq /\ x \in ConnReq
  BY <1>1 DEF FlowReq, ConnReq, ConnRow
<1>3. req'[q] = x /\ (\A p \in Requests \ {q} : req'[p] = req[p]) /\ req' \in [Requests -> ConnReq]
  <2>1. ReqBecomes(q, x)
    OBVIOUS
  <2> QED BY <1>2, <2>1, ReqBecomesOne DEF ConnInv, ConnTypeOK
<1>4. Rows' = Rows
  BY DEF Rows
<1>5. \A d \in Conns : Revoking(d) => Revoking(d)'
  BY <1>3 DEF Revoking, IsIdle
<1>6. ConnTypeOK'
  BY <1>3, <1>4 DEF ConnInv, ConnTypeOK
<1>7. FlowInv'
  BY <1>1, <1>3, <1>4 DEF ConnInv, FlowInv, Calling
<1>8. CarryInv' /\ HookInv' /\ EndInv'
  BY <1>3, <1>4 DEF ConnInv, CarryInv, HookInv, EndInv, Carries, Ending
<1>9. RowInv'
  BY <1>4, <1>5, UsableStays DEF ConnInv, RowInv, Rows
<1>10. CancelInv'
  BY <1>1, <1>3, <1>4 DEF ConnInv, CancelInv, CallingBack
<1> QED BY <1>4, <1>6, <1>7, <1>8, <1>9, <1>10
        DEF ConnInv, GrantInv, ActiveInv, DistinctInv, RevokedInv

\* A request that is done, or stops where it is; its disconnection is remembered.
LEMMA EndsInv ==
    ASSUME ConnInv, NEW q \in Requests, Ends(q), UNCHANGED <<conns, provider, cancelled>>,
           \A c \in Conns : Revoking(c) => Revoking(c)'
    PROVE  ConnInv'
<1> USE DEF provider
<1>1. req'[q] = Idle /\ (\A p \in Requests \ {q} : req'[p] = req[p]) /\ req' \in [Requests -> ConnReq]
  BY ReqBecomesOne DEF ConnInv, ConnTypeOK, Ends, ConnReq
<1>2. Rows' = Rows
  BY DEF Rows
<1>3. ConnTypeOK'
  BY <1>1, <1>2 DEF ConnInv, ConnTypeOK
<1>4. FlowInv' /\ HookInv'
  BY <1>1, <1>2 DEF ConnInv, FlowInv, HookInv, Calling, Idle
<1>5. CarryInv' /\ EndInv'
  BY <1>1, <1>2 DEF ConnInv, CarryInv, EndInv, Carries, Ending, Idle
<1>6. RowInv'
  BY <1>2, UsableStays DEF ConnInv, RowInv, Rows
<1>7. CancelInv'
  BY <1>1, <1>2 DEF ConnInv, CancelInv, CallingBack, Idle
<1> QED BY <1>2, <1>3, <1>4, <1>5, <1>6, <1>7 DEF ConnInv, GrantInv, ActiveInv, DistinctInv, RevokedInv

LEMMA EnqueueInv == ASSUME ConnInv, NEW q \in Requests, Enqueue(q) PROVE ConnInv'
<1>1. req'[q] = Idle /\ \A p \in Requests \ {q} : req'[p] = req[p]
  BY ReqBecomesOne DEF ConnInv, ConnTypeOK, Enqueue, Ends
<1>2. \A c \in Conns : Revoking(c) => Revoking(c)'
  BY <1>1 DEF Enqueue, Revoking
<1> QED BY <1>2, EndsInv DEF Enqueue

LEMMA StopRequestInv == ASSUME ConnInv, NEW q \in Requests, StopRequest(q) PROVE ConnInv'
<1>1. req'[q] = Idle /\ \A p \in Requests \ {q} : req'[p] = req[p]
  BY ReqBecomesOne DEF ConnInv, ConnTypeOK, StopRequest, Ends
<1>2. \A c \in Conns : Revoking(c) => Revoking(c)'
  BY <1>1 DEF StopRequest, Revoking
<1> QED BY <1>2, EndsInv DEF StopRequest

LEMMA SetErrorInv == ASSUME ConnInv, NEW q \in Requests, SetError(q) PROVE ConnInv'
<1> USE DEF SetError, provider
<1> DEFINE c == req[q].conn
<1>1. req'[q] = Idle /\ (\A p \in Requests \ {q} : req'[p] = req[p]) /\ req' \in [Requests -> ConnReq]
  BY ReqBecomesOne DEF ConnInv, ConnTypeOK, Ends, ConnReq
<1>2. c \in Rows /\ c \in Conns /\ conns[c] \in ConnRow
  BY DEF ConnInv, FlowInv, Calling, Rows, ConnTypeOK
<1>3. /\ conns'[c] \in ConnRow /\ conns'[c].status = "error"
      /\ conns'[c].workspace = conns[c].workspace /\ conns'[c].provider = conns[c].provider
      /\ conns'[c].token = conns[c].token /\ conns'[c].merchant = conns[c].merchant
      /\ conns'[c].webhook = conns[c].webhook /\ conns'[c].polling = conns[c].polling
      /\ \A d \in Conns \ {c} : conns'[d] = conns[d]
  BY <1>2 DEF ConnInv, ConnTypeOK, ConnRow
<1>4. Rows' = Rows
  BY <1>2, <1>3, ConnectAssumption DEF Rows
<1>5. \A d \in Conns : Revoking(d) => Revoking(d)'
  BY <1>1 DEF Revoking
<1>6. ConnTypeOK'
  BY <1>1, <1>3, <1>4 DEF ConnInv, ConnTypeOK, Rows
<1>7. FlowInv' /\ HookInv'
  BY <1>1, <1>3, <1>4 DEF ConnInv, FlowInv, HookInv, Calling, Idle, Rows
<1>8. CarryInv' /\ EndInv'
  BY <1>1, <1>3, <1>4 DEF ConnInv, CarryInv, EndInv, Carries, Ending, Idle, Rows
<1>9. RowInv'
  <2> SUFFICES ASSUME NEW d \in Rows, conns'[d].token # Missing PROVE Usable(d)'
    BY <1>4 DEF RowInv
  <2>1. d \in Conns /\ Usable(d) /\ conns[d].token \in Tokens
    BY <1>3 DEF ConnInv, RowInv, ConnTypeOK, ConnRow, Rows
  <2>2. granted[conns[d].token].flow \in Conns
    BY <2>1 DEF ConnInv, GrantInv, Usable, Rows
  <2> QED BY <1>3, <1>5, <2>1, <2>2 DEF Usable
<1>10. ActiveInv' /\ DistinctInv'
  BY <1>3, <1>4 DEF ConnInv, ActiveInv, DistinctInv, Rows
<1>11. CancelInv'
  BY <1>1, <1>3, <1>4 DEF ConnInv, CancelInv, CallingBack, Idle, Rows
<1> QED BY <1>4, <1>6, <1>7, <1>8, <1>9, <1>10, <1>11 DEF ConnInv, GrantInv, RevokedInv

LEMMA BeginDisconnectInv ==
    ASSUME ConnInv, NEW q \in Requests, NEW c \in Conns, BeginDisconnect(q, c)
    PROVE  ConnInv'
<1> USE DEF BeginDisconnect, provider
<1> DEFINE x == IF conns[c].token = Missing THEN [pc |-> "disconnect", conn |-> c, token |-> Missing]
                ELSE [pc |-> "revoke", conn |-> c, token |-> conns[c].token]
<1>1. c \in Rows /\ conns[c] \in ConnRow
  BY DEF ConnInv, ConnTypeOK
<1>2. x \in ConnReq /\ x.pc \in {"revoke", "disconnect"} /\ x.conn = c /\ x.token = conns[c].token
  BY <1>1 DEF RevokeReq, EndReq, ConnReq, ConnRow
<1>3. req'[q] = x /\ (\A p \in Requests \ {q} : req'[p] = req[p]) /\ req' \in [Requests -> ConnReq]
  <2>1. ReqBecomes(q, x)
    OBVIOUS
  <2> QED BY <1>2, <2>1, ReqBecomesOne DEF ConnInv, ConnTypeOK
<1> HIDE DEF x
<1>4. Rows' = Rows
  BY DEF Rows
<1>5. \A d \in Conns : Revoking(d) => Revoking(d)'
  BY <1>3 DEF Revoking, IsIdle
<1>6. ConnTypeOK'
  BY <1>3, <1>4 DEF ConnInv, ConnTypeOK
<1>7. FlowInv' /\ HookInv'
  BY <1>2, <1>3, <1>4 DEF ConnInv, FlowInv, HookInv, Calling
<1>8. CarryInv'
  BY <1>1, <1>2, <1>3, <1>4 DEF ConnInv, CarryInv, Carries, Ending
<1>9. EndInv'
  <2>1. conns[c].token # Missing => granted[conns[c].token] # Missing
    BY <1>1 DEF ConnInv, RowInv, Usable
  <2>2. \A d \in Rows : conns[d].token = conns[c].token /\ conns[c].token # Missing => d = c
    BY <1>1 DEF ConnInv, DistinctInv
  <2>3. x.pc = "revoke" => conns[c].token # Missing
    BY DEF x
  <2> QED BY <1>1, <1>2, <1>3, <1>4, <2>1, <2>2, <2>3 DEF ConnInv, EndInv, Ending
<1>10. RowInv'
  BY <1>4, <1>5, UsableStays DEF ConnInv, RowInv, Rows
<1>11. CancelInv'
  BY <1>2, <1>3, <1>4 DEF ConnInv, CancelInv, CallingBack
<1> QED BY <1>4, <1>6, <1>7, <1>8, <1>9, <1>10, <1>11
        DEF ConnInv, GrantInv, ActiveInv, DistinctInv, RevokedInv

\* Only the disconnections of the row that has the token revoke it.
LEMMA RevokeTokenInv == ASSUME ConnInv, NEW q \in Requests, RevokeToken(q) PROVE ConnInv'
<1> USE DEF RevokeToken, provider
<1> DEFINE x == [req[q] EXCEPT !.pc = "disconnect"]
<1>1. req[q] \in RevokeReq
  BY ReqShape DEF ConnInv
<1>2. x \in EndReq /\ x \in ConnReq /\ x.pc = "disconnect" /\ x.conn = req[q].conn /\ x.token = req[q].token
  BY <1>1 DEF RevokeReq, EndReq, ConnReq
<1>3. req'[q] = x /\ (\A p \in Requests \ {q} : req'[p] = req[p]) /\ req' \in [Requests -> ConnReq]
  <2>1. ReqBecomes(q, x)
    OBVIOUS
  <2> QED BY <1>2, <2>1, ReqBecomesOne DEF ConnInv, ConnTypeOK
<1> HIDE DEF x
<1>4. Rows' = Rows /\ revoked' \subseteq revoked \cup {req[q].token}
  BY DEF Rows
<1>5. \A d \in Conns : Revoking(d) => Revoking(d)'
  BY <1>3 DEF Revoking
<1>6. ConnTypeOK'
  BY <1>3, <1>4 DEF ConnInv, ConnTypeOK
<1>7. FlowInv' /\ HookInv'
  BY <1>2, <1>3, <1>4 DEF ConnInv, FlowInv, HookInv, Calling
<1>8. CarryInv'
  BY <1>1, <1>2, <1>3, <1>4 DEF ConnInv, CarryInv, Carries, Ending
<1>9. EndInv'
  BY <1>1, <1>2, <1>3, <1>4 DEF ConnInv, EndInv, Ending
<1>10. RowInv'
  <2> SUFFICES ASSUME NEW d \in Rows, conns[d].token # Missing PROVE Usable(d)'
    BY <1>4 DEF RowInv
  <2>1. Usable(d) /\ d \in Conns
    BY DEF ConnInv, RowInv, Rows
  <2>2. conns[d].token = req[q].token => d = req[q].conn
    BY <1>4 DEF ConnInv, EndInv, Ending
  <2>3. conns[d].token = req[q].token => Revoking(d)'
    BY <1>2, <1>3, <2>2 DEF Revoking
  <2> QED BY <1>4, <1>5, <2>1, <2>3 DEF Usable
<1>11. RevokedInv'
  BY <1>1, <1>4, ConnectAssumption DEF ConnInv, RevokedInv, EndInv, Ending, RevokeReq
<1>12. CancelInv'
  BY <1>2, <1>3, <1>4 DEF ConnInv, CancelInv, CallingBack
<1> QED BY <1>4, <1>6, <1>7, <1>8, <1>9, <1>10, <1>11, <1>12 DEF ConnInv, GrantInv, ActiveInv, DistinctInv

LEMMA RegisterWebhookInv == ASSUME ConnInv, NEW q \in Requests, RegisterWebhook(q) PROVE ConnInv'
<1> USE DEF RegisterWebhook, provider
<1>1. PICK answer \in [ok : BOOLEAN, id : {req[q].set.token}] :
        LET hook == Webhook(req[q].provider, answer) IN
        /\ hooks' = hooks \cup ({hook} \ {Missing})
        /\ ReqBecomes(q, [pc |-> "save", conn |-> req[q].conn, workspace |-> req[q].workspace,
                          provider |-> req[q].provider, set |-> req[q].set, webhook |-> hook])
  OBVIOUS
<1> DEFINE hook == Webhook(req[q].provider, answer)
           x == [pc |-> "save", conn |-> req[q].conn, workspace |-> req[q].workspace,
                 provider |-> req[q].provider, set |-> req[q].set, webhook |-> hook]
<1>2. req[q] \in HookReq
  BY ReqShape DEF ConnInv
<1>3. hook \in {Missing, req[q].set.token} /\ hook \in Tokens \cup {Missing}
  BY <1>2 DEF Webhook, HookReq, TokenSet
<1>4. hooks' = hooks \cup ({hook} \ {Missing}) /\ ReqBecomes(q, x)
  BY <1>1
<1> HIDE DEF hook
<1>5. /\ x \in SaveReq /\ x \in ConnReq /\ x.pc = "save" /\ x.conn = req[q].conn
      /\ x.workspace = req[q].workspace /\ x.provider = req[q].provider /\ x.set = req[q].set
      /\ x.webhook = hook
  BY <1>2, <1>3 DEF HookReq, SaveReq, ConnReq
<1> HIDE DEF x
<1>6. req'[q] = x /\ (\A p \in Requests \ {q} : req'[p] = req[p]) /\ req' \in [Requests -> ConnReq]
  BY <1>4, <1>5, ReqBecomesOne DEF ConnInv, ConnTypeOK
<1>7. Rows' = Rows
  BY DEF Rows
<1>8. \A d \in Conns : Revoking(d) => Revoking(d)'
  BY <1>6 DEF Revoking
<1>9. ConnTypeOK'
  BY <1>6, <1>7 DEF ConnInv, ConnTypeOK
<1>10. FlowInv'
  BY <1>5, <1>6, <1>7 DEF ConnInv, FlowInv, Calling
<1>11. HookInv'
  BY <1>3, <1>4, <1>5, <1>6 DEF ConnInv, HookInv
<1>12. CarryInv'
  BY <1>5, <1>6, <1>7 DEF ConnInv, CarryInv, Carries, Ending
<1>13. EndInv'
  BY <1>5, <1>6, <1>7 DEF ConnInv, EndInv, Ending
<1>14. RowInv'
  BY <1>4, <1>7, <1>8, UsableStays DEF ConnInv, RowInv, Rows
<1>15. CancelInv'
  BY <1>5, <1>6, <1>7 DEF ConnInv, CancelInv, CallingBack
<1> QED BY <1>7, <1>9, <1>10, <1>11, <1>12, <1>13, <1>14, <1>15
        DEF ConnInv, GrantInv, ActiveInv, DistinctInv, RevokedInv

LEMMA DisconnectInv == ASSUME ConnInv, NEW q \in Requests, Disconnect(q) PROVE ConnInv'
<1> USE DEF Disconnect, provider
<1> DEFINE c == req[q].conn
<1>1. req'[q] = Idle /\ (\A p \in Requests \ {q} : req'[p] = req[p]) /\ req' \in [Requests -> ConnReq]
  BY ReqBecomesOne DEF ConnInv, ConnTypeOK, Ends, ConnReq
<1>2. c \in Rows /\ c \in Conns /\ conns[c] \in ConnRow
  BY DEF ConnInv, EndInv, Ending, Rows, ConnTypeOK
<1>3. /\ conns'[c] \in ConnRow /\ conns'[c].status = "disconnected"
      /\ conns'[c].workspace = conns[c].workspace /\ conns'[c].provider = conns[c].provider
      /\ conns'[c].token = Missing
      /\ \A d \in Conns \ {c} : conns'[d] = conns[d]
  BY <1>2 DEF ConnInv, ConnTypeOK, ConnRow
<1>4. Rows' = Rows
  BY <1>2, <1>3, ConnectAssumption DEF Rows
<1>5. \A d \in Conns \ {c} : Revoking(d) => Revoking(d)'
  BY <1>1 DEF Revoking
<1>6. ConnTypeOK'
  BY <1>1, <1>3, <1>4 DEF ConnInv, ConnTypeOK, Rows
<1>7. FlowInv' /\ HookInv'
  BY <1>1, <1>3, <1>4 DEF ConnInv, FlowInv, HookInv, Calling, Idle, Rows
<1>8. CarryInv'
  <2>1. \A p \in Requests : Carries(p) => req[p].set.token # Missing
    BY ReqShape, ConnectAssumption DEF ConnInv, Carries, HookReq, SaveReq, TokenSet
  <2> QED BY <1>1, <1>3, <1>4, <2>1 DEF ConnInv, CarryInv, Carries, Ending, Idle, Rows
<1>9. EndInv'
  <2>1. \A p \in Requests : req[p].pc = "revoke" => req[p].token # Missing
    BY ReqShape, ConnectAssumption DEF ConnInv, RevokeReq
  <2> QED BY <1>1, <1>3, <1>4, <2>1 DEF ConnInv, EndInv, Ending, Idle, Rows
<1>10. RowInv'
  <2> SUFFICES ASSUME NEW d \in Rows, conns'[d].token # Missing PROVE Usable(d)'
    BY <1>4 DEF RowInv
  <2>1. d \in Conns /\ d # c /\ Usable(d) /\ conns[d].token \in Tokens
    BY <1>3 DEF ConnInv, RowInv, ConnTypeOK, ConnRow, Rows
  <2>2. granted[conns[d].token].flow \in Conns
    BY <2>1 DEF ConnInv, GrantInv, Usable, Rows
  <2> QED BY <1>3, <1>5, <2>1, <2>2 DEF Usable
<1>11. ActiveInv' /\ DistinctInv'
  BY <1>3, <1>4 DEF ConnInv, ActiveInv, DistinctInv, Rows
<1>12. CancelInv'
  BY <1>1, <1>2, <1>3, <1>4 DEF ConnInv, CancelInv, CallingBack, Idle, Rows
<1> QED BY <1>4, <1>6, <1>7, <1>8, <1>9, <1>10, <1>11, <1>12 DEF ConnInv, GrantInv, RevokedInv

\* A token that the provider grants at once is nobody's yet.
LEMMA ExchangeInv == ASSUME ConnInv, NEW q \in Requests, Exchange(q) PROVE ConnInv'
<1> USE DEF provider
<1> DEFINE c == req[q].conn
<1>1. PICK answer \in Answers, owner \in Merchants :
         /\ answer.token # Missing =>
              /\ c \notin spent
              /\ granted[answer.token] = Missing
              /\ answer.merchant \in {owner, Missing}
         /\ granted' = IF answer.token = Missing THEN granted
                       ELSE [granted EXCEPT ![answer.token] = [flow |-> c, merchant |-> owner]]
         /\ spent' = IF answer.token = Missing THEN spent ELSE spent \cup {c}
         /\ LET set == Exchanged(req[q].provider, answer) IN
              IF set = Missing
              THEN ReqBecomes(q, [req[q] EXCEPT !.pc = "setError"])
              ELSE ReqBecomes(q, [pc |-> "hook", conn |-> c, workspace |-> req[q].workspace,
                                  provider |-> req[q].provider, set |-> set])
  BY DEF Exchange
<1>2. UNCHANGED <<conns, revoked, hooks, syncs, cancelled, torn, fetched>> /\ req[q].pc = "exchange"
  BY DEF Exchange
<1>3. req[q] \in FlowReq /\ c \in Rows /\ c \in Conns /\ conns[c] \in ConnRow
  BY <1>2, ReqShape DEF ConnInv, FlowInv, Calling, Rows, ConnTypeOK
<1> DEFINE set == Exchanged(req[q].provider, answer)
           t == answer.token
           x == req'[q]
<1>4. /\ set # Missing => /\ t \in Tokens /\ set \in TokenSet /\ set.token = t
                          /\ set.merchant \in {answer.merchant, Shop}
      /\ t \in Tokens \cup {Missing}
  BY <1>3, ExchangedIs DEF FlowReq, Answers
<1>5. /\ x \in ConnReq /\ x.pc \in {"setError", "hook"} /\ x.conn = c
      /\ x.workspace = req[q].workspace /\ x.provider = req[q].provider
      /\ x.pc = "hook" => set # Missing /\ x.set = set
      /\ (\A p \in Requests \ {q} : req'[p] = req[p])
      /\ req' \in [Requests -> ConnReq]
  <2>1. CASE set = Missing
    <3> DEFINE y == [req[q] EXCEPT !.pc = "setError"]
    <3>1. y \in FlowReq /\ y.pc = "setError" /\ y.conn = c /\ y.workspace = req[q].workspace
          /\ y.provider = req[q].provider
      BY <1>3 DEF FlowReq
    <3>2. ReqBecomes(q, y) /\ y \in ConnReq
      BY <1>1, <2>1, <3>1 DEF ConnReq
    <3> HIDE DEF y, set
    <3> QED BY <3>1, <3>2, ReqBecomesOne DEF ConnInv, ConnTypeOK
  <2>2. CASE set # Missing
    <3> DEFINE y == [pc |-> "hook", conn |-> c, workspace |-> req[q].workspace,
                     provider |-> req[q].provider, set |-> set]
    <3>1. ReqBecomes(q, y)
      BY <1>1, <2>2
    <3> HIDE DEF set
    <3>2. /\ y \in HookReq /\ y.pc = "hook" /\ y.conn = c /\ y.workspace = req[q].workspace
          /\ y.provider = req[q].provider /\ y.set = set
      BY <1>3, <1>4, <2>2 DEF FlowReq, HookReq
    <3>3. y \in ConnReq
      BY <3>2 DEF ConnReq
    <3> HIDE DEF y
    <3> QED BY <2>2, <3>1, <3>2, <3>3, ReqBecomesOne DEF ConnInv, ConnTypeOK
  <2> QED BY <2>1, <2>2
<1>6. /\ \A u \in Tokens \ {t} : granted'[u] = granted[u]
      /\ t # Missing => /\ granted[t] = Missing
                        /\ granted'[t] = [flow |-> c, merchant |-> owner]
                        /\ granted'[t] # Missing
      /\ DOMAIN granted' = Tokens
      /\ spent \subseteq spent' /\ spent' \subseteq spent \cup {c}
      /\ t # Missing => c \in spent'
  <2>1. [flow |-> c, merchant |-> owner] \in GrantRow
    BY <1>3 DEF GrantRow
  <2>2. [flow |-> c, merchant |-> owner] # Missing
    BY <2>1, ConnectAssumption
  <2> QED BY <1>1, <1>4, <2>1, <2>2 DEF ConnInv, ConnTypeOK
<1>7. t # Missing => answer.merchant \in {owner, Missing} /\ [flow |-> c, merchant |-> owner] \in GrantRow
  BY <1>1, <1>3 DEF GrantRow
<1>8. Rows' = Rows
  BY <1>2 DEF Rows
<1> HIDE DEF set, x
<1>9. \A d \in Conns : Revoking(d) => Revoking(d)'
  BY <1>2, <1>5 DEF Revoking
<1>10. ConnTypeOK'
  BY <1>2, <1>4, <1>5, <1>6, <1>7, <1>8, ConnectAssumption DEF ConnInv, ConnTypeOK
<1>11. FlowInv' /\ HookInv'
  <2>1. FlowInv'
    <3> SUFFICES ASSUME NEW p \in Requests, Calling(p)'
                 PROVE  /\ req'[p].conn \in Rows
                        /\ req'[p].workspace = conns[req'[p].conn].workspace
                        /\ req'[p].provider = conns[req'[p].conn].provider
      BY <1>2, <1>8 DEF FlowInv
    <3>1. CASE p = q
      BY <1>2, <1>5, <3>1 DEF ConnInv, FlowInv, Calling, x
    <3>2. CASE p # q
      BY <1>5, <3>2 DEF ConnInv, FlowInv, Calling
    <3> QED BY <3>1, <3>2
  <2>2. HookInv'
    BY <1>2, <1>5 DEF ConnInv, HookInv, x
  <2> QED BY <2>1, <2>2
<1>12. GrantInv'
  BY <1>3, <1>4, <1>6, <1>8, ConnectAssumption DEF ConnInv, GrantInv
<1>13. \A d \in Rows : conns[d].token # Missing => granted[conns[d].token] # Missing
  BY DEF ConnInv, RowInv, Usable
<1>14. CarryInv'
  <2>1. \A p \in Requests : Carries(p) => granted[req[p].set.token] # Missing /\ req[p].set.token \in Tokens
    BY ReqShape DEF ConnInv, CarryInv, Carries, HookReq, SaveReq, TokenSet
  <2>2. \A p \in Requests : Ending(p) /\ req[p].token # Missing => granted[req[p].token] # Missing
    BY DEF ConnInv, EndInv
  <2>3. t # Missing => t \notin revoked
    BY <1>6 DEF ConnInv, RevokedInv
  <2> SUFFICES ASSUME NEW p \in Requests, Carries(p)'
               PROVE  LET u == req'[p].set.token IN
                      /\ granted'[u] # Missing
                      /\ granted'[u].flow = req'[p].conn
                      /\ req'[p].set.merchant \in {Missing, Shop, granted'[u].merchant}
                      /\ u \notin revoked'
                      /\ \A d \in Rows' : conns'[d].token # u
                      /\ \A r \in Requests \ {p} : Carries(r)' => req'[r].set.token # u
                      /\ \A r \in Requests : Ending(r)' => req'[r].token # u
    BY DEF CarryInv
  <2>4. CASE p = q
    <3>1. req'[q].set = set /\ set # Missing /\ t \in Tokens /\ t # Missing
      BY <1>4, <1>5, <2>4, ConnectAssumption DEF Carries, x
    <3>2. set.token = t /\ set.merchant \in {Missing, Shop, owner}
      BY <1>4, <1>7, <3>1
    <3>3. \A r \in Requests \ {q} : Carries(r)' => req'[r].set.token # t
      BY <1>5, <1>6, <2>1, <3>1 DEF Carries
    <3>4. \A r \in Requests : Ending(r)' => req'[r].token # t
      BY <1>5, <1>6, <2>2, <3>1 DEF Ending, x
    <3>5. \A d \in Rows' : conns'[d].token # t
      BY <1>2, <1>6, <1>8, <1>13, <3>1
    <3> QED BY <1>2, <1>5, <1>6, <2>3, <2>4, <3>1, <3>2, <3>3, <3>4, <3>5 DEF x
  <2>5. CASE p # q
    <3>1. req'[p] = req[p] /\ Carries(p) /\ req[p].set.token # t /\ req[p].set.token \in Tokens
          /\ granted'[req[p].set.token] = granted[req[p].set.token]
      BY <1>5, <1>6, <2>1, <2>5, ConnectAssumption DEF Carries
    <3>2. Carries(q)' => req'[q].set.token = t
      BY <1>4, <1>5 DEF Carries, x
    <3>3. ~Ending(q)'
      BY <1>5 DEF Ending, x
    <3>4. \A r \in Requests \ {q} : (Carries(r)' <=> Carries(r)) /\ (Ending(r)' <=> Ending(r))
      BY <1>5 DEF Carries, Ending
    <3>5. \A r \in Requests \ {p} : Carries(r)' => req'[r].set.token # req[p].set.token
      BY <1>5, <3>1, <3>2, <3>4 DEF ConnInv, CarryInv
    <3>6. \A r \in Requests : Ending(r)' => req'[r].token # req[p].set.token
      BY <1>5, <3>1, <3>3, <3>4 DEF ConnInv, CarryInv
    <3> QED BY <1>2, <1>8, <3>1, <3>5, <3>6 DEF ConnInv, CarryInv
  <2> QED BY <2>4, <2>5
<1>15. EndInv'
  <2>1. \A p \in Requests : Ending(p) /\ req[p].token # Missing => req[p].token \in Tokens
    BY ReqShape DEF ConnInv, Ending, RevokeReq, EndReq
  <2> QED BY <1>2, <1>5, <1>6, <1>8, <2>1 DEF ConnInv, EndInv, Ending, x
<1>16. RowInv'
  <2> SUFFICES ASSUME NEW d \in Rows, conns[d].token # Missing PROVE Usable(d)'
    BY <1>2, <1>8 DEF RowInv
  <2>1. Usable(d) /\ d \in Conns /\ conns[d].token \in Tokens
    BY DEF ConnInv, RowInv, Rows, ConnTypeOK, ConnRow
  <2>2. granted'[conns[d].token] = granted[conns[d].token]
    BY <1>4, <1>6, <1>13, <2>1, ConnectAssumption
  <2> QED BY <1>2, <1>9, <2>1, <2>2, UsableStays
<1>17. RevokedInv'
  BY <1>2, <1>4, <1>6, ConnectAssumption DEF ConnInv, RevokedInv
<1>18. CancelInv'
  BY <1>2, <1>3, <1>5, <1>6, <1>8 DEF ConnInv, CancelInv, CallingBack, x
<1> QED BY <1>2, <1>8, <1>10, <1>11, <1>12, <1>14, <1>15, <1>16, <1>17, <1>18
        DEF ConnInv, ActiveInv, DistinctInv

-----------------------------------------------------------------------------
(* Save: the row that gets the token of the callback.                      *)

\* Some row d, there before or not, becomes active with what the callback carries,
\* in the workspace and at the provider of the callback's flow; every other row
\* stays as it is.
LEMMA SaveEffect ==
    ASSUME ConnInv, NEW q \in Requests, Save(q)
    PROVE  \E d \in Conns :
             /\ conns'[d] \in ConnRow
             /\ conns'[d].status = "active"
             /\ conns'[d].token = req[q].set.token
             /\ conns'[d].webhook = req[q].webhook
             /\ conns'[d].polling = (req[q].webhook = Missing)
             /\ conns'[d].merchant \in {Missing, req[q].set.merchant}
             /\ IF d \in Rows THEN /\ conns'[d].workspace = conns[d].workspace
                                   /\ conns'[d].provider = conns[d].provider
                              ELSE TRUE
             /\ conns'[d].workspace = req[q].workspace
             /\ conns'[d].provider = req[q].provider
             /\ \A e \in Conns \ {d} : conns'[e] = conns[e]
             /\ DOMAIN conns' = Conns
<1>1. req[q] \in SaveReq /\ req[q].conn \in Rows
  BY ReqShape DEF ConnInv, FlowInv, Calling, Save
<1>2. DOMAIN conns = Conns /\ \A c \in Rows : conns[c] \in ConnRow
  BY DEF ConnInv, ConnTypeOK, Rows
<1>3. ASSUME NEW row \in ConnRow
      PROVE  /\ Connected(q, row) \in ConnRow
             /\ Connected(q, row).status = "active"
             /\ Connected(q, row).token = req[q].set.token
             /\ Connected(q, row).webhook = req[q].webhook
             /\ Connected(q, row).polling = (req[q].webhook = Missing)
             /\ Connected(q, row).merchant = row.merchant
             /\ Connected(q, row).workspace = row.workspace
             /\ Connected(q, row).provider = row.provider
  BY <1>1, <1>3 DEF Connected, ConnRow, SaveReq, TokenSet
<1>4. CASE req[q].set.merchant # Missing
  <2>1. UpsertByMerchant(q)
    BY <1>4 DEF Save
  <2>2. ASSUME NEW d \in SameAccount(q), conns' = [conns EXCEPT ![d] = Connected(q, @)]
        PROVE  conns'[d] = Connected(q, conns[d]) /\ (\A e \in Conns \ {d} : conns'[e] = conns[e])
               /\ DOMAIN conns' = Conns /\ d \in Rows /\ d \in Conns
    BY <1>2, <2>2 DEF SameAccount, Rows
  <2>3. CASE \E d \in SameAccount(q) : conns' = [conns EXCEPT ![d] = Connected(q, @)]
    <3>1. PICK d \in SameAccount(q) : conns' = [conns EXCEPT ![d] = Connected(q, @)]
      BY <2>3
    <3>2. conns[d] \in ConnRow /\ conns[d].workspace = req[q].workspace
          /\ conns[d].provider = req[q].provider /\ conns[d].merchant = req[q].set.merchant
      BY <1>2 DEF SameAccount
    <3> QED BY <1>3, <2>2, <3>1, <3>2
  <2>4. CASE \E d \in Conns \ Rows :
               conns' = [conns EXCEPT ![d] =
                           Connected(q, [NewRow(req[q].workspace, req[q].provider) EXCEPT
                                           !.merchant = req[q].set.merchant])]
    <3> DEFINE row == [NewRow(req[q].workspace, req[q].provider) EXCEPT !.merchant = req[q].set.merchant]
    <3>1. PICK d \in Conns \ Rows : conns' = [conns EXCEPT ![d] = Connected(q, row)]
      BY <2>4
    <3>2. row \in ConnRow /\ row.workspace = req[q].workspace /\ row.provider = req[q].provider
          /\ row.merchant = req[q].set.merchant
      BY <1>1 DEF NewRow, ConnRow, SaveReq, TokenSet
    <3> HIDE DEF row
    <3>3. conns'[d] = Connected(q, row) /\ (\A e \in Conns \ {d} : conns'[e] = conns[e])
          /\ DOMAIN conns' = Conns
      BY <1>2, <3>1
    <3> QED BY <1>3, <3>2, <3>3
  <2> QED BY <2>1, <2>3, <2>4 DEF UpsertByMerchant
<1>5. CASE req[q].set.merchant = Missing
  <2> DEFINE d == req[q].conn
             row == Connected(q, conns[d])
             y == [row EXCEPT !.merchant = Missing]
  <2>1. d \in Conns /\ conns[d] \in ConnRow
    BY <1>1, <1>2 DEF Rows
  <2>2. conns' = [conns EXCEPT ![d] = y]
    BY <1>5 DEF Save, Activate
  <2>3. row \in ConnRow
    BY <1>3, <2>1
  <2> HIDE DEF row
  <2>4. /\ y \in ConnRow
        /\ y.status = row.status /\ y.token = row.token /\ y.webhook = row.webhook
        /\ y.polling = row.polling /\ y.merchant = Missing
        /\ y.workspace = row.workspace /\ y.provider = row.provider
    BY <2>3 DEF ConnRow
  <2> HIDE DEF y
  <2>5. conns'[d] = y /\ (\A e \in Conns \ {d} : conns'[e] = conns[e]) /\ DOMAIN conns' = Conns
    BY <1>2, <2>1, <2>2
  <2>6. req[q].workspace = conns[d].workspace /\ req[q].provider = conns[d].provider
    BY DEF ConnInv, FlowInv, Calling, Save
  <2>7. /\ row.status = "active" /\ row.token = req[q].set.token /\ row.webhook = req[q].webhook
        /\ row.polling = (req[q].webhook = Missing)
        /\ row.workspace = conns[d].workspace /\ row.provider = conns[d].provider
    BY <1>3, <2>1 DEF row
  <2> QED BY <2>1, <2>4, <2>5, <2>6, <2>7
<1> QED BY <1>4, <1>5

LEMMA SaveInv == ASSUME ConnInv, NEW q \in Requests, Save(q) PROVE ConnInv'
<1> USE DEF provider
<1> DEFINE t == req[q].set.token
           f == req[q].conn
           x == [pc |-> "enqueue", conn |-> f]
<1>1. PICK d \in Conns :
             /\ conns'[d] \in ConnRow
             /\ conns'[d].status = "active"
             /\ conns'[d].token = t
             /\ conns'[d].webhook = req[q].webhook
             /\ conns'[d].polling = (req[q].webhook = Missing)
             /\ conns'[d].merchant \in {Missing, req[q].set.merchant}
             /\ IF d \in Rows THEN /\ conns'[d].workspace = conns[d].workspace
                                   /\ conns'[d].provider = conns[d].provider
                              ELSE TRUE
             /\ conns'[d].workspace = req[q].workspace
             /\ conns'[d].provider = req[q].provider
             /\ \A e \in Conns \ {d} : conns'[e] = conns[e]
             /\ DOMAIN conns' = Conns
  BY SaveEffect
<1>2. UNCHANGED <<granted, spent, revoked, hooks, cancelled, torn>> /\ req[q].pc = "save" /\ ReqBecomes(q, x)
  BY DEF Save
<1>3. req[q] \in SaveReq /\ f \in Rows /\ f \in Conns /\ t \in Tokens /\ t # Missing
  BY <1>2, ReqShape, ConnectAssumption DEF ConnInv, FlowInv, Calling, Rows, SaveReq, TokenSet
<1>4. req'[q] = x /\ (\A p \in Requests \ {q} : req'[p] = req[p]) /\ req' \in [Requests -> ConnReq]
      /\ x.pc = "enqueue"
  <2>1. x \in ConnReq
    BY <1>3 DEF ConnReq, EnqueueReq
  <2> QED BY <1>2, <2>1, ReqBecomesOne DEF ConnInv, ConnTypeOK
<1> HIDE DEF x
<1>5. Rows' = Rows \cup {d}
  BY <1>1, ConnectAssumption DEF Rows
<1>6. /\ granted[t] # Missing /\ granted[t].flow = f
      /\ req[q].set.merchant \in {Missing, Shop, granted[t].merchant}
      /\ t \notin revoked /\ (\A c \in Rows : conns[c].token # t)
      /\ (\A p \in Requests \ {q} : Carries(p) => req[p].set.token # t)
      /\ (\A p \in Requests : Ending(p) => req[p].token # t)
      /\ conns[f].workspace = req[q].workspace /\ conns[f].provider = req[q].provider
      /\ req[q].webhook \in {Missing, t} /\ (req[q].webhook # Missing => t \in hooks)
  BY <1>2 DEF ConnInv, CarryInv, Carries, FlowInv, Calling, HookInv
<1>7. \A c \in Rows : conns'[c].workspace = conns[c].workspace /\ conns'[c].provider = conns[c].provider
  BY <1>1 DEF Rows
<1>8. \A c \in Conns : Revoking(c) => Revoking(c)'
  BY <1>2, <1>4 DEF Revoking
<1>9. ConnTypeOK'
  BY <1>1, <1>2, <1>4, <1>5 DEF ConnInv, ConnTypeOK, Rows
<1>10. FlowInv' /\ HookInv'
  BY <1>2, <1>4, <1>5, <1>7 DEF ConnInv, FlowInv, HookInv, Calling
<1>11. GrantInv'
  BY <1>2, <1>5 DEF ConnInv, GrantInv
<1>12. \A p \in Requests : (Carries(p)' => p # q /\ Carries(p)) /\ (Ending(p)' => p # q /\ Ending(p))
  BY <1>4 DEF Carries, Ending
<1>13. \A c \in Rows' : c # d => c \in Rows /\ conns'[c] = conns[c]
  BY <1>1, <1>5 DEF Rows
<1>14. CarryInv'
  BY <1>1, <1>2, <1>4, <1>6, <1>12, <1>13 DEF ConnInv, CarryInv
<1>15. EndInv'
  BY <1>1, <1>2, <1>4, <1>5, <1>6, <1>12, <1>13 DEF ConnInv, EndInv, Ending
<1>16. RowInv'
  <2> SUFFICES ASSUME NEW c \in Rows', conns'[c].token # Missing PROVE Usable(c)'
    BY DEF RowInv
  <2>1. CASE c = d
    BY <1>1, <1>2, <1>3, <1>6, <1>7, <2>1 DEF Usable
  <2>2. CASE c # d
    <3>1. c \in Rows /\ c \in Conns /\ conns'[c] = conns[c] /\ Usable(c) /\ conns[c].token \in Tokens
      BY <1>13, <2>2 DEF ConnInv, RowInv, Rows, ConnTypeOK, ConnRow
    <3>2. granted[conns[c].token].flow \in Rows
      BY <3>1 DEF ConnInv, GrantInv, Usable
    <3> QED BY <1>2, <1>7, <1>8, <3>1, <3>2 DEF Usable
  <2> QED BY <2>1, <2>2
<1>17. ActiveInv'
  BY <1>1, <1>3, <1>13 DEF ConnInv, ActiveInv
<1>18. DistinctInv'
  BY <1>1, <1>3, <1>6, <1>13 DEF ConnInv, DistinctInv
<1>19. RevokedInv'
  BY <1>2 DEF ConnInv, RevokedInv
<1>20. CancelInv'
  BY <1>1, <1>2, <1>4, <1>5, <1>13 DEF ConnInv, CancelInv, CallingBack
<1> QED BY <1>9, <1>10, <1>11, <1>14, <1>15, <1>16, <1>17, <1>18, <1>19, <1>20 DEF ConnInv

-----------------------------------------------------------------------------
(* The theorems.                                                           *)

LEMMA ConnNextInv == ASSUME ConnInv, [Next]_vars PROVE ConnInv'
<1>1. CASE UNCHANGED connVars
  <2>1. UNCHANGED <<conns, req, provider, cancelled, torn>>
    BY <1>1 DEF connVars
  <2> QED
    BY <2>1 DEF provider, ConnInv, ConnTypeOK, FlowInv, GrantInv, CarryInv, HookInv, RowInv, ActiveInv,
       DistinctInv, EndInv, RevokedInv, CancelInv, Rows, Calling, Carries, Ending, Usable, Revoking,
       CallingBack
<1>2. CASE Connect
  <2>1. FlowStep
    BY <1>2 DEF Connect
  <2>2. CASE \E c \in Conns, w \in Workspaces, p \in Providers : StartConnect(c, w, p)
    BY <2>2, StartConnectInv
  <2>3. ASSUME NEW q \in Requests, NEW c \in Conns, BeginCallback(q, c) \/ BeginDisconnect(q, c)
        PROVE  ConnInv'
    BY <2>3, BeginCallbackInv, BeginDisconnectInv
  <2>4. ASSUME NEW q \in Requests,
               \/ Exchange(q) \/ SetError(q) \/ RegisterWebhook(q) \/ Save(q) \/ Enqueue(q)
               \/ RevokeToken(q) \/ Disconnect(q) \/ StopRequest(q)
        PROVE  ConnInv'
    BY <2>4, ExchangeInv, SetErrorInv, RegisterWebhookInv, SaveInv, EnqueueInv, RevokeTokenInv,
       DisconnectInv, StopRequestInv
  <2> QED BY <2>1, <2>2, <2>3, <2>4 DEF FlowStep
<1>3. CASE FetchPage
  <2>1. UNCHANGED <<conns, req, provider, cancelled, torn>>
    BY <1>3 DEF FetchPage, FetchStep, Fetch
  <2> QED
    BY <2>1 DEF provider, ConnInv, ConnTypeOK, FlowInv, GrantInv, CarryInv, HookInv, RowInv, ActiveInv,
       DistinctInv, EndInv, RevokedInv, CancelInv, Rows, Calling, Carries, Ending, Usable, Revoking,
       CallingBack
<1> QED
  BY <1>1, <1>2, <1>3 DEF Next, Verify, Appraise, Identify, vars

\* The inductive invariant holds in every state, whatever the requests do to each
\* other's rows and tokens.
THEOREM ConnectionsSound == Spec => []ConnInv
<1>1. Init => ConnInv
  BY ConnInitInv DEF Init
<1>2. ConnInv /\ [Next]_vars => ConnInv'
  BY ConnNextInv
<1> QED BY <1>1, <1>2, PTL DEF Spec

\* An active connection holds a token granted to its workspace by its provider, for
\* the merchant that it names, good unless a disconnection of it is past the
\* revocation, and is polled or has its own webhook.
THEOREM ActiveConnectionsUsable == Spec => []ActiveUsable
<1>1. ConnInv => ActiveUsable
  BY DEF ConnInv, ActiveInv, RowInv, Usable, ActiveUsable, ActiveConns
<1> QED BY <1>1, ConnectionsSound, PTL

\* What a flow that was disconnected before any callback was granted never becomes
\* the token of an active connection.
THEOREM CancelledFlowsConnectNothing == Spec => []CancelledConnectsNothing
<1>1. ConnInv => CancelledConnectsNothing
  <2> SUFFICES ASSUME ConnInv, NEW c \in ActiveConns PROVE granted[conns[c].token].flow \notin cancelled
    BY DEF CancelledConnectsNothing
  <2>1. c \in Rows /\ Usable(c) /\ conns[c].token \in Tokens
    BY DEF ActiveConns, ConnInv, ActiveInv, RowInv, Rows, ConnTypeOK, ConnRow
  <2>2. granted[conns[c].token].flow \in spent
    BY <2>1 DEF ConnInv, GrantInv, Usable
  <2> QED BY <2>2 DEF ConnInv, CancelInv
<1> QED BY <1>1, ConnectionsSound, PTL

-----------------------------------------------------------------------------
(* Prices: the types, and the inductive invariant behind the history.      *)

Market(p) == TcgMarketPrice(TcgPrices[p])
FetchState == [pc : {"fetch", "ask"}, printing : Printings, left : SUBSET Printings]
PricedState ==
    [pc : {"upsert", "snapshot"}, printing : Printings, left : SUBSET Printings, price : Amounts,
     source : {"tcgplayer", "pricecharting"}, at : Nat]

\* Each refresh is what its label says.
PricesTypeOK ==
    /\ refreshing \in [Refreshers -> {NoRefresh} \cup FetchState \cup PricedState]
    /\ DOMAIN valuations = Printings
    /\ shelf \in [Printings -> Shelves]
    /\ hour \in Nat

\* PriceCharting is asked for printings that TCGplayer has no price of, and a price
\* that TCGplayer has is the one that is written.
Backed(p, price, source) == Market(p) # NoPrice => source = "tcgplayer" /\ price = Market(p)
SourceInv ==
    /\ \A r \in Refreshers :
         LET s == refreshing[r] IN
         /\ s.pc = "ask" => Market(s.printing) = NoPrice
         /\ s.pc \in {"upsert", "snapshot"} => Backed(s.printing, s.price, s.source)
    /\ \A s \in snapshots : Backed(s.printing, s.price, s.source)

\* The price of a printing is in its history, or about to be written there by a
\* refresh that holds that very price, unless the last write of it was torn.
Behind(p) ==
    \/ valuations[p] = NoPrice
    \/ p \in unpaired
    \/ SnapshotOf(p) \in snapshots
    \/ \E r \in Refreshers :
         LET s == refreshing[r] IN
         /\ s.pc = "snapshot" /\ s.printing = p
         /\ s.price = valuations[p].price /\ s.source = valuations[p].source /\ s.at = valuations[p].at

HistoryInv == PricesTypeOK /\ SourceInv /\ \A p \in Printings : Behind(p)

\* The tier that comes first of those with a price is the one that counts.
LEMMA FirstTier ==
    ASSUME NEW prices, NEW n \in DOMAIN Tiers, prices[Tiers[n]] # NoPrice,
           \A k \in 1..(n - 1) : prices[Tiers[k]] = NoPrice
    PROVE  TcgMarketPrice(prices) = prices[Tiers[n]]
<1> DEFINE tier(k) == prices[Tiers[k]]
<1>1. DOMAIN Tiers = 1..4
  BY DEF Tiers
<1>2. Offered(prices) \subseteq 1..4 /\ n \in Offered(prices)
  BY <1>1 DEF Offered
<1>3. \A m \in Offered(prices) : n <= m
  BY <1>1 DEF Offered
<1>4. Min(Offered(prices)) = n
  BY <1>1, <1>2, <1>3 DEF Min
<1> QED BY <1>2, <1>4 DEF TcgMarketPrice

\* A refresh is what its label says.
LEMMA RefreshShape ==
    ASSUME PricesTypeOK, NEW r \in Refreshers
    PROVE  /\ refreshing[r].pc = "idle" => refreshing[r] = NoRefresh
           /\ refreshing[r].pc \in {"fetch", "ask"} => refreshing[r] \in FetchState
           /\ refreshing[r].pc \in {"upsert", "snapshot"} => refreshing[r] \in PricedState
  BY DEF PricesTypeOK, NoRefresh, FetchState, PricedState

LEMMA RefreshBecomesOne ==
    ASSUME PricesTypeOK, NEW r \in Refreshers, NEW x, RefreshBecomes(r, x),
           x \in {NoRefresh} \cup FetchState \cup PricedState
    PROVE  /\ refreshing'[r] = x
           /\ \A o \in Refreshers \ {r} : refreshing'[o] = refreshing[o]
           /\ refreshing' \in [Refreshers -> {NoRefresh} \cup FetchState \cup PricedState]
  BY DEF PricesTypeOK, RefreshBecomes

\* A batch goes on with the next printing, or ends.
LEMMA ContinuesEffect ==
    ASSUME PricesTypeOK, NEW r \in Refreshers, NEW failed, Continues(r, failed),
           refreshing[r].left \in SUBSET Printings
    PROVE  /\ refreshing'[r].pc \in {"idle", "fetch"}
           /\ \A o \in Refreshers \ {r} : refreshing'[o] = refreshing[o]
           /\ refreshing' \in [Refreshers -> {NoRefresh} \cup FetchState \cup PricedState]
<1>1. CASE refreshing[r].left = {}
  BY <1>1, RefreshBecomesOne DEF Continues, NoRefresh
<1>2. CASE refreshing[r].left # {}
  <2>1. PICK p \in refreshing[r].left :
               RefreshBecomes(r, [pc |-> "fetch", printing |-> p, left |-> refreshing[r].left \ {p}])
    BY <1>2 DEF Continues
  <2> DEFINE x == [pc |-> "fetch", printing |-> p, left |-> refreshing[r].left \ {p}]
  <2>2. x \in FetchState /\ x.pc = "fetch"
    BY DEF FetchState
  <2> HIDE DEF x
  <2>3. RefreshBecomes(r, x)
    BY <2>1 DEF x
  <2> QED BY <2>2, <2>3, RefreshBecomesOne
<1> QED BY <1>1, <1>2

\* A step that moves one refresh to a state of no price yet, or of a price that is
\* backed, and writes at most a point of the history, keeps the sources.
LEMMA SourceStep ==
    ASSUME HistoryInv, NEW r \in Refreshers,
           \A o \in Refreshers \ {r} : refreshing'[o] = refreshing[o],
           \/ refreshing'[r].pc \in {"idle", "fetch"}
           \/ refreshing'[r].pc = "ask" /\ Market(refreshing'[r].printing) = NoPrice
           \/ /\ refreshing'[r].pc \in {"upsert", "snapshot"}
              /\ Backed(refreshing'[r].printing, refreshing'[r].price, refreshing'[r].source),
           \A s \in snapshots' \ snapshots : Backed(s.printing, s.price, s.source)
    PROVE  SourceInv'
<1>1. ASSUME NEW o \in Refreshers
      PROVE  LET s == refreshing'[o] IN
             /\ s.pc = "ask" => Market(s.printing) = NoPrice
             /\ s.pc \in {"upsert", "snapshot"} => Backed(s.printing, s.price, s.source)
  <2>1. CASE o = r
    BY <2>1
  <2>2. CASE o # r
    BY <2>2 DEF HistoryInv, SourceInv
  <2> QED BY <2>1, <2>2
<1>2. \A s \in snapshots' : Backed(s.printing, s.price, s.source)
  BY DEF HistoryInv, SourceInv
<1> QED BY <1>1, <1>2 DEF SourceInv, Market, Backed

\* A step that leaves the prices alone, loses no point of the history and tears no
\* write but of what it was about to record.
LEMMA BehindStep ==
    ASSUME HistoryInv, NEW r \in Refreshers, UNCHANGED valuations, snapshots \subseteq snapshots',
           unpaired \subseteq unpaired',
           \A o \in Refreshers \ {r} : refreshing'[o] = refreshing[o],
           \/ refreshing[r].pc # "snapshot"
           \/ refreshing[r].printing \in unpaired'
           \/ [printing |-> refreshing[r].printing, price |-> refreshing[r].price,
               source |-> refreshing[r].source, at |-> refreshing[r].at] \in snapshots'
    PROVE  \A p \in Printings : Behind(p)'
<1> SUFFICES ASSUME NEW p \in Printings PROVE Behind(p)'
  OBVIOUS
<1>1. Behind(p)
  BY DEF HistoryInv
<1>2. SnapshotOf(p)' = SnapshotOf(p)
  BY DEF SnapshotOf
<1>3. CASE valuations[p] = NoPrice \/ p \in unpaired \/ SnapshotOf(p) \in snapshots
  BY <1>2, <1>3 DEF Behind
<1>4. ASSUME NEW o \in Refreshers, refreshing[o].pc = "snapshot", refreshing[o].printing = p,
             refreshing[o].price = valuations[p].price, refreshing[o].source = valuations[p].source,
             refreshing[o].at = valuations[p].at
      PROVE  Behind(p)'
  <2>1. CASE o = r
    BY <1>2, <1>4, <2>1 DEF Behind, SnapshotOf
  <2>2. CASE o # r
    BY <1>4, <2>2 DEF Behind
  <2> QED BY <2>1, <2>2
<1> QED BY <1>1, <1>3, <1>4 DEF Behind

-----------------------------------------------------------------------------
(* Prices: one lemma an action.                                            *)

LEMMA HistoryInit == ASSUME ValuationsInit PROVE HistoryInv
  BY DEF ValuationsInit, HistoryInv, PricesTypeOK, SourceInv, Behind, NoRefresh

LEMMA ResolvedEffect ==
    ASSUME HistoryInv, NEW r \in Refreshers, refreshing[r] \in FetchState,
           NEW amount \in Amounts, NEW source \in {"tcgplayer", "pricecharting"},
           Resolved(r, Price(amount, source))
    PROVE  /\ refreshing'[r].pc = "upsert"
           /\ refreshing'[r].printing = refreshing[r].printing
           /\ refreshing'[r].price = amount /\ refreshing'[r].source = source
           /\ \A o \in Refreshers \ {r} : refreshing'[o] = refreshing[o]
           /\ refreshing' \in [Refreshers -> {NoRefresh} \cup FetchState \cup PricedState]
<1> DEFINE x == [pc |-> "upsert", printing |-> refreshing[r].printing, left |-> refreshing[r].left,
                 price |-> amount, source |-> source, at |-> hour]
<1>1. x \in PricedState /\ x.pc = "upsert" /\ x.printing = refreshing[r].printing /\ x.price = amount
      /\ x.source = source
  BY DEF HistoryInv, PricesTypeOK, PricedState, FetchState
<1>2. RefreshBecomes(r, x)
  BY DEF Resolved, Price
<1> HIDE DEF x
<1> QED BY <1>1, <1>2, RefreshBecomesOne DEF HistoryInv

LEMMA FetchPrintingHistory ==
    ASSUME HistoryInv, NEW r \in Refreshers, FetchPrinting(r) PROVE HistoryInv'
<1> DEFINE p == refreshing[r].printing
<1>1. refreshing[r] \in FetchState /\ refreshing[r].pc = "fetch" /\ p \in Printings
      /\ refreshing[r].left \in SUBSET Printings
  BY RefreshShape DEF HistoryInv, FetchPrinting, FetchState
<1>2. UNCHANGED <<shelf, known, valuations, snapshots, nextTick, hour, outages, unpaired>>
  BY DEF FetchPrinting
<1>3. /\ \A o \in Refreshers \ {r} : refreshing'[o] = refreshing[o]
      /\ refreshing' \in [Refreshers -> {NoRefresh} \cup FetchState \cup PricedState]
      /\ \/ refreshing'[r].pc \in {"idle", "fetch"}
         \/ refreshing'[r].pc = "ask" /\ Market(refreshing'[r].printing) = NoPrice
         \/ /\ refreshing'[r].pc \in {"upsert", "snapshot"}
            /\ Backed(refreshing'[r].printing, refreshing'[r].price, refreshing'[r].source)
  <2>1. CASE Continues(r, FALSE)
    BY <1>1, <2>1, ContinuesEffect DEF HistoryInv
  <2>2. CASE Market(p) # NoPrice /\ Resolved(r, Price(Market(p), "tcgplayer"))
    <3>1. Market(p) \in Amounts
      BY <1>1 DEF Amounts, Market
    <3>2. /\ refreshing'[r].pc = "upsert" /\ refreshing'[r].printing = p
          /\ refreshing'[r].price = Market(p) /\ refreshing'[r].source = "tcgplayer"
          /\ \A o \in Refreshers \ {r} : refreshing'[o] = refreshing[o]
          /\ refreshing' \in [Refreshers -> {NoRefresh} \cup FetchState \cup PricedState]
      BY <1>1, <2>2, <3>1, ResolvedEffect
    <3> QED BY <3>2 DEF Backed
  <2>3. CASE Market(p) = NoPrice /\ RefreshBecomes(r, [refreshing[r] EXCEPT !.pc = "ask"])
    <3> DEFINE x == [refreshing[r] EXCEPT !.pc = "ask"]
    <3>1. x \in FetchState /\ x.pc = "ask" /\ x.printing = p
      BY <1>1 DEF FetchState
    <3> HIDE DEF x
    <3>2. refreshing'[r] = x /\ (\A o \in Refreshers \ {r} : refreshing'[o] = refreshing[o])
          /\ refreshing' \in [Refreshers -> {NoRefresh} \cup FetchState \cup PricedState]
      BY <2>3, <3>1, RefreshBecomesOne DEF HistoryInv, x
    <3> QED BY <2>3, <3>1, <3>2
  <2> QED BY <2>1, <2>2, <2>3 DEF FetchPrinting, Market
<1>4. SourceInv'
  BY <1>2, <1>3, SourceStep
<1>5. \A i \in Printings : Behind(i)'
  BY <1>1, <1>2, <1>3, BehindStep
<1> QED BY <1>2, <1>3, <1>4, <1>5 DEF HistoryInv, PricesTypeOK

LEMMA AskPriceChartingHistory ==
    ASSUME HistoryInv, NEW r \in Refreshers, AskPriceCharting(r) PROVE HistoryInv'
<1> DEFINE p == refreshing[r].printing
           amount == RawPrice(shelf[p])
<1>1. refreshing[r] \in FetchState /\ refreshing[r].pc = "ask" /\ p \in Printings
      /\ refreshing[r].left \in SUBSET Printings /\ Market(p) = NoPrice /\ amount \in Amounts
  BY RefreshShape DEF HistoryInv, SourceInv, AskPriceCharting, FetchState, PricesTypeOK, Amounts
<1>2. UNCHANGED <<shelf, known, valuations, snapshots, nextTick, hour, unpaired>>
  BY DEF AskPriceCharting
<1>3. /\ \A o \in Refreshers \ {r} : refreshing'[o] = refreshing[o]
      /\ refreshing' \in [Refreshers -> {NoRefresh} \cup FetchState \cup PricedState]
      /\ \/ refreshing'[r].pc \in {"idle", "fetch"}
         \/ /\ refreshing'[r].pc \in {"upsert", "snapshot"}
            /\ Backed(refreshing'[r].printing, refreshing'[r].price, refreshing'[r].source)
  <2>1. CASE Continues(r, FALSE)
    BY <1>1, <2>1, ContinuesEffect DEF HistoryInv
  <2>2. CASE Resolved(r, Price(amount, "pricecharting"))
    <3>1. /\ refreshing'[r].pc = "upsert" /\ refreshing'[r].printing = p
          /\ \A o \in Refreshers \ {r} : refreshing'[o] = refreshing[o]
          /\ refreshing' \in [Refreshers -> {NoRefresh} \cup FetchState \cup PricedState]
      BY <1>1, <2>2, ResolvedEffect
    <3> QED BY <1>1, <3>1 DEF Backed
  <2> QED BY <2>1, <2>2 DEF AskPriceCharting
<1>4. SourceInv'
  BY <1>2, <1>3, SourceStep
<1>5. \A i \in Printings : Behind(i)'
  BY <1>1, <1>2, <1>3, BehindStep
<1> QED BY <1>2, <1>3, <1>4, <1>5 DEF HistoryInv, PricesTypeOK

LEMMA UpsertValuationHistory ==
    ASSUME HistoryInv, NEW r \in Refreshers, UpsertValuation(r) PROVE HistoryInv'
<1> DEFINE s == refreshing[r]
           p == s.printing
           x == [s EXCEPT !.pc = "snapshot"]
<1>1. s \in PricedState /\ s.pc = "upsert" /\ p \in Printings
  BY RefreshShape DEF HistoryInv, UpsertValuation, PricedState
<1>2. UNCHANGED <<shelf, known, snapshots, nextTick, hour>> /\ unpaired' = unpaired \ {p}
      /\ valuations' = [valuations EXCEPT ![p] = [price |-> s.price, source |-> s.source, at |-> s.at]]
      /\ RefreshBecomes(r, x)
  BY DEF UpsertValuation
<1>3. x \in PricedState /\ x.pc = "snapshot" /\ x.printing = p /\ x.price = s.price /\ x.source = s.source
      /\ x.at = s.at
  BY <1>1 DEF PricedState
<1> HIDE DEF x
<1>4. refreshing'[r] = x /\ (\A o \in Refreshers \ {r} : refreshing'[o] = refreshing[o])
      /\ refreshing' \in [Refreshers -> {NoRefresh} \cup FetchState \cup PricedState]
  BY <1>2, <1>3, RefreshBecomesOne DEF HistoryInv
<1>5. Backed(p, s.price, s.source)
  BY <1>1 DEF HistoryInv, SourceInv
<1>6. SourceInv'
  BY <1>2, <1>3, <1>4, <1>5, SourceStep
<1>7. valuations'[p] = [price |-> s.price, source |-> s.source, at |-> s.at]
      /\ DOMAIN valuations' = Printings
      /\ \A i \in Printings \ {p} : valuations'[i] = valuations[i]
  BY <1>1, <1>2 DEF HistoryInv, PricesTypeOK
<1>8. ASSUME NEW i \in Printings PROVE Behind(i)'
  <2>1. CASE i = p
    BY <1>3, <1>4, <1>7, <2>1 DEF Behind
  <2>2. CASE i # p
    <3>1. Behind(i) /\ valuations'[i] = valuations[i] /\ SnapshotOf(i)' = SnapshotOf(i)
          /\ (i \in unpaired => i \in unpaired')
      BY <1>2, <1>7, <2>2 DEF HistoryInv, SnapshotOf
    <3>2. CASE valuations[i] = NoPrice \/ i \in unpaired \/ SnapshotOf(i) \in snapshots
      BY <1>2, <3>1, <3>2 DEF Behind
    <3>3. ASSUME NEW o \in Refreshers, refreshing[o].pc = "snapshot", refreshing[o].printing = i,
                 refreshing[o].price = valuations[i].price, refreshing[o].source = valuations[i].source,
                 refreshing[o].at = valuations[i].at
          PROVE  Behind(i)'
      <4>1. o # r
        BY <1>1, <3>3
      <4> QED BY <1>4, <3>1, <3>3, <4>1 DEF Behind
    <3> QED BY <3>1, <3>2, <3>3 DEF Behind
  <2> QED BY <2>1, <2>2
<1> QED BY <1>2, <1>4, <1>6, <1>7, <1>8 DEF HistoryInv, PricesTypeOK

LEMMA InsertSnapshotHistory ==
    ASSUME HistoryInv, NEW r \in Refreshers, InsertSnapshot(r) PROVE HistoryInv'
<1> DEFINE s == refreshing[r]
           point == [printing |-> s.printing, price |-> s.price, source |-> s.source, at |-> s.at]
<1>1. s \in PricedState /\ s.pc = "snapshot" /\ s.left \in SUBSET Printings
  BY RefreshShape DEF HistoryInv, InsertSnapshot, PricedState
<1>2. UNCHANGED <<shelf, known, valuations, nextTick, hour, outages, unpaired>>
      /\ snapshots' = snapshots \cup {point} /\ Continues(r, FALSE)
  BY DEF InsertSnapshot
<1>3. /\ refreshing'[r].pc \in {"idle", "fetch"}
      /\ \A o \in Refreshers \ {r} : refreshing'[o] = refreshing[o]
      /\ refreshing' \in [Refreshers -> {NoRefresh} \cup FetchState \cup PricedState]
  BY <1>1, <1>2, ContinuesEffect DEF HistoryInv
<1>4. Backed(point.printing, point.price, point.source)
  BY <1>1 DEF HistoryInv, SourceInv
<1>5. SourceInv'
  BY <1>2, <1>3, <1>4, SourceStep
<1>6. \A i \in Printings : Behind(i)'
  BY <1>2, <1>3, BehindStep
<1> QED BY <1>2, <1>3, <1>5, <1>6 DEF HistoryInv, PricesTypeOK

LEMMA RefreshFailsHistory ==
    ASSUME HistoryInv, NEW r \in Refreshers, RefreshFails(r) PROVE HistoryInv'
<1>1. refreshing[r].left \in SUBSET Printings
  BY RefreshShape DEF HistoryInv, RefreshFails, FetchState, PricedState
<1>2. UNCHANGED <<shelf, known, valuations, snapshots, nextTick, hour>> /\ Continues(r, TRUE)
      /\ unpaired \subseteq unpaired'
      /\ (refreshing[r].pc = "snapshot" => refreshing[r].printing \in unpaired')
  BY DEF RefreshFails
<1>3. /\ refreshing'[r].pc \in {"idle", "fetch"}
      /\ \A o \in Refreshers \ {r} : refreshing'[o] = refreshing[o]
      /\ refreshing' \in [Refreshers -> {NoRefresh} \cup FetchState \cup PricedState]
  BY <1>1, <1>2, ContinuesEffect DEF HistoryInv
<1>4. SourceInv'
  BY <1>2, <1>3, SourceStep
<1>5. \A i \in Printings : Behind(i)'
  BY <1>2, <1>3, BehindStep
<1> QED BY <1>2, <1>3, <1>4, <1>5 DEF HistoryInv, PricesTypeOK

\* A refresh, or a batch, begins with a printing to fetch.
LEMMA BeginRefreshHistory ==
    ASSUME HistoryInv, NEW r \in Refreshers, refreshing[r] = NoRefresh,
           UNCHANGED <<shelf, valuations, snapshots, hour, unpaired>>,
           \/ \E p \in Printings, rest \in SUBSET Printings :
                RefreshBecomes(r, [pc |-> "fetch", printing |-> p, left |-> rest])
           \/ UNCHANGED refreshing
    PROVE  HistoryInv'
<1>1. CASE UNCHANGED refreshing
  BY <1>1 DEF HistoryInv, PricesTypeOK, SourceInv, Behind, SnapshotOf
<1>2. ASSUME NEW p \in Printings, NEW rest \in SUBSET Printings,
             RefreshBecomes(r, [pc |-> "fetch", printing |-> p, left |-> rest])
      PROVE  HistoryInv'
  <2> DEFINE x == [pc |-> "fetch", printing |-> p, left |-> rest]
  <2>1. x \in FetchState /\ x.pc = "fetch"
    BY DEF FetchState
  <2> HIDE DEF x
  <2>2. refreshing'[r] = x /\ (\A o \in Refreshers \ {r} : refreshing'[o] = refreshing[o])
        /\ refreshing' \in [Refreshers -> {NoRefresh} \cup FetchState \cup PricedState]
    BY <1>2, <2>1, RefreshBecomesOne DEF HistoryInv, x
  <2>3. SourceInv'
    BY <2>1, <2>2, SourceStep
  <2>4. \A i \in Printings : Behind(i)'
    <3>1. refreshing[r].pc # "snapshot" /\ snapshots \subseteq snapshots' /\ unpaired \subseteq unpaired'
      BY DEF NoRefresh
    <3> QED BY <2>2, <3>1, BehindStep
  <2>5. PricesTypeOK'
    BY <2>2 DEF HistoryInv, PricesTypeOK
  <2> QED BY <2>3, <2>4, <2>5 DEF HistoryInv
<1> QED BY <1>1, <1>2

LEMMA RestartSchedulerHistory == ASSUME HistoryInv, RestartScheduler PROVE HistoryInv'
<1>1. /\ UNCHANGED <<shelf, known, valuations, snapshots, hour, outages>>
      /\ \A r \in Refreshers : refreshing'[r] = NoRefresh
      /\ refreshing' \in [Refreshers -> {NoRefresh} \cup FetchState \cup PricedState]
  BY DEF RestartScheduler
<1>2. unpaired \subseteq unpaired'
      /\ \A r \in Refreshers : refreshing[r].pc = "snapshot" => refreshing[r].printing \in unpaired'
  BY DEF RestartScheduler
<1>3. SourceInv'
  BY <1>1 DEF HistoryInv, SourceInv, NoRefresh
<1>4. \A p \in Printings : Behind(p)'
  BY <1>1, <1>2 DEF HistoryInv, Behind, SnapshotOf
<1>5. PricesTypeOK'
  <2>1. PricesTypeOK
    BY DEF HistoryInv
  <2> QED BY <1>1, <2>1 DEF PricesTypeOK
<1> QED BY <1>3, <1>4, <1>5 DEF HistoryInv

LEMMA HistoryNext == ASSUME HistoryInv, [Next]_vars PROVE HistoryInv'
<1>1. CASE UNCHANGED valuationVars
  BY <1>1 DEF valuationVars, HistoryInv, PricesTypeOK, SourceInv, Behind, SnapshotOf
<1>2. CASE ValuationsStep
  <2>1. ASSUME NEW r \in Refreshers,
               \/ FetchPrinting(r) \/ AskPriceCharting(r) \/ UpsertValuation(r)
               \/ InsertSnapshot(r) \/ RefreshFails(r)
        PROVE  HistoryInv'
    BY <2>1, FetchPrintingHistory, AskPriceChartingHistory, UpsertValuationHistory,
       InsertSnapshotHistory, RefreshFailsHistory
  <2>2. ASSUME NEW r \in Refreshers, NEW answered \in BOOLEAN, RefreshAll(r, answered)
        PROVE  \/ UNCHANGED refreshing
               \/ \E p \in Printings, rest \in SUBSET Printings :
                    RefreshBecomes(r, [pc |-> "fetch", printing |-> p, left |-> rest])
    <3> DEFINE ids == IF answered THEN StaleOrPending ELSE {}
    <3>1. CASE ids = {}
      BY <2>2, <3>1 DEF RefreshAll
    <3>2. CASE ids # {}
      <4>1. PICK p \in ids : RefreshBecomes(r, [pc |-> "fetch", printing |-> p, left |-> ids \ {p}])
        BY <2>2, <3>2 DEF RefreshAll
      <4>2. p \in Printings /\ ids \ {p} \in SUBSET Printings
        BY DEF StaleOrPending
      <4> QED BY <4>1, <4>2
    <3> QED BY <3>1, <3>2
  <2>3. ASSUME NEW r \in OnDemand, TriggerRefresh(r) PROVE HistoryInv'
    <3>1. r \in Refreshers /\ refreshing[r] = NoRefresh
          /\ UNCHANGED <<shelf, valuations, snapshots, hour, unpaired>>
      BY <2>3 DEF TriggerRefresh, Refreshers
    <3>2. \/ UNCHANGED refreshing
          \/ \E p \in Printings, rest \in SUBSET Printings :
               RefreshBecomes(r, [pc |-> "fetch", printing |-> p, left |-> rest])
      BY <2>2, <2>3, <3>1 DEF TriggerRefresh
    <3> QED BY <3>1, <3>2, BeginRefreshHistory
  <2>4. CASE TickScheduler
    <3>1. Daily \in Refreshers /\ refreshing[Daily] = NoRefresh
          /\ UNCHANGED <<shelf, valuations, snapshots, hour, unpaired>>
          /\ \E answered \in BOOLEAN : RefreshAll(Daily, answered)
      BY <2>4 DEF TickScheduler, Refreshers
    <3> QED BY <2>2, <3>1, BeginRefreshHistory
  <2>5. CASE RestartScheduler
    BY <2>5, RestartSchedulerHistory
  <2>6. CASE HourPasses
    BY <2>6 DEF HourPasses, HistoryInv, PricesTypeOK, SourceInv, Behind, SnapshotOf
  <2>7. ASSUME NEW p \in Printings, AppearPrinting(p) PROVE HistoryInv'
    BY <2>7 DEF AppearPrinting, HistoryInv, PricesTypeOK, SourceInv, Behind, SnapshotOf
  <2>8. ASSUME NEW p \in Printings, NEW products \in Shelves, ShelfChanges(p, products) PROVE HistoryInv'
    BY <2>8 DEF ShelfChanges, HistoryInv, PricesTypeOK, SourceInv, Behind, SnapshotOf
  <2> QED BY <1>2, <2>1, <2>3, <2>4, <2>5, <2>6, <2>7, <2>8 DEF ValuationsStep
<1> QED BY <1>1, <1>2 DEF Next, Verify, Appraise, Identify, Connect, FetchPage, vars

\* The inductive invariant of the prices holds in every state.
LEMMA PricesBacked == Spec => []HistoryInv
<1>1. Init => HistoryInv
  BY HistoryInit DEF Init
<1> QED BY <1>1, HistoryNext, PTL DEF Spec

\* The price shown for a printing is a point of its history, unless the refresh that
\* wrote it is not there yet or was cut short, whatever refreshes overtake each
\* other; and no point of the history is a price of PriceCharting, or of a lesser
\* tier, for a printing that has a better one (refresh, resolve_price).
THEOREM HistoryRecordsPrices == Spec => []HistoryBehindPrice
<1>1. HistoryInv => HistoryBehindPrice
  <2> SUFFICES ASSUME HistoryInv PROVE HistoryBehindPrice
    OBVIOUS
  <2>1. ASSUME NEW p \in Printings
        PROVE  \/ valuations[p] = NoPrice \/ p \in unpaired
               \/ \E r \in Refreshers : refreshing[r].pc = "snapshot" /\ refreshing[r].printing = p
               \/ SnapshotOf(p) \in snapshots
    BY DEF HistoryInv, Behind
  <2>2. ASSUME NEW s \in snapshots, NEW n \in DOMAIN Tiers,
               TcgPrices[s.printing][Tiers[n]] # NoPrice,
               \A k \in 1..(n - 1) : TcgPrices[s.printing][Tiers[k]] = NoPrice
        PROVE  s.source = "tcgplayer" /\ s.price = TcgPrices[s.printing][Tiers[n]]
    <3>1. Market(s.printing) = TcgPrices[s.printing][Tiers[n]]
      BY <2>2, FirstTier DEF Market
    <3> QED BY <2>2, <3>1 DEF HistoryInv, SourceInv, Backed
  <2> QED BY <2>1, <2>2 DEF HistoryBehindPrice
<1> QED BY <1>1, PricesBacked, PTL

-----------------------------------------------------------------------------
(* Lookups of certificates: what is left to be written after an answer.    *)

Todos ==
    {<<>>, <<"status">>, <<"flag">>, <<"mismatch">>, <<"status", "flag">>, <<"status", "mismatch">>,
     <<"flag", "mismatch">>, <<"status", "flag", "mismatch">>}
Has(todo, write) == \E n \in DOMAIN todo : todo[n] = write

-----------------------------------------------------------------------------
(* Lookups: the types, and the inductive invariant behind the answers.     *)

Statuses == {"unverified", "verified", "mismatch"}
AnswerSet == Names \cup {None, "not_found", "unavailable"}
LookupState ==
    [pc : {"ask", "store", "write"}, instance : Instances \cup {None}, cert : Certs,
     claimed : Names \cup {None}, answer : AnswerSet, todo : Todos, begun : Nat]

GradingTypeOK ==
    /\ registry \in [Certs -> Names \cup {None}]
    /\ verifications \in SUBSET [cert : Certs, answer : AnswerSet, at : Nat]
    /\ verification \in [Instances -> Statuses]
    /\ lookups \in [Lookups -> {NoLookup} \cup LookupState]
    /\ minute \in Nat
    /\ \A t \in truths : t.at \in Nat
    /\ spells \in [Instances -> [before : Statuses, given : SUBSET Statuses, cut : BOOLEAN]]

\* What is left to write goes with the answer.
TodoOK(l) ==
    /\ Has(l.todo, "status") => /\ l.instance # None /\ l.answer # "unavailable"
                                /\ Contradicts(l, l.answer) => Has(l.todo, "mismatch")
    /\ Has(l.todo, "flag") => l.answer = "not_found"
    /\ Has(l.todo, "mismatch") => l.instance # None /\ Contradicts(l, l.answer)
TodoInv == \A q \in Lookups : lookups[q].pc = "write" => TodoOK(lookups[q])

\* The grader gives, gave or would have given an answer.
Given(cert, answer, from) ==
    \E t \in truths : t.cert = cert /\ t.answer = answer /\ from <= t.at
FreshInv ==
    /\ \A c \in Certs : Truth(c, registry[c], minute) \in truths
    /\ \A v \in verifications : v.answer # "unavailable" => Given(v.cert, v.answer, v.at)
    /\ \A q \in Lookups :
         LET l == lookups[q] IN
         /\ l.pc # "idle" => l.begun <= minute
         /\ l.pc = "store" /\ l.answer # "unavailable" => Given(l.cert, l.answer, minute)
         /\ l.pc = "write" /\ l.answer # "unavailable" =>
              \E t \in truths : t.cert = l.cert /\ t.answer = l.answer /\ t.at + CacheTtl > l.begun
    /\ \A f \in counterfeits : \E t \in truths : t.cert = f.cert /\ t.answer = "not_found"

\* A lookup that has written the status of its instance, and one whose verdict is
\* the status or about to become it.
WroteBy(l, i) ==
    /\ l.pc = "write" /\ l.instance = i
    /\ l.answer # "unavailable" /\ ~Has(l.todo, "status")
OwesBy(l, i, status) == WroteBy(l, i) /\ (Has(l.todo, "mismatch") \/ status = Verdict(l))

\* The status of an instance was answered, or no lookup has touched it, or one that
\* is in progress answers for it.
Settled(i) ==
    \/ verification[i] \in spells[i].given
    \/ /\ spells[i].given = {} /\ verification[i] = spells[i].before
       /\ \A q \in Lookups : ~WroteBy(lookups[q], i)
    \/ \E q \in Lookups : OwesBy(lookups[q], i, verification[i])

\* A card whose certificate was not found is flagged, or about to be.
Flagged(i) == \E f \in counterfeits : f.instance = i
Accuses(l, i) == l.pc = "write" /\ l.instance = i /\ l.answer = "not_found"
FlagsKept(i) ==
    /\ "unverified" \in spells[i].given => Flagged(i)
    /\ \A q \in Lookups : Accuses(lookups[q], i) => Has(lookups[q].todo, "flag") \/ Flagged(i)

VerdictInv == \A i \in Instances : ~spells[i].cut => Settled(i) /\ FlagsKept(i)

GradingInv == GradingTypeOK /\ TodoInv /\ FreshInv /\ VerdictInv

-----------------------------------------------------------------------------
(* Lookups: lemmas about what is left to write.                            *)

\* What is left after a write is what was left but for that.
LEMMA TodoTail ==
    ASSUME NEW todo \in Todos, todo # <<>>
    PROVE  /\ Tail(todo) \in Todos
           /\ Head(todo) \in {"status", "flag", "mismatch"}
           /\ Has(todo, Head(todo)) /\ (Has(todo, "status") => Head(todo) = "status")
           /\ \A w \in {"status", "flag", "mismatch"} : Has(Tail(todo), w) <=> Has(todo, w) /\ w # Head(todo)
<1>1. \A a : Tail(<<a>>) = <<>> /\ Head(<<a>>) = a
  OBVIOUS
<1>2. \A a, b : Tail(<<a, b>>) = <<b>> /\ Head(<<a, b>>) = a
  OBVIOUS
<1>3. \A a, b, c : Tail(<<a, b, c>>) = <<b, c>> /\ Head(<<a, b, c>>) = a
  OBVIOUS
<1>4. \A w : ~Has(<<>>, w)
  BY DEF Has
<1>5. \A a, w : Has(<<a>>, w) <=> w = a
  BY DEF Has
<1>6. \A a, b, w : Has(<<a, b>>, w) <=> w = a \/ w = b
  BY DEF Has
<1>7. \A a, b, c, w : Has(<<a, b, c>>, w) <=> w = a \/ w = b \/ w = c
  BY DEF Has
<1>8. ASSUME NEW a \in {"status", "flag", "mismatch"}, todo = <<a>>
      PROVE  /\ Tail(todo) = <<>> /\ Head(todo) = a /\ Tail(todo) \in Todos
             /\ \A w : Has(todo, w) <=> w = a
  BY <1>1, <1>5, <1>8 DEF Todos
<1>9. CASE todo = <<"status", "flag">>
  BY <1>2, <1>5, <1>6, <1>9 DEF Todos
<1>10. CASE todo = <<"status", "mismatch">>
  BY <1>2, <1>5, <1>6, <1>10 DEF Todos
<1>11. CASE todo = <<"flag", "mismatch">>
  BY <1>2, <1>5, <1>6, <1>11 DEF Todos
<1>12. CASE todo = <<"status", "flag", "mismatch">>
  BY <1>3, <1>6, <1>7, <1>12 DEF Todos
<1> QED BY <1>4, <1>8, <1>9, <1>10, <1>11, <1>12 DEF Todos

LEMMA SameSequence ==
    ASSUME NEW S, NEW s \in Seq(S), NEW t \in Seq(S), Len(s) = Len(t), \A n \in 1..Len(s) : s[n] = t[n]
    PROVE  s = t
  OBVIOUS

LEMMA PairConcat == ASSUME NEW S, NEW a \in S, NEW b \in S PROVE <<a>> \o <<b>> = <<a, b>>
<1> DEFINE s == <<a>> \o <<b>>
           t == <<a, b>>
<1>1. /\ s \in Seq(S) /\ t \in Seq(S)
      /\ Len(s) = 2 /\ Len(t) = 2
      /\ s[1] = a /\ s[2] = b
      /\ t[1] = a /\ t[2] = b
  OBVIOUS
<1> HIDE DEF s, t
<1>2. s = t
  BY <1>1, SameSequence
<1> QED BY <1>2 DEF s, t

LEMMA TripleConcat ==
    ASSUME NEW S, NEW a \in S, NEW b \in S, NEW c \in S PROVE <<a, b>> \o <<c>> = <<a, b, c>>
<1> DEFINE s == <<a, b>> \o <<c>>
           t == <<a, b, c>>
<1>1. /\ s \in Seq(S) /\ t \in Seq(S)
      /\ Len(s) = 3 /\ Len(t) = 3
      /\ s[1] = a /\ s[2] = b /\ s[3] = c
      /\ t[1] = a /\ t[2] = b /\ t[3] = c
  OBVIOUS
<1> HIDE DEF s, t
<1>2. s = t
  BY <1>1, SameSequence
<1> QED BY <1>2 DEF s, t

\* A concatenation has what its parts have.
LEMMA HasConcat ==
    ASSUME NEW S, NEW s \in Seq(S), NEW t \in Seq(S), NEW w
    PROVE  Has(s \o t, w) <=> Has(s, w) \/ Has(t, w)
<1>1. ASSUME Has(s, w) PROVE Has(s \o t, w)
  BY <1>1 DEF Has
<1>2. ASSUME Has(t, w) PROVE Has(s \o t, w)
  <2>1. PICK n \in DOMAIN t : t[n] = w
    BY <1>2 DEF Has
  <2>2. Len(s) + n \in DOMAIN (s \o t) /\ (s \o t)[Len(s) + n] = w
    BY <2>1
  <2> QED BY <2>2 DEF Has
<1>3. ASSUME Has(s \o t, w) PROVE Has(s, w) \/ Has(t, w)
  <2>1. PICK n \in DOMAIN (s \o t) : (s \o t)[n] = w
    BY <1>3 DEF Has
  <2>2. CASE n <= Len(s)
    BY <2>1, <2>2 DEF Has
  <2>3. CASE n > Len(s)
    <3>1. n - Len(s) \in DOMAIN t /\ t[n - Len(s)] = w
      BY <2>1, <2>3
    <3> QED BY <3>1 DEF Has
  <2> QED BY <2>1, <2>2, <2>3
<1> QED BY <1>1, <1>2, <1>3

\* Some of the three writes, in their order.
LEMMA InOrder ==
    ASSUME NEW x \in {<<>>, <<"status">>}, NEW y \in {<<>>, <<"flag">>}, NEW z \in {<<>>, <<"mismatch">>}
    PROVE  (x \o y) \o z \in Todos
<1> DEFINE S == {"status", "flag", "mismatch"}
           xy == x \o y
<1>1. "status" \in S /\ "flag" \in S /\ "mismatch" \in S
  OBVIOUS
<1> HIDE DEF S
<1>2. xy \in {<<>>, <<"status">>, <<"flag">>, <<"status", "flag">>}
  <2>1. CASE x = <<>>
    BY <2>1
  <2>2. CASE y = <<>>
    BY <2>2
  <2>3. CASE x = <<"status">> /\ y = <<"flag">>
    <3>1. x \o y = <<"status", "flag">>
      BY <1>1, <2>3, PairConcat, Zenon
    <3> QED BY <3>1
  <2> QED BY <2>1, <2>2, <2>3
<1> HIDE DEF xy
<1>3. CASE z = <<>>
  <2>1. xy \o z = xy
    BY <1>2, <1>3
  <2> QED BY <1>2, <2>1 DEF Todos, xy
<1>4. CASE z = <<"mismatch">>
  <2>1. CASE xy = <<>>
    <3>1. xy \o z = <<"mismatch">>
      BY <1>4, <2>1
    <3> QED BY <3>1 DEF Todos, xy
  <2>2. CASE xy = <<"status">>
    <3>1. xy \o z = <<"status", "mismatch">>
      BY <1>1, <1>4, <2>2, PairConcat, Zenon
    <3> QED BY <3>1 DEF Todos, xy
  <2>3. CASE xy = <<"flag">>
    <3>1. xy \o z = <<"flag", "mismatch">>
      BY <1>1, <1>4, <2>3, PairConcat, Zenon
    <3> QED BY <3>1 DEF Todos, xy
  <2>4. CASE xy = <<"status", "flag">>
    <3>1. xy \o z = <<"status", "flag", "mismatch">>
      BY <1>1, <1>4, <2>4, TripleConcat, Zenon
    <3> QED BY <3>1 DEF Todos, xy
  <2> QED BY <1>2, <2>1, <2>2, <2>3, <2>4
<1> QED BY <1>3, <1>4

\* The writes that an answer calls for.
LEMMA WritesAre ==
    ASSUME NEW l, NEW answer
    PROVE  /\ Writes(l, answer) \in Todos
           /\ Has(Writes(l, answer), "status") <=> l.instance # None /\ answer # "unavailable"
           /\ Has(Writes(l, answer), "flag") <=> answer = "not_found"
           /\ Has(Writes(l, answer), "mismatch") <=> l.instance # None /\ Contradicts(l, answer)
<1> DEFINE x == IF l.instance # None /\ answer # "unavailable" THEN <<"status">> ELSE <<>>
           y == IF answer = "not_found" THEN <<"flag">> ELSE <<>>
           z == IF l.instance # None /\ Contradicts(l, answer) THEN <<"mismatch">> ELSE <<>>
           S == {"status", "flag", "mismatch"}
<1>1. Writes(l, answer) = (x \o y) \o z
  BY DEF Writes
<1>2. x \in {<<>>, <<"status">>} /\ y \in {<<>>, <<"flag">>} /\ z \in {<<>>, <<"mismatch">>}
  OBVIOUS
<1>3. /\ \A w : ~Has(<<>>, w)
      /\ \A a, w : Has(<<a>>, w) <=> w = a
  BY DEF Has
<1>4. /\ \A w : Has(x, w) <=> w = "status" /\ l.instance # None /\ answer # "unavailable"
      /\ \A w : Has(y, w) <=> w = "flag" /\ answer = "not_found"
      /\ \A w : Has(z, w) <=> w = "mismatch" /\ l.instance # None /\ Contradicts(l, answer)
  BY <1>3
<1> HIDE DEF x, y, z
<1>5. x \in Seq(S) /\ y \in Seq(S) /\ z \in Seq(S) /\ x \o y \in Seq(S)
  <2>1. "status" \in S /\ "flag" \in S /\ "mismatch" \in S
    OBVIOUS
  <2> HIDE DEF S
  <2>2. <<>> \in Seq(S) /\ \A a \in S : <<a>> \in Seq(S)
    OBVIOUS
  <2>3. x \in Seq(S) /\ y \in Seq(S) /\ z \in Seq(S)
    BY <1>2, <2>1, <2>2
  <2> QED BY <2>3
<1> HIDE DEF S
<1>6. ASSUME NEW w PROVE Has(Writes(l, answer), w) <=> Has(x, w) \/ Has(y, w) \/ Has(z, w)
  <2>1. Has(x \o y, w) <=> Has(x, w) \/ Has(y, w)
    BY <1>5, HasConcat
  <2>2. Has((x \o y) \o z, w) <=> Has(x \o y, w) \/ Has(z, w)
    <3> DEFINE xy == x \o y
    <3> HIDE DEF xy
    <3>1. xy \in Seq(S)
      BY <1>5 DEF xy
    <3>2. Has(xy \o z, w) <=> Has(xy, w) \/ Has(z, w)
      BY <1>5, <3>1, HasConcat
    <3> QED BY <3>2 DEF xy
  <2> QED BY <1>1, <2>1, <2>2
<1>7. Writes(l, answer) \in Todos
  BY <1>1, <1>2, InOrder
<1> QED BY <1>4, <1>6, <1>7

-----------------------------------------------------------------------------
(* Lookups: lemmas about a step of one of them.                            *)

\* A lookup is what its label says.
LEMMA LookupShape ==
    ASSUME GradingTypeOK, NEW q \in Lookups
    PROVE  /\ lookups[q] \in {NoLookup} \cup LookupState
           /\ lookups[q].pc = "idle" => lookups[q] = NoLookup
           /\ lookups[q].pc # "idle" => lookups[q] \in LookupState
  BY DEF GradingTypeOK, NoLookup, LookupState

LEMMA LookupBecomesOne ==
    ASSUME GradingTypeOK, NEW q \in Lookups, NEW x \in {NoLookup} \cup LookupState, LookupBecomes(q, x)
    PROVE  /\ lookups'[q] = x
           /\ \A o \in Lookups \ {q} : lookups'[o] = lookups[o]
           /\ lookups' \in [Lookups -> {NoLookup} \cup LookupState]
  BY DEF GradingTypeOK, LookupBecomes

\* One lookup moves, the grader says what it said: what is stored, answered and
\* accused is backed if what is new of it is.
LEMMA FreshStep ==
    ASSUME GradingInv, NEW q \in Lookups, NEW x,
           lookups'[q] = x, \A o \in Lookups \ {q} : lookups'[o] = lookups[o],
           UNCHANGED <<registry, minute, truths>>,
           x.pc # "idle" => x.begun <= minute,
           x.pc = "store" /\ x.answer # "unavailable" => Given(x.cert, x.answer, minute),
           x.pc = "write" /\ x.answer # "unavailable" =>
             \E t \in truths : t.cert = x.cert /\ t.answer = x.answer /\ t.at + CacheTtl > x.begun,
           \A v \in verifications' \ verifications : v.answer # "unavailable" => Given(v.cert, v.answer, v.at),
           \A f \in counterfeits' \ counterfeits : \E t \in truths : t.cert = f.cert /\ t.answer = "not_found"
    PROVE  FreshInv'
<1>1. /\ \A c \in Certs : Truth(c, registry[c], minute)' \in truths'
      /\ \A v \in verifications' : v.answer # "unavailable" => Given(v.cert, v.answer, v.at)
      /\ \A f \in counterfeits' : \E t \in truths' : t.cert = f.cert /\ t.answer = "not_found"
  BY DEF GradingInv, FreshInv, Truth
<1>2. ASSUME NEW o \in Lookups
      PROVE  LET l == lookups'[o] IN
             /\ l.pc # "idle" => l.begun <= minute
             /\ l.pc = "store" /\ l.answer # "unavailable" => Given(l.cert, l.answer, minute)
             /\ l.pc = "write" /\ l.answer # "unavailable" =>
                  \E t \in truths : t.cert = l.cert /\ t.answer = l.answer /\ t.at + CacheTtl > l.begun
  <2>1. CASE o = q
    BY <2>1
  <2>2. CASE o # q
    BY <2>2 DEF GradingInv, FreshInv
  <2> QED BY <2>1, <2>2
<1> QED BY <1>1, <1>2 DEF FreshInv, Given, Truth

\* One lookup moves, the status of an instance is as it was: what is settled of it
\* is, if the lookup neither ends what it owes nor writes.
LEMMA KeepVerdict ==
    ASSUME GradingInv, NEW q \in Lookups, NEW i \in Instances,
           \A o \in Lookups \ {q} : lookups'[o] = lookups[o],
           verification'[i] = verification[i], spells'[i] = spells[i], counterfeits \subseteq counterfeits',
           WroteBy(lookups'[q], i) <=> WroteBy(lookups[q], i),
           OwesBy(lookups[q], i, verification[i]) => OwesBy(lookups'[q], i, verification[i]),
           Accuses(lookups'[q], i) =>
             Has(lookups'[q].todo, "flag") \/ \E f \in counterfeits' : f.instance = i
    PROVE  ~spells'[i].cut => Settled(i)' /\ FlagsKept(i)'
<1> SUFFICES ASSUME ~spells'[i].cut PROVE Settled(i)' /\ FlagsKept(i)'
  OBVIOUS
<1>1. Settled(i) /\ FlagsKept(i)
  BY DEF GradingInv, VerdictInv
<1>2. Settled(i)'
  <2>1. CASE verification[i] \in spells[i].given
    BY <2>1 DEF Settled
  <2>2. CASE /\ spells[i].given = {} /\ verification[i] = spells[i].before
             /\ \A o \in Lookups : ~WroteBy(lookups[o], i)
    <3>1. \A o \in Lookups : ~WroteBy(lookups'[o], i)
      BY <2>2
    <3> QED BY <2>2, <3>1 DEF Settled
  <2>3. ASSUME NEW o \in Lookups, OwesBy(lookups[o], i, verification[i]) PROVE Settled(i)'
    <3>1. OwesBy(lookups'[o], i, verification'[i])
      <4>1. CASE o = q
        BY <2>3, <4>1
      <4>2. CASE o # q
        BY <2>3, <4>2
      <4> QED BY <4>1, <4>2
    <3> QED BY <3>1 DEF Settled
  <2> QED BY <1>1, <2>1, <2>2, <2>3 DEF Settled
<1>3. Flagged(i) => \E f \in counterfeits' : f.instance = i
  BY DEF Flagged
<1>4. ASSUME NEW o \in Lookups, Accuses(lookups'[o], i)
      PROVE  Has(lookups'[o].todo, "flag") \/ \E f \in counterfeits' : f.instance = i
  <2>1. CASE o = q
    BY <1>4, <2>1
  <2>2. CASE o # q
    BY <1>1, <1>3, <1>4, <2>2 DEF FlagsKept
  <2> QED BY <2>1, <2>2
<1>5. FlagsKept(i)'
  BY <1>1, <1>3, <1>4 DEF FlagsKept, Flagged
<1> QED BY <1>2, <1>5

\* A lookup that owes nothing and has written nothing may do as it likes.
LEMMA Unwritten ==
    ASSUME NEW l, NEW i, l.pc # "write" \/ l.instance # i \/ l.answer = "unavailable" \/ Has(l.todo, "status")
    PROVE  ~WroteBy(l, i) /\ \A status : ~OwesBy(l, i, status)
  BY DEF WroteBy, OwesBy

-----------------------------------------------------------------------------
(* Lookups: one lemma an action.                                           *)

LEMMA GradingInitInv == ASSUME GradingInit PROVE GradingInv
<1>1. GradingTypeOK
  BY DEF GradingInit, GradingTypeOK, NoLookup, Statuses, Truth
<1>2. \A q \in Lookups : lookups[q].pc = "idle"
  BY DEF GradingInit, NoLookup
<1>3. TodoInv
  BY <1>2 DEF TodoInv
<1>4. FreshInv
  BY <1>2 DEF GradingInit, FreshInv, Truth
<1>5. \A q \in Lookups, i \in Instances : ~WroteBy(lookups[q], i) /\ ~Accuses(lookups[q], i)
  BY <1>2 DEF WroteBy, Accuses
<1>6. VerdictInv
  BY <1>5 DEF GradingInit, VerdictInv, Settled, FlagsKept
<1> QED BY <1>1, <1>3, <1>4, <1>6 DEF GradingInv

\* What an answer makes of a lookup.
LEMMA AnsweredIs ==
    ASSUME NEW l \in LookupState, NEW answer \in AnswerSet
    PROVE  /\ Answered(l, answer) \in LookupState
           /\ Answered(l, answer) = [l EXCEPT !.pc = "write", !.answer = answer, !.todo = Writes(l, answer)]
           /\ Answered(l, answer).pc = "write" /\ Answered(l, answer).answer = answer
           /\ Answered(l, answer).instance = l.instance /\ Answered(l, answer).cert = l.cert
           /\ Answered(l, answer).begun = l.begun /\ Answered(l, answer).claimed = l.claimed
           /\ Answered(l, answer).todo = Writes(l, answer)
           /\ TodoOK(Answered(l, answer))
           /\ Accuses(Answered(l, answer), l.instance) => Has(Answered(l, answer).todo, "flag")
           /\ l.instance = None \/ answer = "unavailable" \/ Has(Answered(l, answer).todo, "status")
<1> DEFINE x == Answered(l, answer)
<1>1. Writes(l, answer) \in Todos
  BY WritesAre
<1>2. /\ x \in LookupState /\ x.pc = "write" /\ x.answer = answer
      /\ x.instance = l.instance /\ x.cert = l.cert
      /\ x.begun = l.begun /\ x.claimed = l.claimed /\ x.todo = Writes(l, answer)
  BY <1>1 DEF Answered, LookupState
<1>3. Answered(l, answer) = [l EXCEPT !.pc = "write", !.answer = answer, !.todo = Writes(l, answer)]
  BY DEF Answered
<1> HIDE DEF x
<1>4. Contradicts(x, answer) <=> Contradicts(l, answer)
  BY <1>2 DEF Contradicts
<1>5. /\ Has(x.todo, "status") <=> l.instance # None /\ answer # "unavailable"
      /\ Has(x.todo, "flag") <=> answer = "not_found"
      /\ Has(x.todo, "mismatch") <=> l.instance # None /\ Contradicts(l, answer)
  BY <1>2, WritesAre
<1>6. TodoOK(x)
  BY <1>2, <1>4, <1>5 DEF TodoOK
<1>7. Accuses(x, l.instance) => Has(x.todo, "flag")
  BY <1>2, <1>5 DEF Accuses
<1> QED BY <1>2, <1>3, <1>5, <1>6, <1>7 DEF x

\* The lookups that have not moved are as they were.
LEMMA TodoStep ==
    ASSUME GradingInv, NEW q \in Lookups, NEW x, lookups'[q] = x,
           \A o \in Lookups \ {q} : lookups'[o] = lookups[o], x.pc = "write" => TodoOK(x)
    PROVE  TodoInv'
<1>1. ASSUME NEW o \in Lookups, lookups'[o].pc = "write" PROVE TodoOK(lookups'[o])
  <2>1. CASE o = q
    BY <1>1, <2>1
  <2>2. CASE o # q
    BY <1>1, <2>2 DEF GradingInv, TodoInv
  <2> QED BY <2>1, <2>2
<1> QED BY <1>1 DEF TodoInv

LEMMA BeginVerifyInv ==
    ASSUME GradingInv, NEW q \in Lookups, NEW i \in Instances \cup {None}, NEW c \in Certs,
           NEW n \in Names \cup {None}, BeginVerify(q, i, c, n)
    PROVE  GradingInv'
<1> DEFINE l == [pc |-> "ask", instance |-> i, cert |-> c, claimed |-> n,
                 answer |-> None, todo |-> <<>>, begun |-> minute]
<1>1. /\ lookups[q] = NoLookup
      /\ IF Newest(c) = {} THEN LookupBecomes(q, l)
         ELSE \E v \in Newest(c) : LookupBecomes(q, Answered(l, v.answer))
      /\ spells' = IF i \in Instances /\ Quiet(i)
                   THEN [spells EXCEPT ![i] = [before |-> verification[i], given |-> {}, cut |-> FALSE]]
                   ELSE spells
      /\ UNCHANGED <<registry, verifications, verification, counterfeits, minute, truths>>
  BY DEF BeginVerify
<1>2. /\ l \in LookupState /\ l.pc = "ask" /\ l.instance = i /\ l.cert = c /\ l.begun = minute
  BY DEF GradingInv, GradingTypeOK, LookupState, AnswerSet, Todos
<1> HIDE DEF l
<1>3. \E x \in LookupState :
        /\ LookupBecomes(q, x)
        /\ x.pc \in {"ask", "write"} /\ x.instance = i /\ x.begun = minute
        /\ x.pc = "write" =>
             /\ TodoOK(x)
             /\ Accuses(x, i) => Has(x.todo, "flag")
             /\ i = None \/ Has(x.todo, "status")
             /\ \E t \in truths : t.cert = x.cert /\ t.answer = x.answer /\ t.at + CacheTtl > x.begun
  <2>1. CASE Newest(c) = {}
    BY <1>1, <1>2, <2>1
  <2>2. CASE Newest(c) # {}
    <3>1. PICK v \in Newest(c) : LookupBecomes(q, Answered(l, v.answer))
      BY <1>1, <2>2
    <3>2. v \in verifications /\ v.cert = c /\ v.answer # "unavailable" /\ v.at + CacheTtl > minute
      BY DEF Newest, Cached
    <3>3. v.answer \in AnswerSet /\ v.at \in Nat /\ minute \in Nat
      BY <3>2 DEF GradingInv, GradingTypeOK
    <3> DEFINE x == Answered(l, v.answer)
    <3>4. /\ x \in LookupState /\ x.pc = "write" /\ x.instance = i /\ x.begun = minute /\ x.cert = c
          /\ x.answer = v.answer /\ TodoOK(x) /\ (Accuses(x, i) => Has(x.todo, "flag"))
          /\ i = None \/ Has(x.todo, "status")
      BY <1>2, <3>2, <3>3, AnsweredIs
    <3>5. PICK t \in truths : t.cert = c /\ t.answer = v.answer /\ v.at <= t.at
      BY <3>2 DEF GradingInv, FreshInv, Given
    <3>6. t.at + CacheTtl > minute
      BY <3>2, <3>3, <3>5, GradingAssumption DEF GradingInv, GradingTypeOK
    <3> HIDE DEF x
    <3> QED BY <3>1, <3>4, <3>5, <3>6 DEF x
  <2> QED BY <2>1, <2>2
<1>4. PICK x \in LookupState :
        /\ LookupBecomes(q, x)
        /\ x.pc \in {"ask", "write"} /\ x.instance = i /\ x.begun = minute
        /\ x.pc = "write" =>
             /\ TodoOK(x)
             /\ Accuses(x, i) => Has(x.todo, "flag")
             /\ i = None \/ Has(x.todo, "status")
             /\ \E t \in truths : t.cert = x.cert /\ t.answer = x.answer /\ t.at + CacheTtl > x.begun
  BY <1>3
<1>5. /\ lookups'[q] = x /\ (\A o \in Lookups \ {q} : lookups'[o] = lookups[o])
      /\ lookups' \in [Lookups -> {NoLookup} \cup LookupState]
  BY <1>4, LookupBecomesOne DEF GradingInv
<1>6. spells' \in [Instances -> [before : Statuses, given : SUBSET Statuses, cut : BOOLEAN]]
  BY <1>1 DEF GradingInv, GradingTypeOK
<1>7. GradingTypeOK'
  BY <1>1, <1>5, <1>6 DEF GradingInv, GradingTypeOK
<1>8. TodoInv'
  BY <1>4, <1>5, TodoStep
<1>9. FreshInv'
  <2>1. minute <= minute
    BY DEF GradingInv, GradingTypeOK
  <2> QED BY <1>1, <1>4, <1>5, <2>1, FreshStep
<1>10. \A j \in Instances : ~WroteBy(lookups[q], j) /\ ~WroteBy(x, j)
                            /\ (Accuses(x, j) => Has(x.todo, "flag"))
                            /\ \A status : ~OwesBy(lookups[q], j, status)
  <2>1. None \notin Instances
    BY GradingAssumption
  <2>2. lookups[q].pc = "idle"
    BY <1>1 DEF NoLookup
  <2> QED BY <1>4, <2>1, <2>2, Unwritten DEF Accuses
<1>11. ASSUME NEW j \in Instances PROVE ~spells'[j].cut => Settled(j)' /\ FlagsKept(j)'
  <2>1. CASE j = i /\ Quiet(i)
    <3>1. spells'[i] = [before |-> verification[i], given |-> {}, cut |-> FALSE] /\ verification' = verification
      BY <1>1, <2>1 DEF GradingInv, GradingTypeOK
    <3>2. \A o \in Lookups : o # q => lookups'[o].pc = "idle" \/ lookups'[o].instance # i
      BY <1>5, <2>1 DEF Quiet, LooksUp
    <3>3. \A o \in Lookups : ~WroteBy(lookups'[o], i)
      <4>1. \A o \in Lookups : o # q => ~WroteBy(lookups'[o], i)
        BY <3>2 DEF WroteBy
      <4> QED BY <1>5, <1>10, <2>1, <4>1
    <3>4. \A o \in Lookups : Accuses(lookups'[o], i) => Has(lookups'[o].todo, "flag")
      <4>1. \A o \in Lookups : o # q => ~Accuses(lookups'[o], i)
        BY <3>2 DEF Accuses
      <4> QED BY <1>5, <1>10, <2>1, <4>1
    <3>5. Settled(i)'
      BY <3>1, <3>3 DEF Settled
    <3>6. FlagsKept(i)'
      BY <3>1, <3>4 DEF FlagsKept
    <3> QED BY <2>1, <3>5, <3>6
  <2>2. CASE j # i \/ ~Quiet(i)
    <3>1. spells'[j] = spells[j]
      BY <1>1, <2>2 DEF GradingInv, GradingTypeOK
    <3>2. /\ WroteBy(lookups'[q], j) <=> WroteBy(lookups[q], j)
          /\ OwesBy(lookups[q], j, verification[j]) => OwesBy(lookups'[q], j, verification[j])
          /\ Accuses(lookups'[q], j) => Has(lookups'[q].todo, "flag")
      BY <1>5, <1>10
    <3> QED BY <1>1, <1>5, <3>1, <3>2, KeepVerdict
  <2> QED BY <2>1, <2>2
<1>12. VerdictInv'
  BY <1>11 DEF VerdictInv
<1> QED BY <1>7, <1>8, <1>9, <1>12 DEF GradingInv

\* A lookup that has written nothing moves, and is not done with what it owes.
LEMMA UnwrittenMove ==
    ASSUME GradingInv, NEW q \in Lookups, NEW x,
           lookups'[q] = x, \A o \in Lookups \ {q} : lookups'[o] = lookups[o],
           UNCHANGED <<verification, spells, counterfeits>>,
           \A j \in Instances : ~WroteBy(lookups[q], j) /\ ~WroteBy(x, j),
           \A j \in Instances : Accuses(x, j) => Has(x.todo, "flag")
    PROVE  VerdictInv'
<1>1. ASSUME NEW j \in Instances PROVE ~spells'[j].cut => Settled(j)' /\ FlagsKept(j)'
  <2>1. /\ WroteBy(lookups'[q], j) <=> WroteBy(lookups[q], j)
        /\ OwesBy(lookups[q], j, verification[j]) => OwesBy(lookups'[q], j, verification[j])
    BY DEF OwesBy
  <2> QED BY <2>1, KeepVerdict
<1> QED BY <1>1 DEF VerdictInv

LEMMA AskInv == ASSUME GradingInv, NEW q \in Lookups, Ask(q) PROVE GradingInv'
<1> DEFINE l == lookups[q]
<1>1. /\ l.pc = "ask" /\ l \in LookupState /\ l.cert \in Certs
      /\ UNCHANGED <<registry, verifications, verification, counterfeits, minute, truths, spells>>
  BY LookupShape DEF Ask, GradingInv, LookupState
<1>2. PICK answer \in {"unavailable"} \cup
                        (IF l.cert \in Unsupported THEN {} ELSE {Truth(l.cert, registry[l.cert], minute).answer}) :
             LookupBecomes(q, [l EXCEPT !.pc = "store", !.answer = answer])
  BY DEF Ask
<1>3. answer \in AnswerSet
      /\ (answer # "unavailable" => answer = Truth(l.cert, registry[l.cert], minute).answer)
  BY <1>1 DEF Truth, AnswerSet, GradingInv, GradingTypeOK
<1> DEFINE x == [l EXCEPT !.pc = "store", !.answer = answer]
<1>4. /\ x \in LookupState /\ x.pc = "store" /\ x.answer = answer /\ x.cert = l.cert
      /\ x.begun = l.begun /\ x.instance = l.instance
  BY <1>1, <1>3 DEF LookupState
<1> HIDE DEF x
<1>5. /\ lookups'[q] = x /\ (\A o \in Lookups \ {q} : lookups'[o] = lookups[o])
      /\ lookups' \in [Lookups -> {NoLookup} \cup LookupState]
  BY <1>2, <1>4, LookupBecomesOne DEF GradingInv, x
<1>6. GradingTypeOK'
  BY <1>1, <1>5 DEF GradingInv, GradingTypeOK
<1>7. TodoInv'
  BY <1>4, <1>5, TodoStep
<1>8. answer # "unavailable" => Given(l.cert, answer, minute)
  <2> SUFFICES ASSUME answer # "unavailable" PROVE Given(l.cert, answer, minute)
    OBVIOUS
  <2> DEFINE t == Truth(l.cert, registry[l.cert], minute)
  <2>1. t \in truths
    BY <1>1 DEF GradingInv, FreshInv
  <2>2. t.cert = l.cert /\ t.answer = answer /\ t.at = minute
    BY <1>3 DEF Truth
  <2>3. minute <= t.at
    BY <2>2 DEF GradingInv, GradingTypeOK
  <2> QED BY <2>1, <2>2, <2>3 DEF Given
<1>9. l.begun <= minute
  BY <1>1 DEF GradingInv, FreshInv
<1>10. FreshInv'
  BY <1>1, <1>4, <1>5, <1>8, <1>9, FreshStep
<1>11. \A j \in Instances : ~WroteBy(l, j) /\ ~WroteBy(x, j) /\ ~Accuses(x, j)
  BY <1>1, <1>4 DEF WroteBy, Accuses
<1>12. VerdictInv'
  BY <1>1, <1>5, <1>11, UnwrittenMove
<1> QED BY <1>6, <1>7, <1>10, <1>12 DEF GradingInv

LEMMA StoreResultInv == ASSUME GradingInv, NEW q \in Lookups, StoreResult(q) PROVE GradingInv'
<1> DEFINE l == lookups[q]
           v == [cert |-> l.cert, answer |-> l.answer, at |-> minute]
<1>1. /\ l.pc = "store" /\ l \in LookupState /\ l.cert \in Certs /\ l.answer \in AnswerSet
      /\ UNCHANGED <<registry, verification, counterfeits, minute, truths, spells>>
      /\ verifications' \subseteq verifications \cup {v}
      /\ LookupBecomes(q, Answered(l, l.answer))
  BY LookupShape DEF StoreResult, GradingInv, LookupState
<1> DEFINE x == Answered(l, l.answer)
<1>2. /\ x \in LookupState /\ x.pc = "write" /\ x.answer = l.answer /\ x.cert = l.cert
      /\ x.begun = l.begun /\ x.instance = l.instance /\ TodoOK(x)
      /\ (Accuses(x, l.instance) => Has(x.todo, "flag"))
      /\ (l.instance = None \/ l.answer = "unavailable" \/ Has(x.todo, "status"))
  BY <1>1, AnsweredIs
<1> HIDE DEF x
<1>3. /\ lookups'[q] = x /\ (\A o \in Lookups \ {q} : lookups'[o] = lookups[o])
      /\ lookups' \in [Lookups -> {NoLookup} \cup LookupState]
  BY <1>1, <1>2, LookupBecomesOne DEF GradingInv, x
<1>4. v \in [cert : Certs, answer : AnswerSet, at : Nat]
  BY <1>1 DEF GradingInv, GradingTypeOK
<1>5. GradingTypeOK'
  BY <1>1, <1>3, <1>4 DEF GradingInv, GradingTypeOK
<1>6. TodoInv'
  BY <1>2, <1>3, TodoStep
<1>7. l.answer # "unavailable" => Given(l.cert, l.answer, minute)
  BY <1>1 DEF GradingInv, FreshInv
<1>8. l.begun <= minute
  BY <1>1 DEF GradingInv, FreshInv
<1>9. x.answer # "unavailable" =>
        \E t \in truths : t.cert = x.cert /\ t.answer = x.answer /\ t.at + CacheTtl > x.begun
  <2> SUFFICES ASSUME x.answer # "unavailable"
               PROVE  \E t \in truths : t.cert = x.cert /\ t.answer = x.answer /\ t.at + CacheTtl > x.begun
    OBVIOUS
  <2>1. PICK t \in truths : t.cert = l.cert /\ t.answer = l.answer /\ minute <= t.at
    BY <1>2, <1>7 DEF Given
  <2>2. t.at \in Nat /\ minute \in Nat /\ l.begun \in Nat
    BY <1>1 DEF GradingInv, GradingTypeOK, LookupState
  <2>3. t.at + CacheTtl > l.begun
    BY <1>8, <2>1, <2>2, GradingAssumption
  <2> QED BY <1>2, <2>1, <2>3
<1>10. \A w \in verifications' \ verifications : w.answer # "unavailable" => Given(w.cert, w.answer, w.at)
  BY <1>1, <1>7
<1>11. FreshInv'
  BY <1>1, <1>2, <1>3, <1>8, <1>9, <1>10, FreshStep
<1>12. \A j \in Instances : ~WroteBy(l, j) /\ ~WroteBy(x, j) /\ (Accuses(x, j) => Has(x.todo, "flag"))
  <2>1. None \notin Instances
    BY GradingAssumption
  <2> QED BY <1>1, <1>2, <2>1 DEF WroteBy, Accuses
<1>13. VerdictInv'
  BY <1>1, <1>3, <1>12, UnwrittenMove
<1> QED BY <1>5, <1>6, <1>11, <1>13 DEF GradingInv

\* What a write leaves of a lookup.
LEMMA ProceedsEffect ==
    ASSUME GradingInv, NEW q \in Lookups, NEW w, Writing(q, w), Proceeds(q)
    PROVE  /\ lookups[q] \in LookupState /\ lookups[q].pc = "write" /\ TodoOK(lookups[q])
           /\ Has(lookups[q].todo, w)
           /\ lookups' \in [Lookups -> {NoLookup} \cup LookupState]
           /\ \A o \in Lookups \ {q} : lookups'[o] = lookups[o]
           /\ lookups'[q] \in LookupState /\ lookups'[q].pc = "write"
           /\ lookups'[q].instance = lookups[q].instance /\ lookups'[q].answer = lookups[q].answer
           /\ lookups'[q].cert = lookups[q].cert /\ lookups'[q].begun = lookups[q].begun
           /\ lookups'[q].claimed = lookups[q].claimed
           /\ ~Has(lookups'[q].todo, "status")
           /\ Has(lookups'[q].todo, "flag") <=> Has(lookups[q].todo, "flag") /\ w # "flag"
           /\ Has(lookups'[q].todo, "mismatch") <=> Has(lookups[q].todo, "mismatch") /\ w # "mismatch"
           /\ Has(lookups[q].todo, "status") => w = "status"
           /\ Verdict(lookups'[q]) = Verdict(lookups[q])
           /\ TodoOK(lookups'[q])
<1> DEFINE l == lookups[q]
           x == [l EXCEPT !.todo = Tail(@)]
<1>1. l.pc = "write" /\ l \in LookupState /\ l.todo \in Todos /\ l.todo # <<>> /\ Head(l.todo) = w
  BY LookupShape DEF Writing, GradingInv, LookupState
<1>2. TodoOK(l)
  BY <1>1 DEF GradingInv, TodoInv
<1>3. /\ Tail(l.todo) \in Todos /\ Has(l.todo, w) /\ (Has(l.todo, "status") => w = "status")
      /\ \A z \in {"status", "flag", "mismatch"} : Has(Tail(l.todo), z) <=> Has(l.todo, z) /\ z # w
  BY <1>1, TodoTail
<1>4. /\ x \in LookupState /\ x.pc = "write" /\ x.answer = l.answer /\ x.cert = l.cert
      /\ x.begun = l.begun /\ x.instance = l.instance /\ x.claimed = l.claimed /\ x.todo = Tail(l.todo)
  BY <1>1, <1>3 DEF LookupState
<1>5. LookupBecomes(q, x)
  BY DEF Proceeds
<1> HIDE DEF x
<1>6. /\ lookups'[q] = x /\ (\A o \in Lookups \ {q} : lookups'[o] = lookups[o])
      /\ lookups' \in [Lookups -> {NoLookup} \cup LookupState]
  BY <1>4, <1>5, LookupBecomesOne DEF GradingInv
<1>7. Contradicts(x, x.answer) <=> Contradicts(l, l.answer)
  BY <1>4 DEF Contradicts
<1>8. Verdict(x) = Verdict(l)
  BY <1>4, <1>7 DEF Verdict
<1>9. /\ ~Has(x.todo, "status")
      /\ Has(x.todo, "flag") <=> Has(l.todo, "flag") /\ w # "flag"
      /\ Has(x.todo, "mismatch") <=> Has(l.todo, "mismatch") /\ w # "mismatch"
  BY <1>3, <1>4
<1>10. TodoOK(x)
  BY <1>2, <1>4, <1>7, <1>9 DEF TodoOK
<1> QED BY <1>1, <1>2, <1>3, <1>4, <1>6, <1>8, <1>9, <1>10

\* The flags of an instance are kept, if what a lookup moves to is accused of
\* something that is raised or to be.
LEMMA FlagsStep ==
    ASSUME GradingInv, NEW q \in Lookups, NEW i \in Instances, ~spells[i].cut,
           \A o \in Lookups \ {q} : lookups'[o] = lookups[o],
           spells'[i] = spells[i], counterfeits \subseteq counterfeits',
           Accuses(lookups'[q], i) =>
             Has(lookups'[q].todo, "flag") \/ \E f \in counterfeits' : f.instance = i
    PROVE  FlagsKept(i)'
<1>1. FlagsKept(i)
  BY DEF GradingInv, VerdictInv
<1>2. Flagged(i) => \E f \in counterfeits' : f.instance = i
  BY DEF Flagged
<1>3. ASSUME NEW o \in Lookups, Accuses(lookups'[o], i)
      PROVE  Has(lookups'[o].todo, "flag") \/ \E f \in counterfeits' : f.instance = i
  <2>1. CASE o = q
    BY <1>3, <2>1
  <2>2. CASE o # q
    BY <1>1, <1>2, <1>3, <2>2 DEF FlagsKept
  <2> QED BY <2>1, <2>2
<1> QED BY <1>1, <1>2, <1>3 DEF FlagsKept, Flagged

\* A lookup writes the status of its instance, which is its verdict unless it is to
\* write another.
LEMMA StatusWritten ==
    ASSUME GradingInv, NEW q \in Lookups, NEW w, Writing(q, w), Proceeds(q), w # "flag",
           NEW status \in Statuses, lookups[q].instance \in Instances, lookups[q].answer # "unavailable",
           verification' = [verification EXCEPT ![lookups[q].instance] = status],
           Has(lookups'[q].todo, "mismatch") \/ status = Verdict(lookups[q]),
           UNCHANGED <<registry, verifications, counterfeits, minute, truths, spells>>
    PROVE  GradingInv'
<1> DEFINE l == lookups[q]
           x == lookups'[q]
           i == l.instance
<1>1. /\ l \in LookupState /\ l.pc = "write" /\ TodoOK(l)
      /\ lookups' \in [Lookups -> {NoLookup} \cup LookupState]
      /\ \A o \in Lookups \ {q} : lookups'[o] = lookups[o]
      /\ x \in LookupState /\ x.pc = "write"
      /\ x.instance = i /\ x.answer = l.answer /\ x.cert = l.cert /\ x.begun = l.begun
      /\ ~Has(x.todo, "status")
      /\ Has(x.todo, "flag") <=> Has(l.todo, "flag")
      /\ Verdict(x) = Verdict(l)
      /\ TodoOK(x)
  BY ProceedsEffect
<1> HIDE DEF x
<1>2. lookups'[q] = x
  BY DEF x
<1>3. verification' \in [Instances -> Statuses] /\ verification'[i] = status
      /\ \A j \in Instances \ {i} : verification'[j] = verification[j]
  BY DEF GradingInv, GradingTypeOK
<1>4. GradingTypeOK'
  BY <1>1, <1>3 DEF GradingInv, GradingTypeOK
<1>5. TodoInv'
  BY <1>1, <1>2, TodoStep
<1>6. l.begun <= minute /\ \E t \in truths : t.cert = l.cert /\ t.answer = l.answer /\ t.at + CacheTtl > l.begun
  BY <1>1 DEF GradingInv, FreshInv
<1>7. FreshInv'
  BY <1>1, <1>2, <1>6, FreshStep
<1>8. ASSUME NEW j \in Instances, ~spells[j].cut, Accuses(x, j)
      PROVE  Has(x.todo, "flag") \/ \E f \in counterfeits' : f.instance = j
  <2>1. FlagsKept(j) /\ Accuses(l, j)
    BY <1>1, <1>8 DEF GradingInv, VerdictInv, Accuses
  <2> QED BY <1>1, <2>1 DEF FlagsKept, Flagged
<1>9. ASSUME NEW j \in Instances PROVE ~spells'[j].cut => Settled(j)' /\ FlagsKept(j)'
  <2>1. CASE j = i
    <3>1. OwesBy(lookups'[q], j, verification'[j])
      BY <1>1, <1>2, <1>3, <2>1 DEF OwesBy, WroteBy
    <3>2. Settled(j)'
      BY <3>1 DEF Settled
    <3>3. ASSUME ~spells[j].cut PROVE FlagsKept(j)'
      BY <1>1, <1>2, <1>8, <3>3, FlagsStep
    <3> QED BY <3>2, <3>3
  <2>2. CASE j # i
    <3>1. ~WroteBy(lookups[q], j) /\ ~WroteBy(lookups'[q], j) /\ ~Accuses(lookups'[q], j)
          /\ ~OwesBy(lookups[q], j, verification[j])
      BY <1>1, <1>2, <2>2 DEF WroteBy, OwesBy, Accuses
    <3> QED BY <1>1, <1>3, <2>2, <3>1, KeepVerdict
  <2> QED BY <2>1, <2>2
<1>10. VerdictInv'
  BY <1>9 DEF VerdictInv
<1> QED BY <1>4, <1>5, <1>7, <1>10 DEF GradingInv

LEMMA UpdateStatusInv == ASSUME GradingInv, NEW q \in Lookups, UpdateStatus(q) PROVE GradingInv'
<1> DEFINE l == lookups[q]
<1>1. /\ Writing(q, "status") /\ Proceeds(q)
      /\ verification' = [verification EXCEPT ![l.instance] = StatusOf(l.answer)]
      /\ UNCHANGED <<registry, verifications, counterfeits, minute, truths, spells>>
  BY DEF UpdateStatus
<1>2. /\ l \in LookupState /\ TodoOK(l) /\ Has(l.todo, "status")
      /\ Has(lookups'[q].todo, "mismatch") <=> Has(l.todo, "mismatch")
  BY <1>1, ProceedsEffect
<1>3. l.instance \in Instances /\ l.answer # "unavailable"
  BY <1>2 DEF TodoOK, LookupState
<1>4. StatusOf(l.answer) \in Statuses
  BY DEF StatusOf, Statuses
<1>5. Has(lookups'[q].todo, "mismatch") \/ StatusOf(l.answer) = Verdict(l)
  BY <1>2 DEF TodoOK, Verdict
<1> QED BY <1>1, <1>3, <1>4, <1>5, StatusWritten

LEMMA WriteMismatchInv == ASSUME GradingInv, NEW q \in Lookups, WriteMismatch(q) PROVE GradingInv'
<1> DEFINE l == lookups[q]
<1>1. /\ Writing(q, "mismatch") /\ Proceeds(q)
      /\ verification' = [verification EXCEPT ![l.instance] = "mismatch"]
      /\ UNCHANGED <<registry, verifications, counterfeits, minute, truths, spells>>
  BY DEF WriteMismatch
<1>2. l \in LookupState /\ TodoOK(l) /\ Has(l.todo, "mismatch")
  BY <1>1, ProceedsEffect
<1>3. l.instance \in Instances /\ Contradicts(l, l.answer)
  BY <1>2 DEF TodoOK, LookupState
<1>4. l.answer # "unavailable" /\ Verdict(l) = "mismatch" /\ "mismatch" \in Statuses
  BY <1>3, GradingAssumption DEF Contradicts, Verdict, Statuses
<1> QED BY <1>1, <1>3, <1>4, StatusWritten

LEMMA RaiseCounterfeitFlagInv ==
    ASSUME GradingInv, NEW q \in Lookups, RaiseCounterfeitFlag(q) PROVE GradingInv'
<1> DEFINE l == lookups[q]
           x == lookups'[q]
           flag == [instance |-> l.instance, cert |-> l.cert]
<1>1. /\ Writing(q, "flag") /\ Proceeds(q) /\ counterfeits' = counterfeits \cup {flag}
      /\ UNCHANGED <<registry, verifications, verification, minute, truths, spells>>
  BY DEF RaiseCounterfeitFlag
<1>2. /\ l \in LookupState /\ l.pc = "write" /\ TodoOK(l) /\ Has(l.todo, "flag")
      /\ lookups' \in [Lookups -> {NoLookup} \cup LookupState]
      /\ \A o \in Lookups \ {q} : lookups'[o] = lookups[o]
      /\ x \in LookupState /\ x.pc = "write"
      /\ x.instance = l.instance /\ x.answer = l.answer /\ x.cert = l.cert /\ x.begun = l.begun
      /\ ~Has(x.todo, "status") /\ ~Has(l.todo, "status")
      /\ Has(x.todo, "mismatch") <=> Has(l.todo, "mismatch")
      /\ Verdict(x) = Verdict(l)
      /\ TodoOK(x)
  BY <1>1, ProceedsEffect
<1> HIDE DEF x
<1>3. lookups'[q] = x
  BY DEF x
<1>4. GradingTypeOK'
  BY <1>1, <1>2 DEF GradingInv, GradingTypeOK
<1>5. TodoInv'
  BY <1>2, <1>3, TodoStep
<1>6. /\ l.begun <= minute
      /\ l.answer # "unavailable" =>
           \E t \in truths : t.cert = l.cert /\ t.answer = l.answer /\ t.at + CacheTtl > l.begun
  BY <1>2 DEF GradingInv, FreshInv
<1>7. l.answer = "not_found"
  BY <1>2 DEF TodoOK
<1>8. \A f \in counterfeits' \ counterfeits : \E t \in truths : t.cert = f.cert /\ t.answer = "not_found"
  BY <1>1, <1>6, <1>7
<1>9. FreshInv'
  BY <1>1, <1>2, <1>3, <1>6, <1>8, FreshStep
<1>10. ASSUME NEW j \in Instances PROVE ~spells'[j].cut => Settled(j)' /\ FlagsKept(j)'
  <2>1. WroteBy(lookups'[q], j) <=> WroteBy(lookups[q], j)
    BY <1>2, <1>3 DEF WroteBy
  <2>2. OwesBy(lookups[q], j, verification[j]) => OwesBy(lookups'[q], j, verification[j])
    BY <1>2, <1>3, <2>1 DEF OwesBy
  <2>3. Accuses(lookups'[q], j) => \E f \in counterfeits' : f.instance = j
    <3>1. Accuses(lookups'[q], j) => flag.instance = j
      BY <1>2, <1>3 DEF Accuses
    <3>2. flag \in counterfeits'
      BY <1>1
    <3> QED BY <3>1, <3>2
  <2> QED BY <1>1, <1>2, <2>1, <2>2, <2>3, KeepVerdict
<1>11. VerdictInv'
  BY <1>10 DEF VerdictInv
<1> QED BY <1>4, <1>5, <1>9, <1>11 DEF GradingInv

\* A spell that is cut short promises nothing, and concerns no other instance.
LEMMA CutShortEffect ==
    ASSUME GradingInv, NEW q \in Lookups, lookups[q] \in LookupState, CutShort(q)
    PROVE  /\ spells' \in [Instances -> [before : Statuses, given : SUBSET Statuses, cut : BOOLEAN]]
           /\ \A j \in Instances : j = lookups[q].instance => spells'[j].cut
           /\ \A j \in Instances : j # lookups[q].instance => spells'[j] = spells[j]
<1> DEFINE i == lookups[q].instance
<1>1. CASE i = None
  BY <1>1, GradingAssumption DEF CutShort, GradingInv, GradingTypeOK
<1>2. CASE i \in Instances
  <2>1. spells' = [spells EXCEPT ![i].cut = TRUE]
    BY <1>2, GradingAssumption DEF CutShort
  <2>2. spells[i] \in [before : Statuses, given : SUBSET Statuses, cut : BOOLEAN]
        /\ spells \in [Instances -> [before : Statuses, given : SUBSET Statuses, cut : BOOLEAN]]
    BY <1>2 DEF GradingInv, GradingTypeOK
  <2> QED BY <1>2, <2>1, <2>2
<1> QED BY <1>1, <1>2 DEF LookupState

LEMMA WriteFailsInv == ASSUME GradingInv, NEW q \in Lookups, WriteFails(q) PROVE GradingInv'
<1> DEFINE l == lookups[q]
           x == lookups'[q]
<1>1. PICK w : Writing(q, w) /\ Proceeds(q)
  BY DEF WriteFails
<1>2. /\ CutShort(q)
      /\ UNCHANGED <<registry, verifications, verification, counterfeits, minute, truths>>
  BY DEF WriteFails
<1>3. /\ l \in LookupState /\ l.pc = "write"
      /\ lookups' \in [Lookups -> {NoLookup} \cup LookupState]
      /\ \A o \in Lookups \ {q} : lookups'[o] = lookups[o]
      /\ x.pc = "write"
      /\ x.instance = l.instance /\ x.answer = l.answer /\ x.cert = l.cert /\ x.begun = l.begun
      /\ TodoOK(x)
  BY <1>1, ProceedsEffect
<1> HIDE DEF x
<1>4. lookups'[q] = x
  BY DEF x
<1>5. /\ spells' \in [Instances -> [before : Statuses, given : SUBSET Statuses, cut : BOOLEAN]]
      /\ \A j \in Instances : j = l.instance => spells'[j].cut
      /\ \A j \in Instances : j # l.instance => spells'[j] = spells[j]
  BY <1>2, <1>3, CutShortEffect
<1>6. GradingTypeOK'
  BY <1>2, <1>3, <1>5 DEF GradingInv, GradingTypeOK
<1>7. TodoInv'
  BY <1>3, <1>4, TodoStep
<1>8. /\ l.begun <= minute
      /\ l.answer # "unavailable" =>
           \E t \in truths : t.cert = l.cert /\ t.answer = l.answer /\ t.at + CacheTtl > l.begun
  BY <1>3 DEF GradingInv, FreshInv
<1>9. FreshInv'
  BY <1>2, <1>3, <1>4, <1>8, FreshStep
<1>10. ASSUME NEW j \in Instances PROVE ~spells'[j].cut => Settled(j)' /\ FlagsKept(j)'
  <2>1. CASE j = l.instance
    BY <1>5, <2>1
  <2>2. CASE j # l.instance
    <3>1. ~WroteBy(lookups[q], j) /\ ~WroteBy(lookups'[q], j) /\ ~Accuses(lookups'[q], j)
          /\ ~OwesBy(lookups[q], j, verification[j])
      BY <1>3, <1>4, <2>2 DEF WroteBy, OwesBy, Accuses
    <3> QED BY <1>2, <1>3, <1>5, <2>2, <3>1, KeepVerdict
  <2> QED BY <2>1, <2>2
<1>11. VerdictInv'
  BY <1>10 DEF VerdictInv
<1> QED BY <1>6, <1>7, <1>9, <1>11 DEF GradingInv

\* A lookup ends; what it leaves of each instance is to be shown.
LEMMA LookupEndsInv ==
    ASSUME GradingInv, NEW q \in Lookups, LookupBecomes(q, NoLookup),
           UNCHANGED <<registry, verifications, verification, counterfeits, minute, truths>>,
           spells' \in [Instances -> [before : Statuses, given : SUBSET Statuses, cut : BOOLEAN]],
           \A j \in Instances : \/ spells'[j].cut
                                \/ Settled(j)' /\ FlagsKept(j)'
                                \/ spells'[j] = spells[j] /\ ~WroteBy(lookups[q], j)
    PROVE  GradingInv'
<1>1. NoLookup.pc = "idle" /\ NoLookup \in {NoLookup} \cup LookupState
  BY DEF NoLookup
<1>2. /\ lookups'[q] = NoLookup /\ (\A o \in Lookups \ {q} : lookups'[o] = lookups[o])
      /\ lookups' \in [Lookups -> {NoLookup} \cup LookupState]
  BY <1>1, LookupBecomesOne DEF GradingInv
<1>3. GradingTypeOK'
  BY <1>2 DEF GradingInv, GradingTypeOK
<1>4. TodoInv'
  BY <1>1, <1>2, TodoStep
<1>5. FreshInv'
  BY <1>1, <1>2, FreshStep
<1>6. ASSUME NEW j \in Instances PROVE ~spells'[j].cut => Settled(j)' /\ FlagsKept(j)'
  <2>1. CASE spells'[j] = spells[j] /\ ~WroteBy(lookups[q], j)
    <3>1. ~WroteBy(lookups'[q], j) /\ ~Accuses(lookups'[q], j) /\ ~OwesBy(lookups[q], j, verification[j])
      BY <1>1, <1>2, <2>1 DEF WroteBy, OwesBy, Accuses
    <3> QED BY <1>2, <2>1, <3>1, KeepVerdict
  <2> QED BY <2>1
<1>7. VerdictInv'
  BY <1>6 DEF VerdictInv
<1> QED BY <1>3, <1>4, <1>5, <1>7 DEF GradingInv

LEMMA RespondInv == ASSUME GradingInv, NEW q \in Lookups, Respond(q) PROVE GradingInv'
<1> DEFINE l == lookups[q]
           i == l.instance
           verdict == Verdict(l)
<1>1. /\ l.pc = "write" /\ l.todo = <<>> /\ l \in LookupState /\ LookupBecomes(q, NoLookup)
      /\ UNCHANGED <<registry, verifications, verification, counterfeits, minute, truths>>
      /\ spells' = IF i = None \/ l.answer = "unavailable" THEN spells
                   ELSE [spells EXCEPT ![i].given = @ \cup {verdict}]
  BY LookupShape DEF Respond, GradingInv
<1>2. \A w : ~Has(l.todo, w)
  BY <1>1 DEF Has
<1>3. verdict \in Statuses
  BY DEF Verdict, StatusOf, Statuses
<1> HIDE DEF verdict
<1>4. spells \in [Instances -> [before : Statuses, given : SUBSET Statuses, cut : BOOLEAN]]
  BY DEF GradingInv, GradingTypeOK
<1>5. CASE i = None \/ l.answer = "unavailable"
  <2>1. UNCHANGED spells
    BY <1>1, <1>5
  <2>2. \A j \in Instances : ~WroteBy(l, j)
    BY <1>5, GradingAssumption DEF WroteBy
  <2> QED BY <1>1, <1>4, <2>1, <2>2, LookupEndsInv
<1>6. CASE i \in Instances /\ l.answer # "unavailable"
  <2>1. spells' = [spells EXCEPT ![i].given = @ \cup {verdict}]
    BY <1>1, <1>6, GradingAssumption
  <2>2. /\ spells' \in [Instances -> [before : Statuses, given : SUBSET Statuses, cut : BOOLEAN]]
        /\ spells'[i].given = spells[i].given \cup {verdict}
        /\ spells'[i].cut = spells[i].cut
        /\ \A j \in Instances \ {i} : spells'[j] = spells[j]
    BY <1>3, <1>4, <1>6, <2>1
  <2>3. \A o \in Lookups \ {q} : lookups'[o] = lookups[o]
    BY <1>1 DEF LookupBecomes, GradingInv, GradingTypeOK
  <2>4. lookups'[q].pc = "idle"
    BY <1>1 DEF LookupBecomes, GradingInv, GradingTypeOK, NoLookup
  <2>5. ASSUME NEW j \in Instances, j = i, ~spells[j].cut PROVE Settled(j)' /\ FlagsKept(j)'
    <3>1. Settled(j) /\ FlagsKept(j) /\ verification'[j] = verification[j]
      BY <1>1, <2>5 DEF GradingInv, VerdictInv
    <3>2. WroteBy(l, j)
      BY <1>1, <1>2, <1>6, <2>5 DEF WroteBy
    <3>3. Settled(j)'
      <4>1. CASE verification[j] \in spells[j].given
        BY <2>2, <2>5, <3>1, <4>1 DEF Settled
      <4>2. ASSUME NEW o \in Lookups, OwesBy(lookups[o], j, verification[j]) PROVE Settled(j)'
        <5>1. CASE o = q
          <6>1. verification[j] = verdict
            BY <1>2, <4>2, <5>1 DEF OwesBy, verdict
          <6> QED BY <2>2, <2>5, <3>1, <6>1 DEF Settled
        <5>2. CASE o # q
          BY <2>3, <3>1, <4>2, <5>2 DEF Settled
        <5> QED BY <5>1, <5>2
      <4> QED BY <3>1, <3>2, <4>1, <4>2 DEF Settled
    <3>4. Flagged(j)' <=> Flagged(j)
      BY <1>1 DEF Flagged
    <3>5. "unverified" \in spells'[j].given => Flagged(j)
      <4>1. CASE "unverified" \in spells[j].given
        BY <3>1, <4>1 DEF FlagsKept
      <4>2. CASE verdict = "unverified"
        <5>1. Accuses(l, j)
          BY <1>1, <2>5, <4>2 DEF Accuses, verdict, Verdict, StatusOf
        <5> QED BY <1>2, <3>1, <5>1 DEF FlagsKept
      <4> QED BY <2>2, <2>5, <4>1, <4>2
    <3>6. ASSUME NEW o \in Lookups, Accuses(lookups'[o], j)
          PROVE  Has(lookups'[o].todo, "flag") \/ Flagged(j)
      <4>1. o # q
        BY <2>4, <3>6 DEF Accuses
      <4> QED BY <2>3, <3>1, <3>6, <4>1 DEF FlagsKept
    <3>7. FlagsKept(j)'
      BY <3>4, <3>5, <3>6 DEF FlagsKept
    <3> QED BY <3>3, <3>7
  <2>6. ASSUME NEW j \in Instances
        PROVE  \/ spells'[j].cut
               \/ Settled(j)' /\ FlagsKept(j)'
               \/ spells'[j] = spells[j] /\ ~WroteBy(lookups[q], j)
    <3>1. CASE j = i
      BY <2>2, <2>5, <3>1
    <3>2. CASE j # i
      BY <2>2, <3>2 DEF WroteBy
    <3> QED BY <3>1, <3>2
  <2> QED BY <1>1, <2>2, <2>6, LookupEndsInv
<1> QED BY <1>1, <1>5, <1>6 DEF LookupState

LEMMA GiveUpInv == ASSUME GradingInv, NEW q \in Lookups, GiveUp(q) PROVE GradingInv'
<1> DEFINE l == lookups[q]
<1>1. /\ l \in LookupState /\ LookupBecomes(q, NoLookup)
      /\ UNCHANGED <<registry, verifications, verification, counterfeits, minute, truths>>
      /\ IF l.pc = "write" THEN CutShort(q) ELSE UNCHANGED spells
  BY LookupShape DEF GiveUp, GradingInv
<1>2. CASE l.pc = "write"
  <2>1. /\ spells' \in [Instances -> [before : Statuses, given : SUBSET Statuses, cut : BOOLEAN]]
        /\ \A j \in Instances : j = l.instance => spells'[j].cut
        /\ \A j \in Instances : j # l.instance => spells'[j] = spells[j]
    BY <1>1, <1>2, CutShortEffect
  <2>2. \A j \in Instances : j # l.instance => ~WroteBy(l, j)
    BY DEF WroteBy
  <2> QED BY <1>1, <2>1, <2>2, LookupEndsInv
<1>3. CASE l.pc # "write"
  <2>1. /\ UNCHANGED spells
        /\ spells \in [Instances -> [before : Statuses, given : SUBSET Statuses, cut : BOOLEAN]]
    BY <1>1, <1>3 DEF GradingInv, GradingTypeOK
  <2>2. \A j \in Instances : ~WroteBy(l, j)
    BY <1>3 DEF WroteBy
  <2> QED BY <1>1, <2>1, <2>2, LookupEndsInv
<1> QED BY <1>2, <1>3

\* What is said of instances does not depend on what the grader says.
LEMMA SameVerdicts ==
    ASSUME VerdictInv, UNCHANGED <<verification, counterfeits, lookups, spells>> PROVE VerdictInv'
  BY DEF VerdictInv, Settled, FlagsKept, Flagged

LEMMA RegistryChangesInv ==
    ASSUME GradingInv, NEW c \in Certs, NEW n \in Names \cup {None}, RegistryChanges(c, n) PROVE GradingInv'
<1>1. /\ registry' = [registry EXCEPT ![c] = n] /\ truths' = truths \cup {Truth(c, n, minute)}
      /\ UNCHANGED <<verifications, verification, counterfeits, lookups, minute, spells>>
  BY DEF RegistryChanges
<1>2. GradingTypeOK'
  BY <1>1 DEF GradingInv, GradingTypeOK, Truth
<1>3. \A d \in Certs : Truth(d, registry'[d], minute) \in truths'
  BY <1>1 DEF GradingInv, GradingTypeOK, FreshInv
<1>4. FreshInv'
  BY <1>1, <1>3 DEF GradingInv, FreshInv, Given, Truth
<1>5. TodoInv' /\ VerdictInv'
  BY <1>1, SameVerdicts DEF GradingInv, TodoInv
<1> QED BY <1>2, <1>4, <1>5 DEF GradingInv

LEMMA MinutePassesInv == ASSUME GradingInv, MinutePasses PROVE GradingInv'
<1>1. /\ \A q \in Lookups : lookups[q].pc # "store"
      /\ minute' = minute + 1 /\ minute \in Nat
      /\ truths' = truths \cup {Truth(c, registry[c], minute') : c \in Certs}
      /\ UNCHANGED <<registry, verifications, verification, counterfeits, lookups, spells>>
  BY DEF MinutePasses, GradingInv, GradingTypeOK
<1>2. GradingTypeOK'
  BY <1>1 DEF GradingInv, GradingTypeOK, Truth
<1>3. \A d \in Certs : Truth(d, registry[d], minute') \in truths'
  BY <1>1
<1>4. \A q \in Lookups : lookups[q].pc # "idle" => lookups[q].begun <= minute'
  <2> SUFFICES ASSUME NEW q \in Lookups, lookups[q].pc # "idle" PROVE lookups[q].begun <= minute'
    OBVIOUS
  <2>1. lookups[q].begun \in Nat /\ lookups[q].begun <= minute
    BY LookupShape DEF GradingInv, FreshInv, LookupState
  <2> QED BY <1>1, <2>1
<1>5. FreshInv'
  BY <1>1, <1>3, <1>4 DEF GradingInv, FreshInv, Given, Truth
<1>6. TodoInv' /\ VerdictInv'
  BY <1>1, SameVerdicts DEF GradingInv, TodoInv
<1> QED BY <1>2, <1>5, <1>6 DEF GradingInv

LEMMA GradingNext == ASSUME GradingInv, [Next]_vars PROVE GradingInv'
<1>1. CASE UNCHANGED gradingVars
  BY <1>1, SameVerdicts DEF gradingVars, GradingInv, GradingTypeOK, TodoInv, FreshInv, Given, Truth
<1>2. CASE GradingStep
  <2>1. ASSUME NEW q \in Lookups, NEW i \in Instances \cup {None}, NEW c \in Certs,
               NEW n \in Names \cup {None}, BeginVerify(q, i, c, n)
        PROVE  GradingInv'
    BY <2>1, BeginVerifyInv
  <2>2. ASSUME NEW q \in Lookups,
               \/ Ask(q) \/ StoreResult(q) \/ UpdateStatus(q) \/ RaiseCounterfeitFlag(q)
               \/ WriteMismatch(q) \/ WriteFails(q) \/ Respond(q) \/ GiveUp(q)
        PROVE  GradingInv'
    BY <2>2, AskInv, StoreResultInv, UpdateStatusInv, RaiseCounterfeitFlagInv, WriteMismatchInv,
       WriteFailsInv, RespondInv, GiveUpInv
  <2>3. ASSUME NEW c \in Certs, NEW n \in Names \cup {None}, RegistryChanges(c, n) PROVE GradingInv'
    BY <2>3, RegistryChangesInv
  <2>4. CASE MinutePasses
    BY <2>4, MinutePassesInv
  <2> QED BY <1>2, <2>1, <2>2, <2>3, <2>4 DEF GradingStep
<1> QED BY <1>1, <1>2 DEF Next, Verify, Appraise, Identify, Connect, FetchPage, vars

\* The inductive invariant of the lookups holds in every state.
LEMMA LookupsSound == Spec => []GradingInv
<1>1. Init => GradingInv
  BY GradingInitInv DEF Init
<1> QED BY <1>1, GradingNext, PTL DEF Spec

\* A lookup answers what the grader would have said of that certificate within the
\* time to live of the cache, or later, and a counterfeit flag accuses a card of what
\* it once would have said, whatever any number of lookups store and read at once
\* (get_cached, verify_cert, raise_counterfeit_flag).
THEOREM AnswersAreFresh == Spec => []AnswersFresh
<1>1. GradingInv => AnswersFresh
  BY DEF GradingInv, FreshInv, AnswersFresh
<1> QED BY <1>1, LookupsSound, PTL

\* When the lookups of an instance have ended and none was cut short, its status is
\* the verdict of one of them, or what it was before if none had an answer, however
\* their writes crossed; and a certificate that was not found has left a flag
\* (update_instance_status, verify_instance).
THEOREM VerdictsAreRecorded == Spec => []VerdictRecorded
<1>1. GradingInv => VerdictRecorded
  <2> SUFFICES ASSUME GradingInv, NEW i \in Instances, Quiet(i), ~spells[i].cut
               PROVE  /\ verification[i] \in
                           IF spells[i].given = {} THEN {spells[i].before} ELSE spells[i].given
                      /\ "unverified" \in spells[i].given => \E f \in counterfeits : f.instance = i
    BY DEF VerdictRecorded
  <2>1. Settled(i) /\ FlagsKept(i)
    BY DEF GradingInv, VerdictInv
  <2>2. \A q \in Lookups : ~OwesBy(lookups[q], i, verification[i])
    BY DEF Quiet, LooksUp, OwesBy, WroteBy
  <2> QED BY <2>1, <2>2 DEF Settled, FlagsKept, Flagged
<1> QED BY <1>1, LookupsSound, PTL

-----------------------------------------------------------------------------
(* Search: the inductive invariant behind a complete walk.                 *)

Fields == {"pc", "text", "limit", "page", "seen", "rows", "n"}
WalkState(s) ==
    /\ DOMAIN s = Fields
    /\ s.pc \in {"search", "ask", "cache", "done"}
    /\ s.text \in Texts /\ s.limit \in Limits /\ s.page \in Nat \ {0}

\* A walk with a query of a name, a set or a number has seen all of the pages that
\* it is past, and holds the next one while it caches it.
Followed(s) ==
    LET found == ApiFinds[s.text] IN
    /\ s.pc # "done" =>
         \A k \in 1..Len(found) : k <= (s.page - 1) * s.limit => found[k] \in s.seen
    /\ s.pc = "cache" => s.rows = TcgSearch(s.text, s.page, s.limit)
    /\ s.pc = "done" => \A k \in 1..Len(found) : found[k] \in s.seen

WalkOK(s) ==
    \/ s = Apart
    \/ WalkState(s) /\ (s.text \notin Typed /\ s.limit <= MaxPageSize => Followed(s))

SearchInv == DOMAIN walks = Walkers /\ \A w \in Walkers : WalkOK(walks[w])

LEMMA MinOfTwo == ASSUME NEW a \in Int, NEW b \in Int PROVE Min({a, b}) = IF a <= b THEN a ELSE b
  BY DEF Min

\* A page has what is on it of the whole, and one that is not full is the last.
LEMMA PageHas ==
    ASSUME NEW S, NEW all \in Seq(S), NEW page \in Nat \ {0}, NEW size \in Nat
    PROVE  /\ \A k \in 1..Len(all) :
                k > (page - 1) * size /\ k <= page * size => all[k] \in ToSet(Page(all, page, size))
           /\ Len(Page(all, page, size)) < size => Len(all) < page * size
           /\ page * size = (page - 1) * size + size
<1> DEFINE from == (page - 1) * size
           to == page * size
           end == Min({to, Len(all)})
           rows == Page(all, page, size)
<1>1. from \in Nat /\ to \in Nat /\ to = from + size
  OBVIOUS
<1>2. rows = SubSeq(all, from + 1, end)
  BY DEF Page
<1> HIDE DEF from, to
<1>3. end = IF to <= Len(all) THEN to ELSE Len(all)
  BY <1>1, MinOfTwo
<1> HIDE DEF end, rows
<1>4. end \in Nat /\ end <= Len(all)
  BY <1>1, <1>3
<1>5. /\ Len(rows) = IF from + 1 <= end THEN end - from ELSE 0
      /\ \A n \in 1..(end - from) : n \in DOMAIN rows /\ rows[n] = all[n + from]
  BY <1>1, <1>2, <1>4
<1>6. ASSUME NEW k \in 1..Len(all), k > from, k <= to PROVE all[k] \in ToSet(rows)
  <2>1. k - from \in 1..(end - from)
    BY <1>1, <1>3, <1>6
  <2>2. k - from \in DOMAIN rows /\ rows[k - from] = all[k]
    BY <1>1, <1>5, <2>1
  <2> QED BY <2>2 DEF ToSet
<1>7. Len(rows) < size => Len(all) < to
  BY <1>1, <1>3, <1>4, <1>5
<1> QED BY <1>1, <1>6, <1>7 DEF from, to, rows

LEMMA PageLength ==
    ASSUME NEW S, NEW all \in Seq(S), NEW page \in Nat \ {0}, NEW size \in Nat
    PROVE  Len(Page(all, page, size)) \in Int
<1>1. page * size \in Nat /\ (page - 1) * size + 1 \in Nat
  OBVIOUS
<1>2. Min({page * size, Len(all)}) \in Nat /\ Min({page * size, Len(all)}) <= Len(all)
  BY <1>1, MinOfTwo
<1> QED BY <1>1, <1>2 DEF Page

\* Only one client goes on.
LEMMA WalkStep ==
    ASSUME SearchInv, NEW w \in Walkers, NEW x, walks' = [walks EXCEPT ![w] = x], WalkOK(x)
    PROVE  SearchInv'
<1>1. DOMAIN walks' = Walkers /\ \A o \in Walkers : WalkOK(walks'[o])
  BY DEF SearchInv
<1> QED BY <1>1 DEF SearchInv

LEMMA WalkShape ==
    ASSUME SearchInv, NEW w \in Walkers, walks[w].pc # "idle"
    PROVE  WalkState(walks[w])
           /\ (walks[w].text \notin Typed /\ walks[w].limit <= MaxPageSize => Followed(walks[w]))
  BY DEF SearchInv, WalkOK, Apart

\* The cache has nothing for a query that was not typed.
LEMMA CacheMisses ==
    ASSUME NEW text, NEW page, NEW limit, text \notin Typed PROVE SearchCache(text, page, limit) = <<>>
  BY DEF SearchCache, Alike

\* A client who is shown a page goes on behind it, or is done with the last.
LEMMA ShowsInv ==
    ASSUME SearchInv, NEW w \in Walkers, walks[w].pc # "idle", walks[w].pc # "done", NEW rows, Shows(w, rows),
           walks[w].text \notin Typed /\ walks[w].limit <= MaxPageSize =>
             rows = TcgSearch(walks[w].text, walks[w].page, walks[w].limit)
    PROVE  SearchInv'
<1> DEFINE s == walks[w]
           found == ApiFinds[s.text]
           x == [s EXCEPT !.pc = IF Len(rows) >= s.limit THEN "search" ELSE "done",
                          !.page = @ + 1, !.seen = @ \cup ToSet(rows), !.rows = <<>>, !.n = 0]
<1>1. WalkState(s) /\ (s.text \notin Typed /\ s.limit <= MaxPageSize => Followed(s))
  BY WalkShape
<1>2. /\ x.pc = IF Len(rows) >= s.limit THEN "search" ELSE "done"
      /\ x.page = s.page + 1 /\ x.seen = s.seen \cup ToSet(rows)
      /\ x.text = s.text /\ x.limit = s.limit /\ DOMAIN x = Fields
  BY <1>1 DEF WalkState, Fields
<1>3. walks' = [walks EXCEPT ![w] = x]
  BY DEF Shows
<1> HIDE DEF x
<1>4. WalkState(x)
  BY <1>1, <1>2 DEF WalkState
<1>5. ASSUME s.text \notin Typed, s.limit <= MaxPageSize PROVE Followed(x)
  <2>1. s.limit \in Nat /\ s.page \in Nat \ {0} /\ found \in Seq(Cards)
    BY <1>1, CardSearchAssumption DEF WalkState
  <2>2. rows = Page(found, s.page, s.limit)
    <3>1. Min({s.limit, MaxPageSize}) = s.limit
      BY <1>5, <2>1, MinOfTwo, CardSearchAssumption
    <3> QED BY <1>5, <3>1 DEF TcgSearch
  <2>3. /\ \A k \in 1..Len(found) :
             k > (s.page - 1) * s.limit /\ k <= s.page * s.limit => found[k] \in ToSet(rows)
        /\ Len(rows) < s.limit => Len(found) < s.page * s.limit
    BY <2>1, <2>2, PageHas
  <2>4. \A k \in 1..Len(found) : k <= (s.page - 1) * s.limit => found[k] \in s.seen
    BY <1>1, <1>5 DEF Followed
  <2>5. (s.page - 1) * s.limit \in Int /\ s.page * s.limit \in Int /\ x.page - 1 = s.page
    BY <1>2, <2>1
  <2>6. \A k \in 1..Len(found) : k <= s.page * s.limit => found[k] \in x.seen
    BY <1>2, <2>3, <2>4, <2>5
  <2>7. Len(rows) < s.limit => \A k \in 1..Len(found) : found[k] \in x.seen
    BY <2>1, <2>3, <2>5, <2>6
  <2>8. x.pc = "done" => Len(rows) < s.limit
    <3>1. Len(rows) \in Int
      BY <2>1, <2>2, <2>3, PageLength
    <3> QED BY <1>2, <2>1, <3>1
  <2> QED BY <1>2, <2>5, <2>6, <2>7, <2>8 DEF Followed
<1>6. WalkOK(x)
  BY <1>2, <1>4, <1>5 DEF WalkOK
<1> QED BY <1>3, <1>6, WalkStep

LEMMA SearchNext == ASSUME SearchInv, [Next]_vars PROVE SearchInv'
<1>1. CASE UNCHANGED walks
  BY <1>1 DEF SearchInv
<1>2. CASE SearchStep
  <2>1. ASSUME NEW w \in Walkers, NEW text \in Texts, NEW limit \in Limits, BeginWalk(w, text, limit)
        PROVE  SearchInv'
    <3> DEFINE x == [pc |-> "search", text |-> text, limit |-> limit, page |-> 1,
                     seen |-> {}, rows |-> <<>>, n |-> 0]
    <3>1. x.page = 1 /\ x.pc = "search" /\ x.text = text /\ x.limit = limit /\ DOMAIN x = Fields
      BY DEF Fields
    <3>2. walks' = [walks EXCEPT ![w] = x]
      BY <2>1 DEF BeginWalk
    <3> HIDE DEF x
    <3>3. limit \in Nat /\ (1 - 1) * limit = 0
      BY CardSearchAssumption
    <3>4. WalkState(x) /\ Followed(x)
      BY <3>1, <3>3 DEF WalkState, Followed
    <3> QED BY <3>2, <3>4, WalkStep DEF WalkOK
  <2>2. ASSUME NEW w \in Walkers, Search(w) PROVE SearchInv'
    <3> DEFINE s == walks[w]
               hits == SearchCache(s.text, s.page, s.limit)
    <3>1. CASE hits # <<>>
      <4>1. s.text \in Typed /\ s.pc = "search" /\ Shows(w, hits)
        BY <2>2, <3>1, CacheMisses DEF Search
      <4> QED BY <4>1, ShowsInv
    <3>2. CASE hits = <<>>
      <4> DEFINE x == [s EXCEPT !.pc = "ask"]
      <4>1. s.pc = "search" /\ walks' = [walks EXCEPT ![w] = x]
        BY <2>2, <3>2 DEF Search
      <4>2. WalkState(s) /\ (s.text \notin Typed /\ s.limit <= MaxPageSize => Followed(s))
        BY <4>1, WalkShape
      <4>3. /\ x.pc = "ask" /\ x.page = s.page /\ x.seen = s.seen
            /\ x.text = s.text /\ x.limit = s.limit /\ DOMAIN x = Fields
        BY <4>2 DEF WalkState, Fields
      <4> HIDE DEF x
      <4>4. WalkState(x) /\ (s.text \notin Typed /\ s.limit <= MaxPageSize => Followed(x))
        BY <4>1, <4>2, <4>3 DEF WalkState, Followed
      <4> QED BY <4>1, <4>3, <4>4, WalkStep DEF WalkOK
    <3> QED BY <3>1, <3>2
  <2>3. ASSUME NEW w \in Walkers, AskTcg(w) PROVE SearchInv'
    <3> DEFINE s == walks[w]
               rows == TcgSearch(s.text, s.page, s.limit)
               x == [s EXCEPT !.pc = "cache", !.rows = rows]
    <3>1. s.pc = "ask" /\ walks' = [walks EXCEPT ![w] = x]
      BY <2>3 DEF AskTcg
    <3>2. WalkState(s) /\ (s.text \notin Typed /\ s.limit <= MaxPageSize => Followed(s))
      BY <3>1, WalkShape
    <3>3. /\ x.pc = "cache" /\ x.page = s.page /\ x.seen = s.seen /\ x.rows = rows
          /\ x.text = s.text /\ x.limit = s.limit /\ DOMAIN x = Fields
      BY <3>2 DEF WalkState, Fields
    <3> HIDE DEF x
    <3>4. WalkState(x) /\ (s.text \notin Typed /\ s.limit <= MaxPageSize => Followed(x))
      BY <3>1, <3>2, <3>3 DEF WalkState, Followed
    <3> QED BY <3>1, <3>3, <3>4, WalkStep DEF WalkOK
  <2>4. ASSUME NEW w \in Walkers, CachePrinting(w) PROVE SearchInv'
    <3> DEFINE s == walks[w]
               x == [s EXCEPT !.n = @ + 1]
    <3>1. s.pc = "cache" /\ walks' = [walks EXCEPT ![w] = x]
      BY <2>4 DEF CachePrinting
    <3>2. WalkState(s) /\ (s.text \notin Typed /\ s.limit <= MaxPageSize => Followed(s))
      BY <3>1, WalkShape
    <3>3. /\ x.pc = s.pc /\ x.page = s.page /\ x.seen = s.seen /\ x.rows = s.rows
          /\ x.text = s.text /\ x.limit = s.limit /\ DOMAIN x = Fields
      BY <3>2 DEF WalkState, Fields
    <3> HIDE DEF x
    <3>4. WalkState(x) /\ (s.text \notin Typed /\ s.limit <= MaxPageSize => Followed(x))
      BY <3>1, <3>2, <3>3 DEF WalkState, Followed
    <3> QED BY <3>1, <3>3, <3>4, WalkStep DEF WalkOK
  <2>5. ASSUME NEW w \in Walkers, ShowPage(w) PROVE SearchInv'
    <3>1. walks[w].pc = "cache" /\ Shows(w, walks[w].rows)
      BY <2>5 DEF ShowPage
    <3>2. walks[w].text \notin Typed /\ walks[w].limit <= MaxPageSize =>
            walks[w].rows = TcgSearch(walks[w].text, walks[w].page, walks[w].limit)
      BY <3>1, WalkShape DEF Followed
    <3> QED BY <3>1, <3>2, ShowsInv
  <2>6. ASSUME NEW w \in Walkers, SearchFails(w) PROVE SearchInv'
    <3> DEFINE s == walks[w]
               x == [s EXCEPT !.pc = "search", !.rows = <<>>, !.n = 0]
    <3>1. s.pc \in {"search", "ask", "cache"} /\ walks' = [walks EXCEPT ![w] = x]
      BY <2>6 DEF SearchFails
    <3>2. WalkState(s) /\ (s.text \notin Typed /\ s.limit <= MaxPageSize => Followed(s))
      BY <3>1, WalkShape
    <3>3. /\ x.pc = "search" /\ x.page = s.page /\ x.seen = s.seen
          /\ x.text = s.text /\ x.limit = s.limit /\ DOMAIN x = Fields
      BY <3>2 DEF WalkState, Fields
    <3> HIDE DEF x
    <3>4. WalkState(x) /\ (s.text \notin Typed /\ s.limit <= MaxPageSize => Followed(x))
      BY <3>1, <3>2, <3>3 DEF WalkState, Followed
    <3> QED BY <3>1, <3>3, <3>4, WalkStep DEF WalkOK
  <2>7. ASSUME NEW w \in Walkers, Leave(w) PROVE SearchInv'
    BY <2>7, WalkStep DEF Leave, WalkOK
  <2>8. CASE DayPasses
    BY <1>1, <2>8 DEF DayPasses
  <2> QED BY <1>2, <2>1, <2>2, <2>3, <2>4, <2>5, <2>6, <2>7, <2>8 DEF SearchStep
<1> QED BY <1>1, <1>2 DEF Next, Verify, Appraise, Identify, Connect, FetchPage, vars, searchVars

\* A client who has followed the cursors of a search by name, set or number to the
\* end has seen every card that the API has for it, whatever other clients cache
\* meanwhile and whichever searches fail half-way (search, search_cache,
\* cache_printings).
THEOREM SearchesAreComplete == Spec => []SearchComplete
<1>1. Init => SearchInv
  BY DEF Init, SearchInit, SearchInv, WalkOK
<1>2. SearchInv => SearchComplete
  <2> SUFFICES ASSUME SearchInv, NEW w \in Walkers, walks[w].pc = "done", walks[w].text \notin Typed,
                      walks[w].limit <= MaxPageSize
               PROVE  ToSet(ApiFinds[walks[w].text]) \subseteq walks[w].seen
    BY DEF SearchComplete
  <2>1. WalkState(walks[w]) /\ Followed(walks[w])
    BY WalkShape
  <2>2. ApiFinds[walks[w].text] \in Seq(Cards)
    BY <2>1, CardSearchAssumption DEF WalkState
  <2> QED BY <2>1, <2>2 DEF Followed, ToSet
<1> QED BY <1>1, <1>2, SearchNext, PTL DEF Spec

-----------------------------------------------------------------------------
(* Prices: the inductive invariant behind their renewal.                   *)

\* A printing that the batch of the scheduler has yet to give a price.
InBatch(p) ==
    LET s == refreshing[Daily] IN
    /\ s.pc # "idle"
    /\ p \in s.left \/ (s.pc \in {"fetch", "ask", "upsert"} /\ s.printing = p)

\* A printing without a price appeared since the last run of the task that did not
\* fail, and a price was no day old then, unless the task is about to run or to come to
\* the printing.
Due(p) ==
    \/ nextTick = hour
    \/ InBatch(p)
    \/ valuations[p] = NoPrice /\ known[p] + Patience(p) >= nextTick
    \/ valuations[p] # NoPrice /\ valuations[p].at + StaleHours + Patience(p) > nextTick

Timely(p) ==
    CASE Shown(p) = "pending" -> hour - known[p] <= Patience(p)
      [] Shown(p) = "stale" -> Age(p) < StaleHours + Patience(p)
      [] Shown(p) = "current" -> TRUE

\* Only the printings there are have prices, or are about to.
PricedAreKnown ==
    /\ \A p \in Printings : known[p] = NoPrice => valuations[p] = NoPrice
    /\ \A r \in Refreshers :
         refreshing[r].pc \in {"ask", "upsert", "snapshot"} => known[refreshing[r].printing] # NoPrice

RenewInv ==
    /\ PricesTypeOK
    /\ PricedAreKnown
    /\ known \in [Printings -> Nat \cup {NoPrice}]
    /\ missed \in [Printings -> Nat]
    /\ valuations \in [Printings -> {NoPrice} \cup ValuationRow]
    /\ nextTick \in Nat /\ hour <= nextTick /\ nextTick <= hour + RefreshHours
    /\ \A r \in Refreshers : refreshing[r].pc \in {"upsert", "snapshot"} => refreshing[r].at = hour
    /\ \A p \in Printings : known[p] # NoPrice /\ p \notin outages => Due(p) /\ Timely(p)

LEMMA Waits ==
    ASSUME NEW n \in Nat
    PROVE  /\ RefreshHours * (1 + n) \in Nat /\ RefreshHours * (1 + n) >= RefreshHours
           /\ RefreshHours * (1 + (n + 1)) = RefreshHours * (1 + n) + RefreshHours
  BY ValuationsAssumption

LEMMA PatienceIs ==
    ASSUME RenewInv, NEW p \in Printings
    PROVE  /\ Patience(p) \in Nat /\ Patience(p) >= RefreshHours
           /\ missed'[p] = missed[p] => Patience(p)' = Patience(p)
           /\ missed'[p] = missed[p] + 1 => Patience(p)' = Patience(p) + RefreshHours
  <1>1. missed[p] \in Nat
    BY DEF RenewInv
  <1> QED BY <1>1, Waits DEF Patience

\* A batch goes on with all that it has left.
LEMMA ContinuesBatch ==
    ASSUME PricesTypeOK, NEW r \in Refreshers, NEW failed, Continues(r, failed),
           refreshing[r].left \in SUBSET Printings
    PROVE  \A p \in refreshing[r].left :
             refreshing'[r].pc = "fetch" /\ (p \in refreshing'[r].left \/ refreshing'[r].printing = p)
<1> SUFFICES ASSUME refreshing[r].left # {}
             PROVE  \A p \in refreshing[r].left :
                      refreshing'[r].pc = "fetch" /\ (p \in refreshing'[r].left \/ refreshing'[r].printing = p)
  OBVIOUS
<1>1. PICK p \in refreshing[r].left :
             RefreshBecomes(r, [pc |-> "fetch", printing |-> p, left |-> refreshing[r].left \ {p}])
  BY DEF Continues
<1> DEFINE x == [pc |-> "fetch", printing |-> p, left |-> refreshing[r].left \ {p}]
<1>2. x \in FetchState /\ x.pc = "fetch" /\ x.printing = p /\ x.left = refreshing[r].left \ {p}
  BY DEF FetchState
<1> HIDE DEF x
<1>3. refreshing'[r] = x
  BY <1>1, <1>2, RefreshBecomesOne DEF x
<1> QED BY <1>2, <1>3

\* A refresh goes on without a price written, and the task loses no printing of its
\* batch but with an outage.
LEMMA RenewStep ==
    ASSUME RenewInv, NEW r \in Refreshers, UNCHANGED <<known, valuations, hour, nextTick, missed>>,
           shelf' \in [Printings -> Shelves],
           \A o \in Refreshers \ {r} : refreshing'[o] = refreshing[o],
           refreshing' \in [Refreshers -> {NoRefresh} \cup FetchState \cup PricedState],
           refreshing'[r].pc \in {"upsert", "snapshot"} => refreshing'[r].at = hour,
           refreshing'[r].pc \in {"ask", "upsert", "snapshot"} => known[refreshing'[r].printing] # NoPrice,
           outages \subseteq outages',
           \A p \in Printings :
             /\ known[p] # NoPrice /\ p \notin outages' /\ r = Daily /\ InBatch(p)
             => LET s == refreshing'[r] IN
                /\ s.pc # "idle"
                /\ p \in s.left \/ (s.pc \in {"fetch", "ask", "upsert"} /\ s.printing = p)
    PROVE  RenewInv'
<1>1. PricesTypeOK'
  BY DEF RenewInv, PricesTypeOK
<1>2. \A o \in Refreshers : refreshing'[o].pc \in {"upsert", "snapshot"} => refreshing'[o].at = hour'
  <2> SUFFICES ASSUME NEW o \in Refreshers, refreshing'[o].pc \in {"upsert", "snapshot"}
               PROVE  refreshing'[o].at = hour
    OBVIOUS
  <2>1. CASE o = r
    BY <2>1
  <2>2. CASE o # r
    BY <2>2 DEF RenewInv
  <2> QED BY <2>1, <2>2
<1>3. ASSUME NEW p \in Printings, known[p] # NoPrice, p \notin outages' PROVE Due(p)' /\ Timely(p)'
  <2>1. Due(p) /\ Timely(p)
    BY <1>3 DEF RenewInv
  <2>2. Timely(p)' /\ Patience(p)' = Patience(p)
    BY <2>1, PatienceIs DEF Timely, Shown, Age
  <2>3. InBatch(p) => InBatch(p)'
    <3>1. CASE r = Daily
      BY <1>3, <3>1 DEF InBatch
    <3>2. CASE r # Daily
      BY <3>2 DEF InBatch, Refreshers
    <3> QED BY <3>1, <3>2
  <2> QED BY <2>1, <2>2, <2>3 DEF Due
<1>4. /\ known' \in [Printings -> Nat \cup {NoPrice}] /\ missed' \in [Printings -> Nat]
      /\ valuations' \in [Printings -> {NoPrice} \cup ValuationRow]
      /\ nextTick' \in Nat /\ hour' <= nextTick' /\ nextTick' <= hour' + RefreshHours
  BY DEF RenewInv
<1>5. PricedAreKnown'
  <2>1. \A o \in Refreshers : refreshing'[o].pc \in {"ask", "upsert", "snapshot"}
                              => known'[refreshing'[o].printing] # NoPrice
    <3> SUFFICES ASSUME NEW o \in Refreshers, refreshing'[o].pc \in {"ask", "upsert", "snapshot"}
                 PROVE  known[refreshing'[o].printing] # NoPrice
      OBVIOUS
    <3>1. CASE o = r
      BY <3>1
    <3>2. CASE o # r
      BY <3>2 DEF RenewInv, PricedAreKnown
    <3> QED BY <3>1, <3>2
  <2> QED BY <2>1 DEF RenewInv, PricedAreKnown
<1> QED BY <1>1, <1>2, <1>3, <1>4, <1>5 DEF RenewInv

LEMMA RenewShape ==
    ASSUME RenewInv, NEW r \in Refreshers
    PROVE  /\ PricesTypeOK
           /\ refreshing[r].pc = "idle" => refreshing[r] = NoRefresh
           /\ refreshing[r].pc \in {"fetch", "ask"} => refreshing[r] \in FetchState
           /\ refreshing[r].pc \in {"upsert", "snapshot"} => refreshing[r] \in PricedState
           /\ refreshing[r].pc # "idle" => refreshing[r].left \in SUBSET Printings /\ refreshing[r].printing \in Printings
  <1>1. PricesTypeOK
    BY DEF RenewInv
  <1> QED BY <1>1, RefreshShape DEF PricesTypeOK, NoRefresh, FetchState, PricedState

\* A refresh that has got a price is about to write it.
LEMMA ResolvedBatch ==
    ASSUME RenewInv, NEW r \in Refreshers, refreshing[r] \in FetchState,
           NEW amount \in Amounts, NEW source \in {"tcgplayer", "pricecharting"},
           Resolved(r, Price(amount, source))
    PROVE  /\ refreshing'[r].pc = "upsert" /\ refreshing'[r].at = hour
           /\ refreshing'[r].printing = refreshing[r].printing /\ refreshing'[r].left = refreshing[r].left
           /\ \A o \in Refreshers \ {r} : refreshing'[o] = refreshing[o]
           /\ refreshing' \in [Refreshers -> {NoRefresh} \cup FetchState \cup PricedState]
<1> DEFINE x == [pc |-> "upsert", printing |-> refreshing[r].printing, left |-> refreshing[r].left,
                 price |-> amount, source |-> source, at |-> hour]
<1>1. /\ x \in PricedState /\ x.pc = "upsert" /\ x.printing = refreshing[r].printing
      /\ x.left = refreshing[r].left /\ x.at = hour
  BY DEF RenewInv, PricesTypeOK, PricedState, FetchState
<1>2. RefreshBecomes(r, x)
  BY DEF Resolved, Price
<1> HIDE DEF x
<1> QED BY <1>1, <1>2, RefreshBecomesOne DEF RenewInv

LEMMA FetchPrintingRenew == ASSUME RenewInv, NEW r \in Refreshers, FetchPrinting(r) PROVE RenewInv'
<1> DEFINE p == refreshing[r].printing
<1>1. /\ refreshing[r] \in FetchState /\ refreshing[r].pc = "fetch" /\ p \in Printings
      /\ refreshing[r].left \in SUBSET Printings /\ PricesTypeOK
      /\ shelf' \in [Printings -> Shelves]
      /\ UNCHANGED <<known, valuations, snapshots, nextTick, hour, outages, unpaired, missed>>
  BY RenewShape DEF FetchPrinting, PricesTypeOK
<1>2. CASE known[p] = NoPrice /\ Continues(r, FALSE)
  <2>1. /\ refreshing'[r].pc \in {"idle", "fetch"}
        /\ \A o \in Refreshers \ {r} : refreshing'[o] = refreshing[o]
        /\ refreshing' \in [Refreshers -> {NoRefresh} \cup FetchState \cup PricedState]
    BY <1>1, <1>2, ContinuesEffect
  <2>2. \A i \in refreshing[r].left :
          refreshing'[r].pc = "fetch" /\ (i \in refreshing'[r].left \/ refreshing'[r].printing = i)
    BY <1>1, <1>2, ContinuesBatch
  <2> QED BY <1>1, <1>2, <2>1, <2>2, RenewStep DEF InBatch
<1>3. CASE known[p] # NoPrice /\ Market(p) # NoPrice /\ Resolved(r, Price(Market(p), "tcgplayer"))
  <2>1. Market(p) \in Amounts
    BY <1>1 DEF Amounts, Market
  <2>2. /\ refreshing'[r].pc = "upsert" /\ refreshing'[r].at = hour
        /\ refreshing'[r].printing = p /\ refreshing'[r].left = refreshing[r].left
        /\ \A o \in Refreshers \ {r} : refreshing'[o] = refreshing[o]
        /\ refreshing' \in [Refreshers -> {NoRefresh} \cup FetchState \cup PricedState]
    BY <1>1, <1>3, <2>1, ResolvedBatch
  <2> QED BY <1>1, <1>3, <2>2, RenewStep DEF InBatch
<1>4. CASE known[p] # NoPrice /\ RefreshBecomes(r, [refreshing[r] EXCEPT !.pc = "ask"])
  <2> DEFINE x == [refreshing[r] EXCEPT !.pc = "ask"]
  <2>1. x \in FetchState /\ x.pc = "ask" /\ x.printing = p /\ x.left = refreshing[r].left
    BY <1>1 DEF FetchState
  <2> HIDE DEF x
  <2>2. refreshing'[r] = x /\ (\A o \in Refreshers \ {r} : refreshing'[o] = refreshing[o])
        /\ refreshing' \in [Refreshers -> {NoRefresh} \cup FetchState \cup PricedState]
    BY <1>1, <1>4, <2>1, RefreshBecomesOne DEF x
  <2> QED BY <1>1, <1>4, <2>1, <2>2, RenewStep DEF InBatch
<1> QED BY <1>2, <1>3, <1>4 DEF FetchPrinting, Market

LEMMA AskPriceChartingRenew == ASSUME RenewInv, NEW r \in Refreshers, AskPriceCharting(r) PROVE RenewInv'
<1> DEFINE p == refreshing[r].printing
           amount == RawPrice(shelf[p])
<1>1. /\ refreshing[r] \in FetchState /\ refreshing[r].pc = "ask" /\ p \in Printings
      /\ refreshing[r].left \in SUBSET Printings /\ PricesTypeOK /\ amount \in Amounts
      /\ shelf' \in [Printings -> Shelves]
      /\ UNCHANGED <<known, valuations, snapshots, nextTick, hour, unpaired, missed>>
  BY RenewShape DEF AskPriceCharting, PricesTypeOK, Amounts
<1>4. known[p] # NoPrice
  BY <1>1 DEF RenewInv, PricedAreKnown
<1>2. CASE Continues(r, FALSE) /\ outages' = outages \cup {p}
  <2>1. /\ refreshing'[r].pc \in {"idle", "fetch"}
        /\ \A o \in Refreshers \ {r} : refreshing'[o] = refreshing[o]
        /\ refreshing' \in [Refreshers -> {NoRefresh} \cup FetchState \cup PricedState]
    BY <1>1, <1>2, ContinuesEffect
  <2>2. \A i \in refreshing[r].left :
          refreshing'[r].pc = "fetch" /\ (i \in refreshing'[r].left \/ refreshing'[r].printing = i)
    BY <1>1, <1>2, ContinuesBatch
  <2> QED BY <1>1, <1>2, <2>1, <2>2, RenewStep DEF InBatch
<1>3. CASE Resolved(r, Price(amount, "pricecharting")) /\ UNCHANGED outages
  <2>1. /\ refreshing'[r].pc = "upsert" /\ refreshing'[r].at = hour
        /\ refreshing'[r].printing = p /\ refreshing'[r].left = refreshing[r].left
        /\ \A o \in Refreshers \ {r} : refreshing'[o] = refreshing[o]
        /\ refreshing' \in [Refreshers -> {NoRefresh} \cup FetchState \cup PricedState]
    BY <1>1, <1>3, ResolvedBatch
  <2> QED BY <1>1, <1>3, <1>4, <2>1, RenewStep DEF InBatch
<1> QED BY <1>2, <1>3 DEF AskPriceCharting

LEMMA UpsertValuationRenew == ASSUME RenewInv, NEW r \in Refreshers, UpsertValuation(r) PROVE RenewInv'
<1> DEFINE s == refreshing[r]
           i == s.printing
           x == [s EXCEPT !.pc = "snapshot"]
           row == [price |-> s.price, source |-> s.source, at |-> s.at]
<1>1. /\ s \in PricedState /\ s.pc = "upsert" /\ i \in Printings /\ PricesTypeOK
      /\ UNCHANGED <<shelf, known, snapshots, nextTick, hour>> /\ outages' = outages \ {i}
      /\ valuations' = [valuations EXCEPT ![i] = row] /\ RefreshBecomes(r, x)
      /\ missed' = [missed EXCEPT ![i] = 0]
  BY RenewShape DEF UpsertValuation, PricedState
<1>2. s.at = hour
  BY <1>1 DEF RenewInv
<1>3. x \in PricedState /\ x.pc = "snapshot" /\ x.printing = i /\ x.left = s.left /\ x.at = s.at
  BY <1>1 DEF PricedState
<1>4. row \in ValuationRow /\ row.at = hour /\ row # NoPrice
  BY <1>1, <1>2, RowAssumption DEF PricedState, ValuationRow
<1> HIDE DEF x, row
<1>5. refreshing'[r] = x /\ (\A o \in Refreshers \ {r} : refreshing'[o] = refreshing[o])
      /\ refreshing' \in [Refreshers -> {NoRefresh} \cup FetchState \cup PricedState]
  BY <1>1, <1>3, RefreshBecomesOne
<1>6. /\ valuations' \in [Printings -> {NoPrice} \cup ValuationRow]
      /\ valuations'[i] = row
      /\ missed' \in [Printings -> Nat]
      /\ \A p \in Printings \ {i} : valuations'[p] = valuations[p] /\ missed'[p] = missed[p]
  BY <1>1, <1>4 DEF RenewInv
<1>7. PricesTypeOK'
  BY <1>1, <1>5, <1>6 DEF PricesTypeOK
<1>8. hour \in Nat /\ nextTick \in Nat /\ hour <= nextTick /\ nextTick <= hour + RefreshHours
  BY DEF RenewInv, PricesTypeOK
<1>9. \A o \in Refreshers : refreshing'[o].pc \in {"upsert", "snapshot"} => refreshing'[o].at = hour'
  <2> SUFFICES ASSUME NEW o \in Refreshers, refreshing'[o].pc \in {"upsert", "snapshot"}
               PROVE  refreshing'[o].at = hour
    BY <1>1
  <2>1. CASE o = r
    BY <1>2, <1>3, <1>5, <2>1
  <2>2. CASE o # r
    BY <1>5, <2>2 DEF RenewInv
  <2> QED BY <2>1, <2>2
<1>10. ASSUME NEW p \in Printings, known[p] # NoPrice, p \notin outages' PROVE Due(p)' /\ Timely(p)'
  <2>1. CASE p = i
    <3>1. valuations'[p] # NoPrice /\ valuations'[p].at = hour
      BY <1>4, <1>6, <2>1
    <3>4. Patience(p)' \in Nat /\ Patience(p)' >= RefreshHours
      BY <1>6, Waits DEF Patience
    <3>2. Due(p)'
      BY <1>1, <1>8, <3>1, <3>4, ValuationsAssumption DEF Due
    <3>3. Shown(p)' = "current"
      BY <1>1, <1>8, <3>1, ValuationsAssumption DEF Shown, Age
    <3> QED BY <3>2, <3>3 DEF Timely
  <2>2. CASE p # i
    <3>1. Due(p) /\ Timely(p) /\ valuations'[p] = valuations[p] /\ Patience(p)' = Patience(p)
      BY <1>1, <1>6, <1>10, <2>2, PatienceIs DEF RenewInv
    <3>2. Timely(p)'
      BY <1>1, <3>1 DEF Timely, Shown, Age
    <3>3. InBatch(p) => InBatch(p)'
      <4>1. CASE r = Daily
        BY <1>1, <1>3, <1>5, <2>2, <4>1 DEF InBatch
      <4>2. CASE r # Daily
        BY <1>5, <4>2 DEF InBatch, Refreshers
      <4> QED BY <4>1, <4>2
    <3> QED BY <1>1, <3>1, <3>2, <3>3 DEF Due
  <2> QED BY <2>1, <2>2
<1>11. PricedAreKnown'
  <2>1. PricedAreKnown /\ known[i] # NoPrice
    BY <1>1 DEF RenewInv, PricedAreKnown
  <2>2. ASSUME NEW p \in Printings, known'[p] = NoPrice PROVE valuations'[p] = NoPrice
    BY <1>1, <1>6, <2>1, <2>2 DEF PricedAreKnown
  <2>3. ASSUME NEW o \in Refreshers, refreshing'[o].pc \in {"ask", "upsert", "snapshot"}
        PROVE  known'[refreshing'[o].printing] # NoPrice
    <3>1. CASE o = r
      BY <1>1, <1>3, <1>5, <2>1, <3>1
    <3>2. CASE o # r
      BY <1>1, <1>5, <2>1, <2>3, <3>2 DEF PricedAreKnown
    <3> QED BY <3>1, <3>2
  <2> QED BY <2>2, <2>3 DEF PricedAreKnown
<1> QED BY <1>1, <1>6, <1>7, <1>8, <1>9, <1>10, <1>11 DEF RenewInv

LEMMA InsertSnapshotRenew == ASSUME RenewInv, NEW r \in Refreshers, InsertSnapshot(r) PROVE RenewInv'
<1>1. /\ refreshing[r].pc = "snapshot" /\ refreshing[r].left \in SUBSET Printings /\ PricesTypeOK
      /\ Continues(r, FALSE) /\ shelf' \in [Printings -> Shelves]
      /\ UNCHANGED <<known, valuations, nextTick, hour, outages, unpaired, missed>>
  BY RenewShape DEF InsertSnapshot, PricesTypeOK
<1>2. /\ refreshing'[r].pc \in {"idle", "fetch"}
      /\ \A o \in Refreshers \ {r} : refreshing'[o] = refreshing[o]
      /\ refreshing' \in [Refreshers -> {NoRefresh} \cup FetchState \cup PricedState]
  BY <1>1, ContinuesEffect
<1>3. \A i \in refreshing[r].left :
        refreshing'[r].pc = "fetch" /\ (i \in refreshing'[r].left \/ refreshing'[r].printing = i)
  BY <1>1, ContinuesBatch
<1> QED BY <1>1, <1>2, <1>3, RenewStep DEF InBatch

LEMMA RefreshFailsRenew == ASSUME RenewInv, NEW r \in Refreshers, RefreshFails(r) PROVE RenewInv'
<1>1. /\ refreshing[r].pc \in {"fetch", "upsert", "snapshot"} /\ refreshing[r].left \in SUBSET Printings
      /\ PricesTypeOK /\ Continues(r, TRUE) /\ shelf' \in [Printings -> Shelves]
      /\ UNCHANGED <<known, valuations, nextTick, hour, missed>> /\ outages \subseteq outages'
      /\ refreshing[r].pc # "snapshot" => refreshing[r].printing \in outages'
  BY RenewShape DEF RefreshFails, PricesTypeOK
<1>2. /\ refreshing'[r].pc \in {"idle", "fetch"}
      /\ \A o \in Refreshers \ {r} : refreshing'[o] = refreshing[o]
      /\ refreshing' \in [Refreshers -> {NoRefresh} \cup FetchState \cup PricedState]
  BY <1>1, ContinuesEffect
<1>3. \A i \in refreshing[r].left :
        refreshing'[r].pc = "fetch" /\ (i \in refreshing'[r].left \/ refreshing'[r].printing = i)
  BY <1>1, ContinuesBatch
<1> QED BY <1>1, <1>2, <1>3, RenewStep DEF InBatch

\* A refresh begins with a printing to fetch, or not at all.
LEMMA BeginRefreshEffect ==
    ASSUME PricesTypeOK, NEW r \in Refreshers, NEW p \in Printings, NEW rest \in SUBSET Printings,
           RefreshBecomes(r, [pc |-> "fetch", printing |-> p, left |-> rest])
    PROVE  /\ refreshing'[r].pc = "fetch" /\ refreshing'[r].printing = p /\ refreshing'[r].left = rest
           /\ \A o \in Refreshers \ {r} : refreshing'[o] = refreshing[o]
           /\ refreshing' \in [Refreshers -> {NoRefresh} \cup FetchState \cup PricedState]
<1> DEFINE x == [pc |-> "fetch", printing |-> p, left |-> rest]
<1>1. x \in FetchState /\ x.pc = "fetch" /\ x.printing = p /\ x.left = rest
  BY DEF FetchState
<1> HIDE DEF x
<1> QED BY <1>1, RefreshBecomesOne DEF x

LEMMA TriggerRefreshRenew == ASSUME RenewInv, NEW r \in OnDemand, TriggerRefresh(r) PROVE RenewInv'
<1>1. /\ r \in Refreshers /\ r # Daily /\ PricesTypeOK
      /\ UNCHANGED <<shelf, known, valuations, snapshots, nextTick, hour, outages, unpaired, missed>>
      /\ shelf' \in [Printings -> Shelves]
  BY ValuationsAssumption DEF TriggerRefresh, Refreshers, RenewInv, PricesTypeOK
<1>2. CASE UNCHANGED refreshing
  BY <1>1, <1>2 DEF RenewInv, PricesTypeOK, PricedAreKnown, Due, InBatch, Timely, Shown, Age, Patience
<1>3. ASSUME NEW p \in Printings, NEW rest \in SUBSET Printings,
             RefreshBecomes(r, [pc |-> "fetch", printing |-> p, left |-> rest])
      PROVE  RenewInv'
  <2>1. /\ refreshing'[r].pc = "fetch"
        /\ \A o \in Refreshers \ {r} : refreshing'[o] = refreshing[o]
        /\ refreshing' \in [Refreshers -> {NoRefresh} \cup FetchState \cup PricedState]
    BY <1>1, <1>3, BeginRefreshEffect
  <2> QED BY <1>1, <2>1, RenewStep
<1>4. ASSUME NEW answered \in BOOLEAN, RefreshAll(r, answered) PROVE RenewInv'
  <2> DEFINE ids == IF answered THEN StaleOrPending ELSE {}
  <2>1. CASE ids = {}
    BY <1>2, <1>4, <2>1 DEF RefreshAll
  <2>2. CASE ids # {}
    <3>1. PICK p \in ids : RefreshBecomes(r, [pc |-> "fetch", printing |-> p, left |-> ids \ {p}])
      BY <1>4, <2>2 DEF RefreshAll
    <3>2. p \in Printings /\ ids \ {p} \in SUBSET Printings
      BY DEF StaleOrPending
    <3> QED BY <1>3, <3>1, <3>2
  <2> QED BY <2>1, <2>2
<1>5. {} \in SUBSET Printings
  OBVIOUS
<1> QED BY <1>3, <1>4, <1>5 DEF TriggerRefresh

LEMMA TickSchedulerRenew == ASSUME RenewInv, TickScheduler PROVE RenewInv'
<1>8. PICK answered \in BOOLEAN :
        /\ RefreshAll(Daily, answered)
        /\ missed' = [p \in Printings |->
             IF ~answered /\ p \in StaleOrPending THEN missed[p] + 1 ELSE missed[p]]
  BY DEF TickScheduler
<1> DEFINE ids == IF answered THEN StaleOrPending ELSE {}
<1>1. /\ Daily \in Refreshers /\ refreshing[Daily] = NoRefresh /\ PricesTypeOK
      /\ RefreshAll(Daily, answered)
      /\ UNCHANGED <<shelf, known, valuations, snapshots, hour, outages, unpaired>>
      /\ nextTick <= hour /\ nextTick' = nextTick + RefreshHours
  BY <1>8 DEF TickScheduler, Refreshers, RenewInv
<1>2. /\ hour \in Nat /\ nextTick \in Nat /\ nextTick = hour /\ nextTick' = hour + RefreshHours
      /\ nextTick' \in Nat /\ hour <= nextTick'
  BY <1>1, ValuationsAssumption DEF RenewInv, PricesTypeOK
<1>3. /\ \A o \in Refreshers \ {Daily} : refreshing'[o] = refreshing[o]
      /\ refreshing' \in [Refreshers -> {NoRefresh} \cup FetchState \cup PricedState]
      /\ refreshing'[Daily].pc \in {"idle", "fetch"}
      /\ \A p \in ids : InBatch(p)'
  <2>1. CASE ids = {}
    <3>1. UNCHANGED refreshing
      BY <1>1, <2>1 DEF RefreshAll
    <3> QED BY <1>1, <2>1, <3>1 DEF PricesTypeOK, NoRefresh
  <2>2. CASE ids # {}
    <3>1. PICK p \in ids : RefreshBecomes(Daily, [pc |-> "fetch", printing |-> p, left |-> ids \ {p}])
      BY <1>1, <2>2 DEF RefreshAll
    <3>2. p \in Printings /\ ids \ {p} \in SUBSET Printings
      BY DEF StaleOrPending
    <3>3. /\ refreshing'[Daily].pc = "fetch" /\ refreshing'[Daily].printing = p
          /\ refreshing'[Daily].left = ids \ {p}
          /\ \A o \in Refreshers \ {Daily} : refreshing'[o] = refreshing[o]
          /\ refreshing' \in [Refreshers -> {NoRefresh} \cup FetchState \cup PricedState]
      BY <1>1, <3>1, <3>2, BeginRefreshEffect
    <3>4. ASSUME NEW i \in ids PROVE InBatch(i)'
      <4>1. i \in refreshing'[Daily].left \/ refreshing'[Daily].printing = i
        BY <3>3
      <4> QED BY <3>3, <4>1 DEF InBatch
    <3> QED BY <3>3, <3>4
  <2> QED BY <2>1, <2>2
<1>4. PricesTypeOK'
  BY <1>1, <1>3 DEF PricesTypeOK
<1>5. \A o \in Refreshers : refreshing'[o].pc \in {"upsert", "snapshot"} => refreshing'[o].at = hour'
  <2> SUFFICES ASSUME NEW o \in Refreshers, refreshing'[o].pc \in {"upsert", "snapshot"}
               PROVE  refreshing'[o].at = hour
    BY <1>1
  <2>1. o # Daily
    BY <1>3
  <2> QED BY <1>3, <2>1 DEF RenewInv
<1>9. missed' \in [Printings -> Nat]
  BY <1>8 DEF RenewInv
<1>6. ASSUME NEW p \in Printings, known[p] # NoPrice, p \notin outages' PROVE Due(p)' /\ Timely(p)'
  <2> DEFINE wait == Patience(p)
  <2>1. Timely(p) /\ wait \in Nat /\ wait >= RefreshHours
    BY <1>1, <1>6, PatienceIs DEF RenewInv
  <2>2. \/ p \in StaleOrPending /\ ~answered /\ Patience(p)' = wait + RefreshHours
        \/ (p \in StaleOrPending => answered) /\ Patience(p)' = wait
    BY <1>8, PatienceIs
  <2>3. known[p] \in Nat /\ (valuations[p] # NoPrice => valuations[p].at \in Nat)
    BY <1>6 DEF RenewInv, ValuationRow
  <2>4. /\ valuations[p] = NoPrice => hour - known[p] <= wait
        /\ valuations[p] # NoPrice => hour - valuations[p].at < StaleHours + wait
    <3>1. wait >= 1
      BY <2>1, ValuationsAssumption
    <3>2. CASE valuations[p] = NoPrice
      <4>1. Shown(p) = "pending"
        BY <3>2 DEF Shown
      <4> QED BY <2>1, <3>2, <4>1 DEF Timely
    <3>3. CASE valuations[p] # NoPrice /\ Age(p) > StaleHours
      <4>1. Shown(p) = "stale"
        BY <3>3 DEF Shown
      <4> QED BY <2>1, <3>3, <4>1 DEF Timely, Age
    <3>4. CASE valuations[p] # NoPrice /\ ~(Age(p) > StaleHours)
      <4>1. hour - valuations[p].at <= StaleHours
        BY <1>2, <2>3, <3>4, ValuationsAssumption DEF Age
      <4> QED BY <1>2, <2>1, <2>3, <3>1, <3>4, <4>1, ValuationsAssumption
    <3> QED BY <3>2, <3>3, <3>4
  <2>5. Patience(p)' \in Nat /\ Patience(p)' >= wait
    BY <2>1, <2>2, ValuationsAssumption
  <2>6. Timely(p)'
    <3>1. /\ valuations'[p] = NoPrice => hour' - known'[p] <= Patience(p)'
          /\ valuations'[p] # NoPrice => hour' - valuations'[p].at < StaleHours + Patience(p)'
      BY <1>1, <1>2, <2>1, <2>3, <2>4, <2>5, ValuationsAssumption
    <3> QED BY <3>1 DEF Timely, Shown, Age
  <2>7. CASE answered /\ p \in StaleOrPending
    BY <1>3, <2>6, <2>7 DEF Due
  <2>8. CASE ~answered /\ p \in StaleOrPending
    <3>1. Patience(p)' = wait + RefreshHours
      BY <2>2, <2>8
    <3>2. valuations[p] = NoPrice => known[p] + (wait + RefreshHours) >= hour + RefreshHours
      BY <1>2, <2>1, <2>3, <2>4, ValuationsAssumption
    <3>3. valuations[p] # NoPrice
          => valuations[p].at + StaleHours + (wait + RefreshHours) > hour + RefreshHours
      BY <1>2, <2>1, <2>3, <2>4, ValuationsAssumption
    <3> QED BY <1>1, <1>2, <2>6, <3>1, <3>2, <3>3 DEF Due
  <2>9. CASE p \notin StaleOrPending
    <3>1. valuations[p] # NoPrice /\ ~(valuations[p].at + StaleHours <= hour)
      BY <1>6, <2>9 DEF StaleOrPending, Outdated
    <3>2. valuations'[p] # NoPrice /\ valuations'[p].at + StaleHours + Patience(p)' > nextTick'
      BY <1>1, <1>2, <2>1, <2>3, <2>5, <3>1, ValuationsAssumption
    <3> QED BY <2>6, <3>2 DEF Due
  <2> QED BY <2>7, <2>8, <2>9
<1>7. PricedAreKnown'
  <2> SUFFICES ASSUME NEW o \in Refreshers, refreshing'[o].pc \in {"ask", "upsert", "snapshot"}
               PROVE  known[refreshing'[o].printing] # NoPrice
    BY <1>1 DEF RenewInv, PricedAreKnown
  <2>1. o # Daily
    BY <1>3
  <2> QED BY <1>3, <2>1 DEF RenewInv, PricedAreKnown
<1> QED BY <1>1, <1>2, <1>4, <1>5, <1>6, <1>7, <1>9 DEF RenewInv

LEMMA RestartSchedulerRenew == ASSUME RenewInv, RestartScheduler PROVE RenewInv'
<1>1. /\ UNCHANGED <<shelf, known, valuations, snapshots, hour, outages, missed>>
      /\ nextTick' = hour /\ hour \in Nat
      /\ \A r \in Refreshers : refreshing'[r] = NoRefresh
      /\ refreshing' \in [Refreshers -> {NoRefresh} \cup FetchState \cup PricedState]
  BY DEF RestartScheduler, RenewInv, PricesTypeOK
<1>2. PricesTypeOK'
  <2>1. PricesTypeOK
    BY DEF RenewInv
  <2> QED BY <1>1, <2>1 DEF PricesTypeOK
<1>3. \A r \in Refreshers : refreshing'[r].pc = "idle"
  BY <1>1 DEF NoRefresh
<1>4. ASSUME NEW p \in Printings, known[p] # NoPrice, p \notin outages PROVE Due(p)' /\ Timely(p)'
  <2>1. Timely(p)
    BY <1>4 DEF RenewInv
  <2>2. Timely(p)'
    BY <1>1, <2>1, PatienceIs DEF Timely, Shown, Age
  <2> QED BY <1>1, <2>2 DEF Due
<1>5. hour <= nextTick' /\ nextTick' <= hour + RefreshHours /\ nextTick' \in Nat
  BY <1>1, ValuationsAssumption
<1>6. PricedAreKnown'
  BY <1>1, <1>3 DEF RenewInv, PricedAreKnown
<1> QED BY <1>1, <1>2, <1>3, <1>4, <1>5, <1>6 DEF RenewInv

LEMMA AppearPrintingRenew == ASSUME RenewInv, NEW i \in Printings, AppearPrinting(i) PROVE RenewInv'
<1>1. /\ known' = [known EXCEPT ![i] = hour] /\ known[i] = NoPrice
      /\ UNCHANGED <<shelf, valuations, snapshots, refreshing, nextTick, hour, outages, unpaired, missed>>
  BY DEF AppearPrinting
<1>2. /\ hour \in Nat /\ nextTick \in Nat /\ hour <= nextTick /\ nextTick <= hour + RefreshHours
      /\ known' \in [Printings -> Nat \cup {NoPrice}] /\ known'[i] = hour
      /\ \A p \in Printings \ {i} : known'[p] = known[p]
  BY <1>1 DEF RenewInv, PricesTypeOK
<1>3. PricesTypeOK'
  BY <1>1 DEF RenewInv, PricesTypeOK
<1>4. ASSUME NEW p \in Printings, known'[p] # NoPrice, p \notin outages PROVE Due(p)' /\ Timely(p)'
  <2>1. CASE p # i
    <3>1. Due(p) /\ Timely(p) /\ known'[p] = known[p]
      BY <1>2, <1>4, <2>1 DEF RenewInv
    <3>2. Patience(p)' = Patience(p)
      BY <1>1, PatienceIs
    <3> QED BY <1>1, <3>1, <3>2 DEF Due, InBatch, Timely, Shown, Age
  <2>2. CASE p = i
    <3>1. valuations'[p] = NoPrice /\ known'[p] = hour
      BY <1>1, <1>2, <2>2 DEF RenewInv, PricedAreKnown
    <3>4. Patience(p)' \in Nat /\ Patience(p)' >= RefreshHours
      BY <1>1, PatienceIs
    <3>2. Due(p)'
      BY <1>1, <1>2, <3>1, <3>4, ValuationsAssumption DEF Due
    <3>3. Timely(p)'
      BY <1>1, <1>2, <3>1, <3>4, ValuationsAssumption DEF Timely, Shown
    <3> QED BY <3>2, <3>3
  <2> QED BY <2>1, <2>2
<1>5. PricedAreKnown'
  BY <1>1, <1>2 DEF RenewInv, PricedAreKnown, PricesTypeOK
<1> QED BY <1>1, <1>2, <1>3, <1>4, <1>5 DEF RenewInv

LEMMA HourPassesRenew == ASSUME RenewInv, HourPasses PROVE RenewInv'
<1>1. /\ UNCHANGED <<shelf, known, valuations, snapshots, refreshing, nextTick, outages, unpaired, missed>>
      /\ nextTick > hour /\ hour' = hour + 1 /\ \A r \in Refreshers : refreshing[r] = NoRefresh
  BY DEF HourPasses
<1>2. /\ hour \in Nat /\ nextTick \in Nat /\ hour' \in Nat
      /\ hour' <= nextTick' /\ nextTick' <= hour' + RefreshHours
  BY <1>1, ValuationsAssumption DEF RenewInv, PricesTypeOK
<1>3. \A r \in Refreshers : refreshing[r].pc = "idle"
  BY <1>1 DEF NoRefresh
<1>4. PricesTypeOK' /\ PricedAreKnown'
  BY <1>1, <1>2 DEF RenewInv, PricesTypeOK, PricedAreKnown
<1>5. ASSUME NEW p \in Printings, known[p] # NoPrice, p \notin outages PROVE Due(p)' /\ Timely(p)'
  <2>1. ~InBatch(p)
    BY <1>3 DEF InBatch, Refreshers
  <2>2. Due(p) /\ known[p] \in Nat /\ Patience(p)' = Patience(p) /\ Patience(p) \in Nat
    BY <1>1, <1>5, PatienceIs DEF RenewInv
  <2>3. CASE valuations[p] = NoPrice /\ known[p] + Patience(p) >= nextTick
    <3>1. Due(p)'
      BY <1>1, <2>2, <2>3 DEF Due
    <3>2. hour' - known'[p] <= Patience(p)'
      BY <1>1, <1>2, <2>2, <2>3, ValuationsAssumption
    <3>3. Timely(p)'
      BY <1>1, <2>3, <3>2 DEF Timely, Shown
    <3> QED BY <3>1, <3>3
  <2>4. CASE valuations[p] # NoPrice /\ valuations[p].at + StaleHours + Patience(p) > nextTick
    <3>1. Due(p)'
      BY <1>1, <2>2, <2>4 DEF Due
    <3>2. valuations[p].at \in Nat
      BY <2>4 DEF RenewInv, ValuationRow
    <3>3. hour' - valuations'[p].at < StaleHours + Patience(p)'
      BY <1>1, <1>2, <2>2, <2>4, <3>2, ValuationsAssumption
    <3>4. Timely(p)'
      BY <1>1, <2>4, <3>3 DEF Timely, Shown, Age
    <3> QED BY <3>1, <3>4
  <2> QED BY <1>1, <1>2, <2>1, <2>2, <2>3, <2>4 DEF Due
<1> QED BY <1>1, <1>2, <1>3, <1>4, <1>5 DEF RenewInv

LEMMA ShelfChangesRenew ==
    ASSUME RenewInv, NEW i \in Printings, NEW products \in Shelves, ShelfChanges(i, products)
    PROVE  RenewInv'
<1>1. /\ UNCHANGED <<known, valuations, snapshots, refreshing, nextTick, hour, outages, unpaired, missed>>
      /\ shelf' = [shelf EXCEPT ![i] = products]
  BY DEF ShelfChanges
<1>2. PricesTypeOK'
  BY <1>1 DEF RenewInv, PricesTypeOK
<1> QED BY <1>1, <1>2 DEF RenewInv, PricedAreKnown, Due, InBatch, Timely, Shown, Age, Patience

LEMMA RenewNext == ASSUME RenewInv, [Next]_vars PROVE RenewInv'
<1>1. ASSUME UNCHANGED valuationVars PROVE RenewInv'
  BY <1>1 DEF valuationVars, RenewInv, PricesTypeOK, PricedAreKnown, Due, InBatch, Timely, Shown, Age, Patience
<1>2. ASSUME ValuationsStep PROVE RenewInv'
  <2>1. ASSUME NEW r \in Refreshers, FetchPrinting(r) PROVE RenewInv'
    BY <2>1, FetchPrintingRenew
  <2>2. ASSUME NEW r \in Refreshers, AskPriceCharting(r) PROVE RenewInv'
    BY <2>2, AskPriceChartingRenew
  <2>3. ASSUME NEW r \in Refreshers, UpsertValuation(r) PROVE RenewInv'
    BY <2>3, UpsertValuationRenew
  <2>4. ASSUME NEW r \in Refreshers, InsertSnapshot(r) PROVE RenewInv'
    BY <2>4, InsertSnapshotRenew
  <2>5. ASSUME NEW r \in Refreshers, RefreshFails(r) PROVE RenewInv'
    BY <2>5, RefreshFailsRenew
  <2>6. ASSUME NEW r \in OnDemand, TriggerRefresh(r) PROVE RenewInv'
    BY <2>6, TriggerRefreshRenew
  <2>7. ASSUME NEW p \in Printings, AppearPrinting(p) PROVE RenewInv'
    BY <2>7, AppearPrintingRenew
  <2>8. ASSUME NEW p \in Printings, NEW products \in Shelves, ShelfChanges(p, products) PROVE RenewInv'
    BY <2>8, ShelfChangesRenew
  <2> QED
    BY <1>2, <2>1, <2>2, <2>3, <2>4, <2>5, <2>6, <2>7, <2>8, TickSchedulerRenew,
       RestartSchedulerRenew, HourPassesRenew DEF ValuationsStep
<1> QED BY <1>1, <1>2 DEF Next, Verify, Appraise, Identify, Connect, FetchPage, vars

\* As long as the refreshes of a printing find a price, it waits a day at most for
\* its first one, and no price is shown as stale longer than until the next but one
\* run of the daily task, a day more after each run that failed as a whole, whatever
\* requests to refresh run beside it, whichever other printings fail in its batch and
\* however often the process restarts (refresh_all, refresh, the scheduler).
THEOREM PricesAreRenewed == Spec => []PricesRenewed
<1>1. Init => RenewInv
  <2> SUFFICES ASSUME Init PROVE RenewInv
    OBVIOUS
  <2>1. ValuationsInit
    BY DEF Init
  <2>2. \A r \in Refreshers : refreshing[r].pc = "idle"
    BY <2>1 DEF ValuationsInit, NoRefresh
  <2>3. PricesTypeOK
    BY <2>1 DEF ValuationsInit, PricesTypeOK
  <2> QED BY <2>1, <2>2, <2>3, ValuationsAssumption DEF ValuationsInit, RenewInv, PricedAreKnown
<1>2. RenewInv => PricesRenewed
  BY DEF RenewInv, PricesRenewed, Timely
<1> QED BY <1>1, <1>2, RenewNext, PTL DEF Spec
-----------------------------------------------------------------------------
(* What is fetched from a merchant.                                        *)

LEMMA OnThePage ==
    ASSUME NEW s, s \in Seq(ToSet(s))
    PROVE  /\ ToSet(FirstPage(s)) \subseteq ToSet(s)
           /\ \A n \in DOMAIN s : n <= PageLimit => s[n] \in ToSet(FirstPage(s))
<1> DEFINE m == IF Len(s) < PageLimit THEN Len(s) ELSE PageLimit
           t == SubSeq(s, 1, m)
<1>1. Len(s) \in Nat /\ PageLimit \in Nat /\ m \in Nat /\ m <= Len(s) /\ DOMAIN s = 1..Len(s)
      /\ \A n \in DOMAIN s : n <= PageLimit => n \in 1..m
  BY AdapterAssumption
<1>2. DOMAIN t = 1..m /\ \A n \in 1..m : t[n] = s[n]
  BY <1>1
<1>3. FirstPage(s) = t
  BY DEF FirstPage
<1> HIDE DEF m, t
<1>4. 1..m \subseteq DOMAIN s
  BY <1>1
<1> QED BY <1>1, <1>2, <1>3, <1>4 DEF ToSet

\* A line of which a whole number is sold is read as one of as many.
LEMMA LineIs ==
    ASSUME NEW p \in Providers, NEW line, line.quantity = Missing \/ line.quantity \in Int, Whole(p, line)
    PROVE  SaleLine(p, line) =
             [sku |-> SaleLine(p, line).sku,
              quantity |-> Or(line.quantity, IF p = "square" THEN 2 ELSE 1) \div (IF p = "square" THEN 2 ELSE 1)]
<1>1. CASE p = "square"
  BY <1>1 DEF SaleLine, SquareLine
<1>2. CASE p # "square"
  <2>1. Or(line.quantity, 1) \in Int
    BY DEF Or
  <2>2. Or(line.quantity, 1) \div 1 = Or(line.quantity, 1)
    <3>1. \A n \in Int : n \div 1 = n
      OBVIOUS
    <3> QED BY <2>1, <3>1
  <2>3. CASE p = "shopify"
    BY <1>2, <2>2, <2>3 DEF SaleLine, ShopifyLine
  <2>4. CASE p = "clover"
    <3>1. ~(Or(line.quantity, 1) < 1)
      BY <2>1 DEF Whole, Or
    <3>2. CloverLine(line) = [sku |-> line.object, quantity |-> Or(line.quantity, 1)]
      BY <3>1 DEF CloverLine
    <3> QED BY <1>2, <2>2, <2>4, <3>2 DEF SaleLine
  <2> QED BY <1>2, <2>3, <2>4 DEF Providers
<1> QED BY <1>1, <1>2

LEMMA LinesAre ==
    ASSUME NEW p \in Providers, NEW order,
           \A line \in ToSet(order.lines) :
             Whole(p, line) /\ (line.quantity = Missing \/ line.quantity \in Int)
    PROVE  SaleLines(p, order) = Named(p, order)
<1> DEFINE unit == IF p = "square" THEN 2 ELSE 1
<1>1. \A n \in DOMAIN order.lines :
        SaleLine(p, order.lines[n]) = [sku |-> SaleLine(p, order.lines[n]).sku,
                                       quantity |-> Or(order.lines[n].quantity, unit) \div unit]
  <2> SUFFICES ASSUME NEW n \in DOMAIN order.lines
               PROVE  SaleLine(p, order.lines[n]) = [sku |-> SaleLine(p, order.lines[n]).sku,
                                                     quantity |-> Or(order.lines[n].quantity, unit) \div unit]
    OBVIOUS
  <2>1. order.lines[n] \in ToSet(order.lines)
    BY DEF ToSet
  <2> QED BY <2>1, LineIs
<1>2. [n \in DOMAIN order.lines |-> SaleLine(p, order.lines[n])] =
        [n \in DOMAIN order.lines |-> [sku |-> SaleLine(p, order.lines[n]).sku,
                                       quantity |-> Or(order.lines[n].quantity, unit) \div unit]]
  BY <1>1
<1> QED BY <1>2 DEF SaleLines, Named

LEMMA FetchReads ==
    ASSUME NEW p \in Providers, NEW asked \in Replies, NEW reply \in Replies,
           NEW orders \in OrderLists, NEW catalog \in Catalogs, Fetch(p, asked, reply, orders, catalog)
    PROVE  ReadBack'
<1> DEFINE sales == FetchSales(p, asked, reply, orders)
           products == FetchInventory(p, asked, reply, catalog)
<1>1. /\ fetched'.provider = p /\ fetched'.asked = asked
      /\ fetched'.orders = orders /\ fetched'.catalog = catalog
      /\ fetched'.sales = sales /\ fetched'.products = products
  BY DEF Fetch
<1>2. ASSUME sales # Missing
      PROVE  /\ \A n \in DOMAIN orders :
                  /\ n <= PageLimit /\ ~(p = "square" /\ asked = "failed") /\ orders[n].id # Missing
                  /\ \A line \in ToSet(orders[n].lines) : Whole(p, line)
                  => \E sale \in sales :
                       sale.external_id = orders[n].id /\ sale.lines = Named(p, orders[n])
             /\ \A sale \in sales : \E order \in ToSet(orders) : order.id = sale.external_id
  <2>1. \/ p = "square" /\ asked = "failed" /\ sales = {}
        \/ sales = {[external_id |-> order.id, lines |-> SaleLines(p, order)] :
                       order \in {o \in ToSet(FirstPage(orders)) : o.id # Missing}}
    BY <1>2 DEF FetchSales, SquareSales, CloverSales, ReadSales, Providers, Replies
  <2>2. ToSet(FirstPage(orders)) \subseteq ToSet(orders)
        /\ \A n \in DOMAIN orders : n <= PageLimit => orders[n] \in ToSet(FirstPage(orders))
    BY OnThePage, SalesAssumption
  <2>3. ASSUME NEW n \in DOMAIN orders, n <= PageLimit, ~(p = "square" /\ asked = "failed"),
               orders[n].id # Missing, \A line \in ToSet(orders[n].lines) : Whole(p, line)
        PROVE  \E sale \in sales : sale.external_id = orders[n].id /\ sale.lines = Named(p, orders[n])
    <3>1. orders[n] \in ToSet(orders) /\ orders[n] \in ToSet(FirstPage(orders))
      BY <2>2, <2>3
    <3>2. SaleLines(p, orders[n]) = Named(p, orders[n])
      BY <2>3, <3>1, LinesAre, SalesAssumption
    <3> DEFINE sale == [external_id |-> orders[n].id, lines |-> SaleLines(p, orders[n])]
    <3>3. sale \in sales
      BY <2>1, <2>3, <3>1
    <3> QED BY <3>2, <3>3
  <2>4. ASSUME NEW sale \in sales PROVE \E order \in ToSet(orders) : order.id = sale.external_id
    BY <2>1, <2>2, <2>4
  <2> QED BY <2>3, <2>4
<1>3. ASSUME products # Missing, NEW n \in DOMAIN catalog, n <= PageLimit, catalog[n].object # Missing
      PROVE  \E product \in products :
               /\ product.sku = catalog[n].object
               /\ p = "shopify" => product.quantity = Or(catalog[n].quantity, 0)
  <2> DEFINE v == catalog[n]
  <2>1. v \in ToSet(FirstPage(catalog))
    BY <1>3, OnThePage, SalesAssumption
  <2>2. Product(p, v).sku = v.object /\ (p = "shopify" => Product(p, v).quantity = Or(v.quantity, 0))
    BY DEF Product, SquareProduct, ShopifyProduct, CloverProduct, Providers
  <2>3. Product(p, v) \in products
    BY <1>3, <2>1, <2>2 DEF FetchInventory
  <2> QED BY <2>2, <2>3
<1> HIDE DEF sales, products
<1> QED BY <1>1, <1>2, <1>3 DEF ReadBack, LocationsLost

\* Each order on a page, with an id, is read as one sale with the lines that have a
\* SKU, as many of each sold as in the order, there is no sale without an order, and
\* each product on a page, with a SKU, is read as one with its quantity, or there is
\* an error: whatever the merchant of any of the three providers sold and has, and
\* whichever request fails, but for Square's for the locations.
THEOREM SalesAreReadBack == Spec => []ReadBack
<1>1. Init => ReadBack
  BY DEF Init, ConnectInit, ReadBack
<1>2. ReadBack /\ [Next]_vars => ReadBack'
  <2> SUFFICES ASSUME ReadBack, [Next]_vars PROVE ReadBack'
    OBVIOUS
  <2>1. CASE UNCHANGED fetched
    BY <2>1 DEF ReadBack, LocationsLost
  <2>2. CASE FlowStep
    <3>1. UNCHANGED fetched
      BY <2>2 DEF FlowStep, StartConnect, BeginCallback, BeginDisconnect, Exchange, SetError, RegisterWebhook,
         Save, Enqueue, RevokeToken, Disconnect, StopRequest
    <3> QED BY <2>1, <3>1
  <2>3. CASE FetchStep
    BY <2>3, FetchReads DEF FetchStep
  <2> QED BY <2>1, <2>2, <2>3 DEF Next, Connect, FetchPage, Verify, Appraise, Identify, vars, connVars
<1> QED BY <1>1, <1>2, PTL DEF Spec
=============================================================================
