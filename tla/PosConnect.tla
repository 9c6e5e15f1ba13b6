------------------------------ MODULE PosConnect ------------------------------
(***************************************************************************)
(* Connections to POS providers: the OAuth flow from its start to the      *)
(* callback, and disconnecting (crates/api/src/pos/routes.rs and           *)
(* connection.rs).                                                         *)
(*                                                                         *)
(* The state of a flow is named by the row that was inserted with it.  A   *)
(* token stands for what a provider grants at once, an access token and    *)
(* perhaps a refresh token, with its expiry, which nothing reads.  A       *)
(* webhook is named by the token it was registered with.  The provider     *)
(* takes a code once.                                                      *)
(***************************************************************************)
EXTENDS PosAdapters, FiniteSets

CONSTANTS
    Conns,       \* ids of pos_connections
    Workspaces,
    Merchants,   \* accounts at providers
    Tokens,
    Requests,    \* requests in progress at once
    OrderLists,  \* what the orders of a merchant may be
    Catalogs     \* what the products of a merchant may be

\* What the tables, the provider's grants and an exchange hold.
ConnRow ==
    [workspace : Workspaces, provider : Providers,
     status : {"pending", "active", "error", "disconnected"}, state : BOOLEAN,
     merchant : Merchants \cup {Missing, Shop}, token : Tokens \cup {Missing},
     webhook : Tokens \cup {Missing}, polling : BOOLEAN]
GrantRow == [flow : Conns, merchant : Merchants]
TokenSet == [token : Tokens, merchant : Merchants \cup {Missing, Shop}]

ASSUME ConnectAssumption ==
    /\ Missing \notin Tokens \cup Merchants \cup {Shop}
    /\ Missing \notin ConnRow /\ Missing \notin GrantRow /\ Missing \notin TokenSet

ASSUME SalesAssumption ==
    /\ \A orders \in OrderLists :
         /\ orders \in Seq(ToSet(orders))
         /\ \A order \in ToSet(orders) : \A line \in ToSet(order.lines) :
              line.quantity = Missing \/ line.quantity \in Int
    /\ \A catalog \in Catalogs : catalog \in Seq(ToSet(catalog))

VARIABLES
    conns,      \* pos_connections
    req,        \* the program state of each request
    granted,    \* the provider: the tokens issued, for which flow and merchant
    spent,      \* the provider: flows whose code was exchanged
    revoked,    \* the provider: tokens revoked
    hooks,      \* the provider: webhooks registered
    syncs,      \* jobs enqueued
    cancelled,  \* history: flows disconnected before any callback
    torn,       \* history: disconnections that ended after the revocation
    fetched     \* the sales and products last fetched, and what there was

provider == <<granted, spent, revoked, hooks>>
connVars == <<conns, req, provider, syncs, cancelled, torn, fetched>>

Idle == [pc |-> "idle"]
IsIdle(q) == req[q].pc = "idle"
ReqBecomes(q, state) == req' = [req EXCEPT ![q] = state]
Ends(q) == ReqBecomes(q, Idle)

ConnectInit ==
    /\ conns = [c \in Conns |-> Missing]
    /\ req = [q \in Requests |-> Idle]
    /\ granted = [t \in Tokens |-> Missing]
    /\ spent = {} /\ revoked = {} /\ hooks = {} /\ syncs = {} /\ cancelled = {} /\ torn = {}
    /\ fetched = Missing

Rows == {c \in Conns : conns[c] # Missing}
ActiveConns == {c \in Rows : conns[c].status = "active"}
CallingBack(c) == \E q \in Requests : req[q].pc \in {"exchange", "hook", "save", "setError"} /\ req[q].conn = c

-----------------------------------------------------------------------------
(* start_connect                                                           *)

NewRow(w, p) ==
    [workspace |-> w, provider |-> p, status |-> "pending", state |-> TRUE,
     merchant |-> Missing, token |-> Missing, webhook |-> Missing, polling |-> FALSE]

StartConnect(c, w, p) ==
    /\ conns[c] = Missing
    /\ conns' = [conns EXCEPT ![c] = NewRow(w, p)]
    /\ UNCHANGED <<req, provider, syncs, cancelled, torn, fetched>>

-----------------------------------------------------------------------------
(* oauth_callback and process_oauth_callback.  One with an error, or       *)
(* without a code or a state, changes nothing.                             *)

\* find_by_state; the mutant takes a row of any status.
FindByState_Any(c) == c \in Rows /\ conns[c].state
FindByState(c) == c \in Rows /\ conns[c].state /\ conns[c].status = "pending"

BeginCallback(q, c) ==
    /\ IsIdle(q)
    /\ FindByState(c)
    /\ ReqBecomes(q, [pc |-> "exchange", conn |-> c, workspace |-> conns[c].workspace,
                      provider |-> conns[c].provider])
    /\ UNCHANGED <<conns, provider, syncs, cancelled, torn, fetched>>

Answers == [ok : BOOLEAN, token : Tokens \cup {Missing}, merchant : Merchants \cup {Missing}]

\* The provider grants a token for the code, or not; the answer may be lost.
Exchange(q) ==
    /\ req[q].pc = "exchange"
    /\ \E answer \in Answers, owner \in Merchants :
         /\ answer.token # Missing =>
              /\ req[q].conn \notin spent
              /\ granted[answer.token] = Missing
              /\ answer.merchant \in {owner, Missing}
         /\ granted' = IF answer.token = Missing THEN granted
                       ELSE [granted EXCEPT ![answer.token] = [flow |-> req[q].conn, merchant |-> owner]]
         /\ spent' = IF answer.token = Missing THEN spent ELSE spent \cup {req[q].conn}
         /\ LET set == Exchanged(req[q].provider, answer) IN
              IF set = Missing
              THEN ReqBecomes(q, [req[q] EXCEPT !.pc = "setError"])
              ELSE ReqBecomes(q, [pc |-> "hook", conn |-> req[q].conn, workspace |-> req[q].workspace,
                                  provider |-> req[q].provider, set |-> set])
    /\ UNCHANGED <<conns, revoked, hooks, syncs, cancelled, torn, fetched>>

SetError(q) ==
    /\ req[q].pc = "setError"
    /\ conns' = [conns EXCEPT ![req[q].conn].status = "error"]
    /\ Ends(q)
    /\ UNCHANGED <<provider, syncs, cancelled, torn, fetched>>

RegisterWebhook(q) ==
    /\ req[q].pc = "hook"
    /\ \E answer \in [ok : BOOLEAN, id : {req[q].set.token}] :
         LET hook == Webhook(req[q].provider, answer) IN
         /\ hooks' = hooks \cup ({hook} \ {Missing})
         /\ ReqBecomes(q, [pc |-> "save", conn |-> req[q].conn, workspace |-> req[q].workspace,
                           provider |-> req[q].provider, set |-> req[q].set, webhook |-> hook])
    /\ UNCHANGED <<conns, granted, spent, revoked, syncs, cancelled, torn, fetched>>

Connected(q, row) ==
    [row EXCEPT !.status = "active", !.state = FALSE, !.token = req[q].set.token,
                !.webhook = req[q].webhook, !.polling = req[q].webhook = Missing]

\* ON CONFLICT (workspace_id, provider, external_account_id); the mutant's index
\* is the one of the schema's first migration, without the account.
SameAccount_AnyMerchant(q) ==
    {c \in Rows : conns[c].workspace = req[q].workspace /\ conns[c].provider = req[q].provider
                    /\ conns[c].merchant # Missing}
SameAccount(q) ==
    {c \in Rows : conns[c].workspace = req[q].workspace /\ conns[c].provider = req[q].provider
                    /\ conns[c].merchant = req[q].set.merchant}

\* upsert_by_merchant, which leaves the row of the flow as it is.
UpsertByMerchant(q) ==
    \/ \E c \in SameAccount(q) : conns' = [conns EXCEPT ![c] = Connected(q, @)]
    \/ /\ SameAccount(q) = {}
       /\ \E c \in Conns \ Rows :
            conns' = [conns EXCEPT ![c] =
                        Connected(q, [NewRow(req[q].workspace, req[q].provider) EXCEPT
                                        !.merchant = req[q].set.merchant])]

\* activate, by id whatever has become of the row.
Activate(q) ==
    conns' = [conns EXCEPT ![req[q].conn] = [Connected(q, @) EXCEPT !.merchant = Missing]]

Save(q) ==
    /\ req[q].pc = "save"
    /\ IF req[q].set.merchant # Missing THEN UpsertByMerchant(q) ELSE Activate(q)
    /\ ReqBecomes(q, [pc |-> "enqueue", conn |-> req[q].conn])
    /\ UNCHANGED <<provider, syncs, cancelled, torn, fetched>>

\* enqueue_initial_sync; the job does nothing yet.
Enqueue(q) ==
    /\ req[q].pc = "enqueue"
    /\ syncs' = syncs \cup {req[q].conn}
    /\ Ends(q)
    /\ UNCHANGED <<conns, provider, cancelled, torn, fetched>>

-----------------------------------------------------------------------------
(* disconnect: the row is read, its token revoked, the row updated.        *)

BeginDisconnect(q, c) ==
    /\ IsIdle(q)
    /\ c \in Rows
    /\ ReqBecomes(q, IF conns[c].token = Missing THEN [pc |-> "disconnect", conn |-> c, token |-> Missing]
                     ELSE [pc |-> "revoke", conn |-> c, token |-> conns[c].token])
    /\ UNCHANGED <<conns, provider, syncs, cancelled, torn, fetched>>

\* The answer is not looked at.
RevokeToken(q) ==
    /\ req[q].pc = "revoke"
    /\ \/ Revokes(conns[req[q].conn].provider) /\ revoked' = revoked \cup {req[q].token}
       \/ UNCHANGED revoked
    /\ ReqBecomes(q, [req[q] EXCEPT !.pc = "disconnect"])
    /\ UNCHANGED <<conns, granted, spent, hooks, syncs, cancelled, torn, fetched>>

Disconnect(q) ==
    LET c == req[q].conn IN
    /\ req[q].pc = "disconnect"
    /\ conns' = [conns EXCEPT ![c] = [@ EXCEPT !.status = "disconnected", !.token = Missing, !.webhook = Missing]]
    /\ cancelled' = IF c \in spent \/ CallingBack(c) THEN cancelled ELSE cancelled \cup {c}
    /\ Ends(q)
    /\ UNCHANGED <<provider, syncs, torn, fetched>>

\* The client goes away, or a statement fails.
StopRequest(q) ==
    /\ ~IsIdle(q)
    /\ torn' = IF req[q].pc = "disconnect" THEN torn \cup {req[q].conn} ELSE torn
    /\ Ends(q)
    /\ UNCHANGED <<conns, provider, syncs, cancelled, fetched>>

\* The sales and the products of a merchant are asked for, whoever does it.
Fetch(p, asked, reply, orders, catalog) ==
    /\ fetched' = [provider |-> p, asked |-> asked,
                   orders |-> orders, sales |-> FetchSales(p, asked, reply, orders),
                   catalog |-> catalog, products |-> FetchInventory(p, asked, reply, catalog)]
    /\ UNCHANGED <<conns, req, provider, syncs, cancelled, torn>>

FlowStep ==
    \/ \E c \in Conns, w \in Workspaces, p \in Providers : StartConnect(c, w, p)
    \/ \E q \in Requests :
         \/ \E c \in Conns : BeginCallback(q, c) \/ BeginDisconnect(q, c)
         \/ Exchange(q) \/ SetError(q) \/ RegisterWebhook(q) \/ Save(q) \/ Enqueue(q)
         \/ RevokeToken(q) \/ Disconnect(q) \/ StopRequest(q)

FetchStep ==
    \E p \in Providers, asked \in Replies, reply \in Replies,
       orders \in OrderLists, catalog \in Catalogs : Fetch(p, asked, reply, orders, catalog)

ConnectStep == FlowStep \/ FetchStep

-----------------------------------------------------------------------------
(* Properties.                                                             *)

Revoking(c) == c \in torn \/ \E q \in Requests : req[q].pc = "disconnect" /\ req[q].conn = c

\* An active connection can be worked with, whatever connections were started,
\* finished twice, renewed and ended beside it: it holds a token that was granted
\* to its workspace by its provider, for the merchant it names, and that is good
\* until a disconnection of this connection is past its revocation; and it is
\* polled, or has a webhook that was registered with this token
\* (process_oauth_callback, upsert_by_merchant, activate, disconnect).
ActiveUsable ==
    \A c \in ActiveConns :
        LET row == conns[c]
            grant == granted[row.token]
        IN  /\ grant # Missing
            /\ conns[grant.flow].workspace = row.workspace
            /\ conns[grant.flow].provider = row.provider
            /\ row.merchant \in {Missing, Shop, grant.merchant}
            /\ row.token \in revoked => Revoking(c)
            /\ IF row.polling THEN row.webhook = Missing ELSE row.webhook = row.token /\ row.token \in hooks

\* A flow that is disconnected before the provider calls back connects nothing
\* afterwards (find_by_state, disconnect).
CancelledConnectsNothing ==
    \A c \in ActiveConns : granted[conns[c].token].flow \notin cancelled

SoldIn(lines, sku) ==
    FoldSeq(LAMBDA line, sum : IF line.sku = sku THEN sum + line.quantity ELSE sum, 0, lines)

\* The lines of an order that have a SKU, one without a quantity being of one.
Named(p, order) ==
    LET unit == IF p = "square" THEN 2 ELSE 1
        all == [n \in DOMAIN order.lines |-> [sku |-> SaleLine(p, order.lines[n]).sku,
                                              quantity |-> Or(order.lines[n].quantity, unit) \div unit]]
    IN  WithSku(all)

Whole(p, line) ==
    line.quantity = Missing \/ (line.quantity > 0 /\ (p = "square" => line.quantity % 2 = 0))

\* Square's request for locations was answered with a failure, which reads as no sales.
LocationsLost == fetched.provider = "square" /\ fetched.asked = "failed"

\* What a merchant sold and has is read back, or there is an error.  Each order with an
\* id that is on the page becomes one sale, in which as many are sold of a SKU as in
\* the lines of the order, unless Square's locations were not to be had; there is no
\* sale without an order; and every product on the page with a SKU is there, with its
\* quantity if it comes from Shopify (fetch_sales, fetch_inventory).
ReadBack ==
    fetched # Missing =>
        LET p == fetched.provider IN
        /\ fetched.sales # Missing =>
             /\ \A n \in DOMAIN fetched.orders :
                  LET order == fetched.orders[n] IN
                  /\ n <= PageLimit /\ ~LocationsLost /\ order.id # Missing
                  /\ \A line \in ToSet(order.lines) : Whole(p, line)
                  => \E sale \in fetched.sales :
                       /\ sale.external_id = order.id
                       /\ \A line \in ToSet(Named(p, order)) :
                            SoldIn(sale.lines, line.sku) = SoldIn(Named(p, order), line.sku)
             /\ \A sale \in fetched.sales :
                  \E order \in ToSet(fetched.orders) : order.id = sale.external_id
        /\ fetched.products # Missing =>
             \A n \in DOMAIN fetched.catalog :
               LET v == fetched.catalog[n] IN
               n <= PageLimit /\ v.object # Missing =>
                 \E product \in fetched.products :
                   /\ product.sku = v.object
                   /\ p = "shopify" => product.quantity = Or(v.quantity, 0)
=============================================================================
