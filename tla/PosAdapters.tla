----------------------------- MODULE PosAdapters -----------------------------
(***************************************************************************)
(* What the adapters of the three providers make of the answers that they  *)
(* get (crates/api/src/pos/square.rs, shopify.rs and clover.rs, behind the *)
(* trait in adapter.rs).                                                   *)
(*                                                                         *)
(* A quantity in an order of Square is a decimal, counted here in halves,  *)
(* and a whole number in the others.                                       *)
(***************************************************************************)
EXTENDS Integers, Sequences, SequencesExt

CONSTANTS
    Missing,      \* a field that is absent
    Shop,      \* SHOPIFY_SHOP_DOMAIN
    PageLimit  \* limit= of the requests, and what Square sends at once

ASSUME AdapterAssumption == PageLimit \in Nat \ {0}

Providers == {"square", "shopify", "clover"}

\* oauth_exchange: an answer with a failure or without a token is an error, which
\* is Missing here; Shopify's does not name the merchant.
SquareTokens(answer) == [token |-> answer.token, merchant |-> answer.merchant]
ShopifyTokens(answer) == [token |-> answer.token, merchant |-> Shop]
CloverTokens(answer) == [token |-> answer.token, merchant |-> answer.merchant]

Exchanged(provider, answer) ==
    CASE ~answer.ok \/ answer.token = Missing -> Missing
      [] OTHER -> CASE provider = "square"  -> SquareTokens(answer)
                    [] provider = "shopify" -> ShopifyTokens(answer)
                    [] provider = "clover"  -> CloverTokens(answer)

\* register_webhook, and unwrap_or(Missing) where it is called.
Webhook(provider, answer) ==
    IF provider # "clover" /\ answer.ok THEN answer.id ELSE Missing

\* revoke_token: the others have no such call.
Revokes(provider) == provider = "square"

-----------------------------------------------------------------------------
(* fetch_sales and fetch_inventory: what is asked for comes with one       *)
(* request, whose answer has the first page, and there is no second;       *)
(* Square and Clover are asked for something else before.  What comes of   *)
(* it has no order that anything looks at, and is a set here; an error is  *)
(* Missing.                                                                *)

\* What comes of a request: no answer, or none that is JSON; an answer that tells of
\* a failure; or what was asked for.
Replies == {"lost", "failed", "answered"}

FirstPage(s) == SubSeq(s, 1, IF Len(s) < PageLimit THEN Len(s) ELSE PageLimit)

Or(x, default) == IF x = Missing THEN default ELSE x

\* A line of an order, and a variation of a product; "as i64" drops the fraction.
\* The mutant takes no quantity for none sold.
SquareLine(line) == [sku |-> Or(line.object, line.name), quantity |-> Or(line.quantity, 2) \div 2]
ShopifyLine_Zero(line) == [sku |-> line.object, quantity |-> Or(line.quantity, 0)]
ShopifyLine(line) == [sku |-> line.object, quantity |-> Or(line.quantity, 1)]
CloverLine(line) ==
    LET n == Or(line.quantity, 1) IN [sku |-> line.object, quantity |-> IF n < 1 THEN 1 ELSE n]

SaleLine(provider, line) ==
    CASE provider = "square"  -> SquareLine(line)
      [] provider = "shopify" -> ShopifyLine(line)
      [] provider = "clover"  -> CloverLine(line)

\* Only Shopify's answer has how many there are.
SquareProduct(v) == [sku |-> v.object, quantity |-> 0]
ShopifyProduct(v) == [sku |-> v.object, quantity |-> Or(v.quantity, 0)]
CloverProduct(v) == [sku |-> v.object, quantity |-> 0]

Product(provider, v) ==
    CASE provider = "square"  -> SquareProduct(v)
      [] provider = "shopify" -> ShopifyProduct(v)
      [] provider = "clover"  -> CloverProduct(v)

WithSku(s) == SelectSeq(s, LAMBDA x : x.sku # Missing)

SaleLines(provider, order) ==
    WithSku([n \in DOMAIN order.lines |-> SaleLine(provider, order.lines[n])])

\* Of the orders.  The id of an order is optional in Clover's answers.
ReadSales(provider, reply, orders) ==
    IF reply # "answered" THEN Missing
    ELSE {[external_id |-> order.id, lines |-> SaleLines(provider, order)] :
            order \in {o \in ToSet(FirstPage(orders)) : o.id # Missing}}

\* Square is asked for the locations first.  The status of its answer is not looked
\* at: one that tells of a failure has no locations, and of those there are no sales.
SquareSales(asked, reply, orders) ==
    CASE asked = "answered" -> ReadSales("square", reply, orders)
      [] asked = "failed" -> {}
      [] asked = "lost" -> Missing

\* get_merchant_id does not look at the status either, but ends without an id.
MerchantKnown(asked) == asked = "answered"
CloverSales(asked, reply, orders) ==
    IF MerchantKnown(asked) THEN ReadSales("clover", reply, orders) ELSE Missing

FetchSales(provider, asked, reply, orders) ==
    CASE provider = "square"  -> SquareSales(asked, reply, orders)
      [] provider = "shopify" -> ReadSales("shopify", reply, orders)
      [] provider = "clover"  -> CloverSales(asked, reply, orders)

FetchInventory(provider, asked, reply, variations) ==
    IF reply # "answered" \/ (provider = "clover" /\ ~MerchantKnown(asked)) THEN Missing
    ELSE {product \in {Product(provider, v) : v \in ToSet(FirstPage(variations))} :
            product.sku # Missing}
=============================================================================
