------------------------------ MODULE Valuations ------------------------------
(***************************************************************************)
(* Market prices of printings: the sources, the refresh of one price on    *)
(* demand and of all of them by a daily task, and the history of prices    *)
(* (crates/api/src/catalogue/valuation.rs, valuation_routes.rs and         *)
(* integrations/pricecharting.rs).                                         *)
(*                                                                         *)
(* A price is an amount in dollars, the cents of PriceCharting a hundredth *)
(* of one.                                                                 *)
(***************************************************************************)
EXTENDS Naturals, Sequences, SequencesExt, FiniteSetsExt

CONSTANTS
    NoPrice,
    Printings,
    TcgPrices,    \* the TCGplayer prices stored with each printing, by tier
    Shelves,      \* what a search of PriceCharting may find: sequences of products
    Daily,        \* the task of the scheduler
    OnDemand,     \* requests to refresh, in progress at once
    RefreshHours, \* between two runs of the task (24 in the code)
    StaleHours,   \* after which a price is stale (25)
    LastHour,     \* bound of the clock
    MaxMissed     \* bound of the runs of the task that fail as a whole, in a row

ASSUME ValuationsAssumption ==
    /\ RefreshHours \in Nat \ {0} /\ StaleHours \in Nat \ {0} /\ LastHour \in Nat
    /\ MaxMissed \in Nat
    /\ Daily \notin OnDemand /\ NoPrice \notin Nat

Refreshers == OnDemand \cup {Daily}

VARIABLES
    shelf,      \* PriceCharting: what it finds for each printing
    known,      \* printings: the hour of their first appearance, or NoPrice
    valuations, \* valuations: one row a printing, or NoPrice
    snapshots,  \* valuation_snapshots
    refreshing, \* the program state of each refresh
    nextTick,   \* the hour of the next tick of the scheduler
    hour,       \* the clock
    outages,    \* history: printings whose last refresh found no price, or failed
    unpaired,   \* history: printings whose refresh ended between its two writes
    missed      \* history: runs of the task that failed while a printing was due, in a row

valuationVars ==
    <<shelf, known, valuations, snapshots, refreshing, nextTick, hour, outages, unpaired,
      missed>>

NoRefresh == [pc |-> "idle"]
RefreshBecomes(r, state) == refreshing' = [refreshing EXCEPT ![r] = state]

ValuationsInit ==
    /\ shelf \in [Printings -> Shelves]
    /\ known = [p \in Printings |-> NoPrice]
    /\ valuations = [p \in Printings |-> NoPrice]
    /\ snapshots = {}
    /\ refreshing = [r \in Refreshers |-> NoRefresh]
    /\ nextTick = 0 /\ hour = 0
    /\ outages = {} /\ unpaired = {}
    /\ missed = [p \in Printings |-> 0]

-----------------------------------------------------------------------------
(* The sources.                                                            *)

Tiers == <<"holofoil", "1stEditionHolofoil", "normal", "reverseHolofoil">>

\* extract_tcg_market_price: the first tier that has a market price; the mutant
\* takes the last.
Offered(prices) == {n \in DOMAIN Tiers : prices[Tiers[n]] # NoPrice}
TcgMarketPrice_Last(prices) ==
    IF Offered(prices) = {} THEN NoPrice ELSE prices[Tiers[Max(Offered(prices))]]
TcgMarketPrice(prices) ==
    IF Offered(prices) = {} THEN NoPrice ELSE prices[Tiers[Min(Offered(prices))]]

\* find_pokemon_product, product_by_id.
PokemonProduct(products) ==
    LET pokemon == SelectSeq(products, LAMBDA product : product.pokemon) IN
    IF pokemon = <<>> \/ ~Head(pokemon).listed THEN NoPrice ELSE Head(pokemon)

RawPrice(products) ==
    IF PokemonProduct(products) = NoPrice THEN NoPrice ELSE PokemonProduct(products).loose

Price(amount, source) == [price |-> amount, source |-> source]

\* What a row of valuations holds.
Amounts ==
    {TcgMarketPrice(TcgPrices[p]) : p \in Printings} \cup {RawPrice(products) : products \in Shelves}
ValuationRow == [price : Amounts, source : {"tcgplayer", "pricecharting"}, at : Nat]

ASSUME RowAssumption == NoPrice \notin ValuationRow

-----------------------------------------------------------------------------
(* refresh, of one printing or of the next in a batch.                     *)

\* What a refresh does with the printings it has left; the mutant ends the batch
\* when one fails.
Continues_UnlessFailed(r, failed) ==
    IF failed \/ refreshing[r].left = {} THEN RefreshBecomes(r, NoRefresh)
    ELSE \E p \in refreshing[r].left :
           RefreshBecomes(r, [pc |-> "fetch", printing |-> p, left |-> refreshing[r].left \ {p}])
Continues(r, failed) ==
    IF refreshing[r].left = {} THEN RefreshBecomes(r, NoRefresh)
    ELSE \E p \in refreshing[r].left :
           RefreshBecomes(r, [pc |-> "fetch", printing |-> p, left |-> refreshing[r].left \ {p}])

Resolved(r, found) ==
    RefreshBecomes(r, [pc |-> "upsert", printing |-> refreshing[r].printing, left |-> refreshing[r].left,
                       price |-> found.price, source |-> found.source, at |-> hour])

\* fetch_printing, and the prices that come with it.
FetchPrinting(r) ==
    LET p == refreshing[r].printing
        price == TcgMarketPrice(TcgPrices[p])
    IN
    /\ refreshing[r].pc = "fetch"
    /\ CASE known[p] = NoPrice -> Continues(r, FALSE)
         [] known[p] # NoPrice /\ price # NoPrice -> Resolved(r, Price(price, "tcgplayer"))
         [] OTHER -> RefreshBecomes(r, [refreshing[r] EXCEPT !.pc = "ask"])
    /\ UNCHANGED <<shelf, known, valuations, snapshots, nextTick, hour, outages, unpaired, missed>>

\* resolve_price: the fallback, whose failure counts as no price.
AskPriceCharting(r) ==
    LET p == refreshing[r].printing IN
    /\ refreshing[r].pc = "ask"
    /\ \/ /\ RawPrice(shelf[p]) # NoPrice
          /\ Resolved(r, Price(RawPrice(shelf[p]), "pricecharting"))
          /\ UNCHANGED outages
       \/ /\ Continues(r, FALSE)
          /\ outages' = outages \cup {p}
    /\ UNCHANGED <<shelf, known, valuations, snapshots, nextTick, hour, unpaired, missed>>

UpsertValuation(r) ==
    LET s == refreshing[r] IN
    /\ s.pc = "upsert"
    /\ valuations' = [valuations EXCEPT ![s.printing] =
                        [price |-> s.price, source |-> s.source, at |-> s.at]]
    /\ outages' = outages \ {s.printing}
    /\ unpaired' = unpaired \ {s.printing}
    /\ missed' = [missed EXCEPT ![s.printing] = 0]
    /\ RefreshBecomes(r, [s EXCEPT !.pc = "snapshot"])
    /\ UNCHANGED <<shelf, known, snapshots, nextTick, hour>>

InsertSnapshot(r) ==
    LET s == refreshing[r] IN
    /\ s.pc = "snapshot"
    /\ snapshots' = snapshots \cup
         {[printing |-> s.printing, price |-> s.price, source |-> s.source, at |-> s.at]}
    /\ Continues(r, FALSE)
    /\ UNCHANGED <<shelf, known, valuations, nextTick, hour, outages, unpaired, missed>>

\* One of the statements fails: a warning in a batch, the answer of a request.
RefreshFails(r) ==
    LET p == refreshing[r].printing IN
    /\ refreshing[r].pc \in {"fetch", "upsert", "snapshot"}
    /\ Continues(r, TRUE)
    /\ IF refreshing[r].pc = "snapshot"
       THEN unpaired' = unpaired \cup {p} /\ UNCHANGED outages
       ELSE outages' = outages \cup {p} /\ UNCHANGED unpaired
    /\ UNCHANGED <<shelf, known, valuations, snapshots, nextTick, hour, missed>>

-----------------------------------------------------------------------------
(* trigger_refresh and the scheduler.                                      *)

\* fetched_at > cutoff, for which there is no price to be fetched; the mutant
\* passes over the printings that have never had one.
Outdated_Priced(p) == valuations[p] # NoPrice /\ valuations[p].at + StaleHours <= hour
Outdated(p) == valuations[p] = NoPrice \/ valuations[p].at + StaleHours <= hour

StaleOrPending == {p \in Printings : known[p] # NoPrice /\ Outdated(p)}

\* The batch, unless the database does not answer the SELECT of what is in it.
RefreshAll(r, answered) ==
    LET ids == IF answered THEN StaleOrPending ELSE {} IN
    IF ids = {} THEN UNCHANGED refreshing
    ELSE \E p \in ids : RefreshBecomes(r, [pc |-> "fetch", printing |-> p, left |-> ids \ {p}])

TriggerRefresh(r) ==
    /\ refreshing[r] = NoRefresh
    /\ \/ \E p \in Printings : RefreshBecomes(r, [pc |-> "fetch", printing |-> p, left |-> {}])
       \/ \E answered \in BOOLEAN : RefreshAll(r, answered)
    /\ UNCHANGED <<shelf, known, valuations, snapshots, nextTick, hour, outages, unpaired, missed>>

\* The first tick is at once.  A run that fails is logged, and the next is a day later.
TickScheduler ==
    /\ refreshing[Daily] = NoRefresh
    /\ nextTick <= hour
    /\ nextTick' = nextTick + RefreshHours
    /\ \E answered \in BOOLEAN :
         /\ answered \/ \A p \in Printings : missed[p] < MaxMissed
         /\ RefreshAll(Daily, answered)
         /\ missed' = [p \in Printings |->
              IF ~answered /\ p \in StaleOrPending THEN missed[p] + 1 ELSE missed[p]]
    /\ UNCHANGED <<shelf, known, valuations, snapshots, hour, outages, unpaired>>

\* The process stops and starts again.
RestartScheduler ==
    /\ nextTick' = hour
    /\ refreshing' = [r \in Refreshers |-> NoRefresh]
    /\ unpaired' = unpaired \cup
         {refreshing[r].printing : r \in {s \in Refreshers : refreshing[s].pc = "snapshot"}}
    /\ UNCHANGED <<shelf, known, valuations, snapshots, hour, outages, missed>>

-----------------------------------------------------------------------------
(* The rest of the world.                                                  *)

AppearPrinting(p) ==
    /\ known[p] = NoPrice
    /\ known' = [known EXCEPT ![p] = hour]
    /\ UNCHANGED <<shelf, valuations, snapshots, refreshing, nextTick, hour, outages, unpaired, missed>>

ShelfChanges(p, products) ==
    /\ products # shelf[p]
    /\ shelf' = [shelf EXCEPT ![p] = products]
    /\ UNCHANGED <<known, valuations, snapshots, refreshing, nextTick, hour, outages, unpaired, missed>>

\* Bound: a refresh, a whole batch included, ends in the hour in which it began.
HourPasses ==
    /\ hour < LastHour
    /\ nextTick > hour
    /\ \A r \in Refreshers : refreshing[r] = NoRefresh
    /\ hour' = hour + 1
    /\ UNCHANGED <<shelf, known, valuations, snapshots, refreshing, nextTick, outages, unpaired, missed>>

ValuationsStep ==
    \/ \E r \in Refreshers :
         \/ FetchPrinting(r) \/ AskPriceCharting(r) \/ UpsertValuation(r)
         \/ InsertSnapshot(r) \/ RefreshFails(r)
    \/ \E r \in OnDemand : TriggerRefresh(r)
    \/ TickScheduler \/ RestartScheduler \/ HourPasses
    \/ \E p \in Printings : AppearPrinting(p) \/ \E products \in Shelves : ShelfChanges(p, products)

-----------------------------------------------------------------------------
(* Properties.                                                             *)

\* status, and an item of get_valuations: never "no_data" for a row there is none of.
Age(p) == hour - valuations[p].at
Shown(p) ==
    CASE valuations[p] = NoPrice -> "pending"
      [] valuations[p] # NoPrice /\ Age(p) > StaleHours -> "stale"
      [] OTHER -> "current"

\* A printing waits for the next run of the task, and for one more after each that
\* failed as a whole.
Patience(p) == RefreshHours * (1 + missed[p])

\* As long as the refreshes of a printing find a price, it is shown as pending for
\* a day at most after it appears, and a price as stale until the next but one run
\* of the task after it was fetched, whatever becomes of the other printings and
\* through restarts; and each run that fails as a whole, there being no other try
\* before the next, puts that off by a day.  That it is stale for most of a day in
\* between is no outage: the task passes over a price that is a day old
\* (refresh_all, the scheduler).
PricesRenewed ==
    \A p \in Printings : known[p] # NoPrice /\ p \notin outages =>
        CASE Shown(p) = "pending" -> hour - known[p] <= Patience(p)
          [] Shown(p) = "stale" -> Age(p) < StaleHours + Patience(p)
          [] Shown(p) = "current" -> TRUE

SnapshotOf(p) ==
    [printing |-> p, price |-> valuations[p].price, source |-> valuations[p].source,
     at |-> valuations[p].at]

\* The price that is shown for a printing is a point of its history, unless the
\* refresh that wrote it has not come to that or was cut short; and no point of the
\* history is a PriceCharting price of a printing that has one of TCGplayer, or
\* other than the best tier of those (refresh, resolve_price).
HistoryBehindPrice ==
    /\ \A p \in Printings :
         \/ valuations[p] = NoPrice \/ p \in unpaired
         \/ \E r \in Refreshers : refreshing[r].pc = "snapshot" /\ refreshing[r].printing = p
         \/ SnapshotOf(p) \in snapshots
    /\ \A s \in snapshots : \A n \in DOMAIN Tiers :
         /\ TcgPrices[s.printing][Tiers[n]] # NoPrice
         /\ \A k \in 1..(n - 1) : TcgPrices[s.printing][Tiers[k]] = NoPrice
         => s.source = "tcgplayer" /\ s.price = TcgPrices[s.printing][Tiers[n]]
=============================================================================
