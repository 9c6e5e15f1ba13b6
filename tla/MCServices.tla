------------------------------ MODULE MCServices ------------------------------
(* Instances of Services for TLC: a behaviour has one of the four at work,    *)
(* chosen at its beginning.                                                   *)
EXTENDS Services, TLC

CONSTANTS g1, g2, r1, r2, k1, k2
VARIABLES stream, started

\* Bound: what begins in each stream, the hours and days of its clock and the
\* turns of the world included.
MaxStarted ==
    [verify |-> 3, appraise |-> 2, identify |-> 4,
     square |-> 3, shopify |-> 3, clover |-> 4, fetch |-> 0]

MCInit ==
    /\ Init
    /\ stream \in DOMAIN MaxStarted
    /\ stream # "appraise" => shelf[r2] = <<>>
    /\ shelf[r1] = <<>>
    /\ started = 0

\* A lookup begins, a certificate changes.
Turns ==
    CASE stream = "verify" ->
           IF registry' # registry \/ \E q \in Lookups : lookups[q] = NoLookup /\ lookups'[q] # NoLookup
           THEN 1 ELSE 0
      [] stream = "appraise" ->
           IF \/ shelf' # shelf
              \/ nextTick' <= hour /\ nextTick' # nextTick
              \/ \E r \in OnDemand : refreshing[r] = NoRefresh /\ refreshing'[r] # NoRefresh
              \/ outages' \ outages # {}
              \/ \E p \in Printings : missed'[p] > missed[p]
           THEN 1 ELSE 0
      [] stream = "identify" ->
           IF \/ day' # day
              \/ \E w \in Walkers : walks[w] = Apart /\ walks'[w] # Apart
              \/ \E w \in Walkers : SearchFails(w)
           THEN 1 ELSE 0
      [] OTHER -> Cardinality({q \in Requests : IsIdle(q) /\ req'[q] # Idle})

\* Connections are numbered in the order in which they are made, and are of one
\* provider.  Bound: a name is claimed where it may change what is written, what
\* PriceCharting finds changes for printings that need it, and printings appear before
\* the second run of the task.
MCNext ==
    /\ UNCHANGED stream
    /\ \/ /\ stream = "verify"
          /\ Verify
          /\ \A q \in Lookups : LET l == lookups'[q] IN
               l # NoLookup /\ (l.instance = None \/ l.cert \in Unsupported) => l.claimed = None
       \/ /\ stream = "appraise"
          /\ Appraise
          /\ shelf'[r1] = <<>>
          /\ known' # known => hour < RefreshHours
       \/ stream = "identify" /\ Identify
       \/ /\ stream \in Providers
          /\ Connect
          /\ \A c \in Conns : conns'[c] # Missing =>
               conns'[c].provider = stream /\ \A d \in Conns : d < c => conns'[d] # Missing
       \/ stream = "fetch" /\ fetched = Missing /\ FetchPage
    /\ started' = started + Turns
    /\ started' <= MaxStarted[stream]

MCSpec == MCInit /\ [][MCNext]_<<vars, stream, started>>

\* One printing with prices of TCGplayer, one without.
TcgPrices2 ==
    (r1 :> [t \in ToSet(Tiers) |-> CASE t = "normal" -> 3 [] t = "reverseHolofoil" -> 2 [] OTHER -> NoPrice])
    @@ (r2 :> [t \in ToSet(Tiers) |-> NoPrice])

Listed(pokemon, listed, loose) == [pokemon |-> pokemon, listed |-> listed, loose |-> loose]

Shelves3 ==
    {<<>>, <<Listed(FALSE, TRUE, 9), Listed(TRUE, TRUE, 5)>>, <<Listed(TRUE, FALSE, 7)>>}

\* A text that was typed and is part of two names, and a query of a name.
ApiFinds2 == ("pika" :> <<3, 1>>) @@ ("name:pika" :> <<2, 3, 1>>)
NamesWith2 == "pika" :> {1, 3}

Lines == [object : {k1, Missing}, name : {k2, Missing}, quantity : {Missing, 0, 1, 2, 4}]
Orders ==
    [id : {1, Missing},
     lines : {<<l, m>> : l \in Lines, m \in {[object |-> k1, name |-> k2, quantity |-> 2]}}]

\* One order, and more than a page.
Earlier == [id |-> 2, lines |-> <<>>]
Later == [id |-> 3, lines |-> <<>>]
SomeOrders == {<<o>> : o \in Orders} \cup {<<Earlier, o, Later>> : o \in Orders}
SomeCatalogs == {<<l, [object |-> k2, name |-> Missing, quantity |-> 2]>> : l \in Lines}

\* The streams do not meet, so that they take their requests and names from the
\* same model values: a permutation moves all that a name stands for.
Symmetry == Permutations(Requests) \cup Permutations(Tokens) \cup Permutations(Merchants)
=============================================================================
