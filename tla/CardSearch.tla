------------------------------ MODULE CardSearch ------------------------------
(***************************************************************************)
(* Search of printings, page by page, in the cache of the database and     *)
(* with the Pokemon TCG API (crates/api/src/catalogue/identity.rs and      *)
(* integrations/pokemontcg.rs).                                            *)
(*                                                                         *)
(* Cards are numbered in the order of the cache: name, set, number.  A     *)
(* text is what a query has become for the API (build_tcg_query).  One     *)
(* that a client typed as such may be part of the name of a card; one that *)
(* was built of a name, a set or a number has the syntax of a query, and   *)
(* is part of no name.                                                     *)
(***************************************************************************)
EXTENDS Integers, Sequences, SequencesExt, FiniteSetsExt

CONSTANTS
    Cards,       \* natural numbers
    Texts,
    Typed,       \* texts that clients typed as queries themselves
    ApiFinds,    \* the cards the API has for each text, in its order
    NamesWith,   \* for each typed text the cards whose name it is part of, or id it is
    Limits,      \* sizes of pages that clients ask for
    MaxPageSize, \* of the API (250 in the code)
    CacheDays,   \* 7
    Walkers,     \* clients
    LastDay      \* bound of the clock

ASSUME CardSearchAssumption ==
    /\ Cards \subseteq Nat /\ Typed \subseteq Texts
    /\ ApiFinds \in [Texts -> Seq(Cards)] /\ Limits \subseteq Nat
    /\ MaxPageSize \in Nat \ {0} /\ CacheDays \in Nat \ {0} /\ LastDay \in Nat

VARIABLES
    cachedAt,  \* printings: the day a card was cached last, -1 if never
    walks,     \* the program state of each client and of its request
    day        \* the clock

searchVars == <<cachedAt, walks, day>>

Apart == [pc |-> "idle"]

SearchInit ==
    /\ cachedAt = [c \in Cards |-> -1]
    /\ walks = [w \in Walkers |-> Apart]
    /\ day = 0

-----------------------------------------------------------------------------
Page(rows, page, size) == SubSeq(rows, (page - 1) * size + 1, Min({page * size, Len(rows)}))

\* search_cache: ILIKE; the mutant finds the name in a query by name.
Alike_ByName(text) == ToSet(ApiFinds[text])
Alike(text) == IF text \in Typed THEN NamesWith[text] ELSE {}
InCacheOrder(cards) == SetToSortSeq(cards, LAMBDA a, b : a < b)
SearchCache(text, page, limit) ==
    LET fresh == {c \in Alike(text) : cachedAt[c] >= 0 /\ cachedAt[c] + CacheDays > day} IN
    IF fresh = {} THEN <<>> ELSE Page(InCacheOrder(fresh), page, limit)

\* PokemonTcgClient::search.
TcgSearch(text, page, limit) == Page(ApiFinds[text], page, Min({limit, MaxPageSize}))

\* The answer to a client, who goes on with the next page if there is a cursor.
Shows(w, rows) ==
    LET s == walks[w] IN
    walks' = [walks EXCEPT ![w] =
                [s EXCEPT !.pc = IF Len(rows) >= s.limit THEN "search" ELSE "done",
                          !.page = @ + 1, !.seen = @ \cup ToSet(rows), !.rows = <<>>, !.n = 0]]

BeginWalk(w, text, limit) ==
    /\ walks[w] = Apart
    /\ walks' = [walks EXCEPT ![w] = [pc |-> "search", text |-> text, limit |-> limit, page |-> 1,
                                      seen |-> {}, rows |-> <<>>, n |-> 0]]
    /\ UNCHANGED <<cachedAt, day>>

\* search: what the cache has is the answer, if that is anything.
Search(w) ==
    LET s == walks[w]
        hits == SearchCache(s.text, s.page, s.limit)
    IN
    /\ s.pc = "search"
    /\ IF hits # <<>> THEN Shows(w, hits)
       ELSE walks' = [walks EXCEPT ![w].pc = "ask"]
    /\ UNCHANGED <<cachedAt, day>>

\* The answer of the API, or its failure.
AskTcg(w) ==
    LET s == walks[w] IN
    /\ s.pc = "ask"
    /\ walks' = [walks EXCEPT ![w] = [s EXCEPT !.pc = "cache", !.rows = TcgSearch(s.text, s.page, s.limit)]]
    /\ UNCHANGED <<cachedAt, day>>

\* cache_printings, one by one.
CachePrinting(w) ==
    LET s == walks[w] IN
    /\ s.pc = "cache" /\ s.n < Len(s.rows)
    /\ cachedAt' = [cachedAt EXCEPT ![s.rows[s.n + 1]] = day]
    /\ walks' = [walks EXCEPT ![w].n = @ + 1]
    /\ UNCHANGED day

ShowPage(w) ==
    /\ walks[w].pc = "cache" /\ walks[w].n = Len(walks[w].rows)
    /\ Shows(w, walks[w].rows)
    /\ UNCHANGED <<cachedAt, day>>

\* A client tries a search again that failed: in the cache, with the API, or
\* between two of the rows that are cached.
SearchFails(w) ==
    /\ walks[w].pc \in {"search", "ask", "cache"}
    /\ walks' = [walks EXCEPT ![w] = [@ EXCEPT !.pc = "search", !.rows = <<>>, !.n = 0]]
    /\ UNCHANGED <<cachedAt, day>>

Leave(w) ==
    /\ walks[w] # Apart
    /\ walks' = [walks EXCEPT ![w] = Apart]
    /\ UNCHANGED <<cachedAt, day>>

DayPasses ==
    /\ day < LastDay
    /\ day' = day + 1
    /\ UNCHANGED <<cachedAt, walks>>

SearchStep ==
    \/ \E w \in Walkers :
         \/ \E text \in Texts, limit \in Limits : BeginWalk(w, text, limit)
         \/ Search(w) \/ AskTcg(w) \/ CachePrinting(w) \/ ShowPage(w) \/ SearchFails(w) \/ Leave(w)
    \/ DayPasses

-----------------------------------------------------------------------------
(* Properties.                                                             *)

\* A client who has followed the cursors of a search by name, set or number to the
\* end has seen every card the API has for it, whatever others cached meanwhile,
\* whichever searches failed half-way and however long it took; with pages no
\* larger than the largest of the API.  Of a query that was typed as such this is
\* not so: the cache answers it, with as much of a page as it happens to hold
\* (search, search_cache, cache_printings).
SearchComplete ==
    \A w \in Walkers :
        LET s == walks[w] IN
        s.pc = "done" /\ s.text \notin Typed /\ s.limit <= MaxPageSize =>
            ToSet(ApiFinds[s.text]) \subseteq s.seen
=============================================================================
