---------------------------- MODULE ScalperRules ----------------------------
(***************************************************************************)
(* Scalper detection of one seller workspace: its configuration and allow  *)
(* list, and the scan of a purchase, which looks for four patterns and     *)
(* raises one flag (crates/api/src/fraud/detect_scalpers.rs).              *)
(*                                                                         *)
(* Purchases in the velocity window are counted in a sorted set of Redis,  *)
(* or by Postgres where there is no Redis.  Time is in seconds; all the    *)
(* windows are counted in them.  The text of get_or_create_config holds    *)
(* two statements, which is modelled as the two of them executed in turn.  *)
(***************************************************************************)
EXTENDS RiskFlags, FiniteSetsExt

CONSTANTS
    Purchases,   \* rows of transactions
    Buyers,      \* buyer hashes
    BuyerOf,     \* the buyer hash of each purchase, or None
    Printings,   \* printings
    QuantityOf,  \* the quantity of each printing in each purchase
    Configs,     \* configurations an owner may set
    Grace,       \* the 60 seconds that a Redis key outlives its window
    Bits,        \* the width of i32
    MaxTime      \* bound: the last second of the model

ConfigRow == [enabled : BOOLEAN, window : Nat, threshold : Nat, bulk : Nat, sweep : Nat, repeat : Nat]

\* update_config_handler turns away a window or a limit of nothing.
AcceptedConfigs ==
    {c \in ConfigRow : 0 \notin {c.window, c.threshold, c.bulk, c.sweep, c.repeat}}

\* An i32 goes from -Half to Half - 1.
Half == 2^(Bits - 1)

ASSUME ScalperAssumption ==
    /\ BuyerOf \in [Purchases -> Buyers \cup {None}]
    /\ QuantityOf \in [Purchases -> [Printings -> Nat]]
    /\ Configs \subseteq AcceptedConfigs
    /\ {Grace, MaxTime} \subseteq Nat
    /\ Bits \in Nat \ {0} /\ Half \in Nat \ {0}

VARIABLES
    config,    \* scalper_detection_config, the defaults before it is written
    allow,     \* buyer_allowlist
    bought,    \* when each purchase occurred; None before it is recorded
    now,       \* the clock
    redis,     \* whether the process has a Redis connection
    window,    \* the sorted set of each buyer: its members, which are seconds
    expires,   \* the second after which the key of the buyer is gone
    counted,   \* history: seconds ever added to the set of a buyer
    promptly,  \* history: every scan for the buyer was in order, in time, and counted
    trusted    \* history: scans whose buyer has been on the allow list all along

scalperVars == <<config, allow, bought, now, redis, window, expires, counted, promptly, trusted>>

ScalperInit ==
    /\ config \in Configs
    /\ allow = {}
    /\ bought = [x \in Purchases |-> None]
    /\ now = 0
    /\ redis \in BOOLEAN
    /\ window = [b \in Buyers |-> {}]
    /\ expires = [b \in Buyers |-> 0]
    /\ counted = [b \in Buyers |-> {}]
    /\ promptly = [b \in Buyers |-> TRUE]
    /\ trusted = [q \in Requests |-> FALSE]

Recorded(x) == bought[x] # None
BoughtBy(b) == {x \in Purchases : Recorded(x) /\ BuyerOf[x] = b}

Total(S, p) == MapThenSumSet(LAMBDA x : QuantityOf[x][p], S)

-----------------------------------------------------------------------------
(* Time passes and sales are recorded.                                     *)

Tick ==
    /\ now < MaxTime
    /\ now' = now + 1
    /\ UNCHANGED <<flagVars, req, config, allow, bought, redis, window, expires, counted,
                   promptly, trusted>>

\* The writer of transactions in this repository, ingest_sales, leaves buyer_hash
\* NULL (BuyerOf is None): by it alone no scan finds a buyer.  The rows with a
\* buyer are those the schema admits and the tests of the scan insert.
RecordPurchase(x) ==
    /\ ~Recorded(x)
    /\ bought' = [bought EXCEPT ![x] = now]
    /\ UNCHANGED <<flagVars, req, config, allow, now, redis, window, expires, counted,
                   promptly, trusted>>

-----------------------------------------------------------------------------
(* update_config, add_to_allowlist, remove_from_allowlist *)

\* A changed window makes earlier counts incomparable (promptly is history).
UpdateConfig(new) ==
    /\ new # config
    /\ config' = new
    /\ promptly' = [b \in Buyers |-> promptly[b] /\ new.window = config.window]
    /\ UNCHANGED <<flagVars, req, allow, bought, now, redis, window, expires, counted, trusted>>

AllowBuyer(b) ==
    /\ b \notin allow
    /\ allow' = allow \cup {b}
    /\ UNCHANGED <<flagVars, req, config, bought, now, redis, window, expires, counted,
                   promptly, trusted>>

DisallowBuyer(b) ==
    /\ b \in allow
    /\ allow' = allow \ {b}
    /\ trusted' = [q \in Requests |->
                     trusted[q] /\ ~("buyer" \in DOMAIN req[q] /\ req[q].buyer = b)]
    /\ UNCHANGED <<flagVars, req, config, bought, now, redis, window, expires, counted, promptly>>

-----------------------------------------------------------------------------
(* score_transaction, statement by statement                               *)

BeginScan(q, x) ==
    /\ IsIdle(q)
    /\ Recorded(x)
    /\ ReqBecomes(q, [pc |-> "config", x |-> x, buyer |-> BuyerOf[x], cfg |-> config,
                      found |-> {}, count |-> 0, due |-> 0])
    /\ trusted' = [trusted EXCEPT ![q] = BuyerOf[x] \in allow]
    /\ UNCHANGED <<flagVars, config, allow, bought, now, redis, window, expires, counted, promptly>>

ReadConfig(q) ==
    /\ req[q].pc = "config"
    /\ IF config.enabled
       THEN ReqBecomes(q, [req[q] EXCEPT !.pc = "transaction", !.cfg = config])
       ELSE Ends(q)
    /\ UNCHANGED <<flagVars, scalperVars>>

\* Cash and anonymous sales have no buyer hash.
ReadTransaction(q) ==
    /\ req[q].pc = "transaction"
    /\ IF req[q].buyer = None THEN Ends(q) ELSE Goto(q, "allowlist")
    /\ UNCHANGED <<flagVars, scalperVars>>

CheckAllowlist(q) ==
    /\ req[q].pc = "allowlist"
    /\ IF req[q].buyer \in allow THEN Ends(q) ELSE Goto(q, "velocity")
    /\ UNCHANGED <<flagVars, scalperVars>>

Pattern(name, n, limit) == [pattern |-> name, n |-> n, limit |-> limit]
Finds(q, patterns, label) ==
    ReqBecomes(q, [req[q] EXCEPT !.pc = label, !.found = @ \cup patterns])

Exceeds(name, n, limit) == IF n > limit THEN {Pattern(name, n, limit)} ELSE {}

\* ZREMRANGEBYSCORE -inf (min_ts - 1) after ZADD: what remains of the set.  The
\* mutant removes up to min_ts.
InWindow_Open(s, t, cfg) == s > t - cfg.window
InWindow(s, t, cfg) == s >= t - cfg.window

\* EXPIRE: the window and a minute.
KeyExpiry(cfg) == now + cfg.window + Grace

\* check_velocity with Redis.  The members of the set are the seconds of the
\* purchases, so that purchases of the same second count as one, and so does a
\* purchase that is scanned again.  If Redis does not answer the count is 0.
CountInRedis(q) ==
    LET b == req[q].buyer
        t == bought[req[q].x]
        live == IF now > expires[b] THEN {} ELSE window[b]
        kept == {s \in live \cup {t} : InWindow(s, t, req[q].cfg)}
        due == {s \in counted[b] \cup {t} : t - req[q].cfg.window <= s /\ s <= t}
    IN
    /\ req[q].pc = "velocity" /\ redis
    /\ \/ /\ window' = [window EXCEPT ![b] = kept]
          /\ expires' = [expires EXCEPT ![b] = KeyExpiry(req[q].cfg)]
          /\ counted' = [counted EXCEPT ![b] = @ \cup {t}]
          /\ promptly' = [promptly EXCEPT ![b] =
                            /\ @ /\ now <= t + Grace /\ \A s \in counted[b] : s <= t
                            /\ req[q].cfg.window = config.window]
          /\ ReqBecomes(q, [req[q] EXCEPT
                              !.pc = "bulk", !.count = Cardinality(kept), !.due = Cardinality(due),
                              !.found = Exceeds("velocity", Cardinality(kept), req[q].cfg.threshold)])
       \/ /\ Goto(q, "bulk")
          /\ promptly' = [promptly EXCEPT ![b] = FALSE]
          /\ UNCHANGED <<window, expires, counted>>
    /\ UNCHANGED <<flagVars, config, allow, bought, now, redis, trusted>>

\* The fallback counts what occurred in the window before NOW(), scanned or not.
CountInPostgres(q) ==
    LET n == Cardinality({x \in BoughtBy(req[q].buyer) : bought[x] > now - req[q].cfg.window}) IN
    /\ req[q].pc = "velocity" /\ ~redis
    /\ Finds(q, Exceeds("velocity", n, req[q].cfg.threshold), "bulk")
    /\ UNCHANGED <<flagVars, scalperVars>>

\* check_bulk: the largest quantity of one printing in the purchase.
CheckBulk(q) ==
    /\ req[q].pc = "bulk"
    /\ Finds(q, Exceeds("bulk", Max({QuantityOf[req[q].x][p] : p \in Printings}),
                        req[q].cfg.bulk), "sweep")
    /\ UNCHANGED <<flagVars, scalperVars>>

\* check_sweep: for each printing of the purchase, all the buyer ever bought.
CheckSweep(q) ==
    LET bought1 == {p \in Printings : QuantityOf[req[q].x][p] > 0} IN
    /\ req[q].pc = "sweep"
    /\ Finds(q, UNION {Exceeds("sweep", Total(BoughtBy(req[q].buyer), p), req[q].cfg.sweep) :
                         p \in bought1}, "repeat")
    /\ UNCHANGED <<flagVars, scalperVars>>

\* check_repeat: an earlier purchase within the window before this one.
CheckRepeat(q) ==
    LET t == bought[req[q].x] IN
    /\ req[q].pc = "repeat"
    /\ Finds(q, IF \E x \in BoughtBy(req[q].buyer) :
                     bought[x] < t /\ bought[x] > t - req[q].cfg.repeat
                THEN {Pattern("repeat", 1, 0)} ELSE {}, "raiseScalper")
    /\ UNCHANGED <<flagVars, scalperVars>>

\* i32 arithmetic: the release profile wraps around.
I32(n) == ((n + Half) % (2 * Half)) - Half

Low == 1
Medium == 2
High == 3
Critical == 4

\* ScalperPattern::severity.  The mutant compares in the wrong order.
Severity_HighFirst(f) ==
    CASE f.pattern = "velocity" -> IF f.n >= 2 * f.limit THEN High
                                   ELSE IF f.n >= 3 * f.limit THEN Critical ELSE Medium
      [] f.pattern = "bulk" -> IF f.n >= I32(2 * f.limit) THEN High
                               ELSE IF f.n >= I32(3 * f.limit) THEN Critical ELSE Medium
      [] f.pattern = "sweep" -> High
      [] f.pattern = "repeat" -> Low
Severity(f) ==
    CASE f.pattern = "velocity" -> IF f.n >= 3 * f.limit THEN Critical
                                   ELSE IF f.n >= 2 * f.limit THEN High ELSE Medium
      [] f.pattern = "bulk" -> IF f.n >= I32(3 * f.limit) THEN Critical
                               ELSE IF f.n >= I32(2 * f.limit) THEN High ELSE Medium
      [] f.pattern = "sweep" -> High
      [] f.pattern = "repeat" -> Low

\* One flag for all that was found, as severe as the worst of it.
RaiseScalper(q) ==
    /\ req[q].pc = "raiseScalper"
    /\ IF req[q].found = {}
       THEN Ends(q) /\ UNCHANGED flagVars
       ELSE CreateFlag(q, NewFlag("scalper", req[q].x,
                                  Max({Severity(f) : f \in req[q].found}), req[q].found))
    /\ UNCHANGED scalperVars

ScalperStep ==
    \/ Tick
    \/ \E x \in Purchases : RecordPurchase(x)
    \/ \E c \in Configs : UpdateConfig(c)
    \/ \E b \in Buyers : AllowBuyer(b) \/ DisallowBuyer(b)
    \/ \E q \in Requests :
         \/ \E x \in Purchases : BeginScan(q, x)
         \/ ReadConfig(q) \/ ReadTransaction(q) \/ CheckAllowlist(q)
         \/ CountInRedis(q) \/ CountInPostgres(q)
         \/ CheckBulk(q) \/ CheckSweep(q) \/ CheckRepeat(q) \/ RaiseScalper(q)

-----------------------------------------------------------------------------
(* Properties.                                                             *)

ScanLabels == {"config", "transaction", "allowlist", "velocity", "bulk", "sweep", "repeat",
               "raiseScalper"}
Scoring(q) == req[q].pc \in ScanLabels \ {"config", "transaction", "allowlist"}

IsScan(r) ==
    /\ DOMAIN r = {"pc", "x", "buyer", "cfg", "found", "count", "due"}
    /\ r.pc \in ScanLabels /\ r.x \in Purchases /\ r.buyer = BuyerOf[r.x] /\ r.cfg \in Configs

ScalperTypeOK ==
    /\ config \in Configs
    /\ allow \subseteq Buyers
    /\ bought \in [Purchases -> (0..MaxTime) \cup {None}] /\ now \in 0..MaxTime
    /\ \A q \in Requests : req[q].pc \in ScanLabels => IsScan(req[q]) /\ Recorded(req[q].x)

\* "Redis sliding window": as long as the purchases of a buyer are scanned in the
\* order in which they occurred and within the minute for which the key outlives
\* its window, the count is the number of distinct seconds in the window: nothing
\* is forgotten too early or kept too long, at either end (check_velocity).
VelocityExact ==
    \A q \in Requests :
        req[q].pc = "bulk" /\ promptly[req[q].buyer] => req[q].count = req[q].due

\* "Cash/anonymous: never falsely flagged", "allowlisted buyers": a scan never
\* scores a purchase without a buyer, nor one whose buyer has been on the allow
\* list since before the scan began.  A flag has a reason, and unless the limit
\* overflows i32, it is critical exactly if one pattern is three times its limit
\* (score_transaction, ScalperPattern::severity).
FlagsJustified ==
    /\ \A q \in Requests : Scoring(q) => req[q].buyer # None /\ ~trusted[q]
    /\ \A f \in DOMAIN flags : flags[f].kind = "scalper" =>
         /\ BuyerOf[flags[f].target] # None
         /\ flags[f].evidence # {}
         /\ (\A e \in flags[f].evidence : 3 * e.limit < Half) =>
              (flags[f].severity = Critical <=>
                 \E e \in flags[f].evidence : e.pattern \in {"velocity", "bulk"} /\ e.n >= 3 * e.limit)
=============================================================================
