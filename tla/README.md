# CardGuard: models and proofs of the API

CardGuard is a tracker for trading cards: an axum API over Postgres (`crates/api`),
a Leptos web application (`crates/web`) and types that they share (`crates/domain`).
Collectors keep an inventory; sellers connect a point of sale (POS) and get their
sales, quantities and risk flags reconciled. This directory holds TLA+ models of the
parts of the API where several requests and background tasks work on the same rows,
the TLC configurations that check them and theorems that TLAPS proves.

All of it follows one fact of `main.rs` and `db.rs`: the pool autocommits. Outside of
the few explicit transactions, **each SQL statement is an atomic step and everything
in progress interleaves between statements**; a request may also end between any two
of them (an error, a dropped connection, a restart). So an action of a model is one
statement together with the code around it up to the next statement, a transaction is
one action, and a request or a run is a record with a program counter (`pc`) and the
locals it carries from one statement to the next.

## Inventory of the system

| Part | State it keeps | Operations | What makes it hard |
| --- | --- | --- | --- |
| POS ingestion, SKU mapping (`pos/reconcile.rs`, `pos/mapping.rs`) | `transactions`, `transaction_lines`, `pos_product_mappings`, `unmapped_pos_skus`, `printings.quantity`, `last_synced_at` | `ingest_sales`; create, update, delete of a mapping, with backfill and reversal | hourly task, sync now and mapping requests overlap; a failure halfway is never undone; the watermark |
| Reconciliation report (`pos/reconcile.rs`) | `reconciliation_reports`, `reconciliation_discrepancies` | `run_reconciliation`, `diff_and_write_discrepancies`, `push_to_pos`, `resolve_discrepancy` | two runs of one report; counts computed before they are written; killed runs |
| Team and invitations (`workspace/invites.rs`, `workspace/routes.rs`) | `workspace_members`, `workspace_invites` | send, resend, cancel, accept; change of role, two handlers for removal | check-then-act over several statements |
| Sessions and account tokens (`auth/service.rs`) | `users`, `refresh_tokens`, `email_verifications`, `password_resets` | register, login, refresh, logout, verify, reset | rotation in three statements; checks outside of the transaction |
| Stolen registry, risk flags (`fraud/stolen.rs`, `fraud/flags.rs`) | `stolen_reports`, `dispute_records`, `private_stolen_certs`, `risk_flags` | submit, confirm, reject, dispute, scan, flag transitions | status read and then overwritten; duplicate flags |
| Scalper detection (`fraud/detect_scalpers.rs`) | configuration, allow list, a Redis sorted set | four checks of a transaction | two counters that should agree; severities |
| Inventory (`catalogue/inventory.rs`) | `inventory_items`, `card_instances` | list by cursor, patch with version, delete, bulk actions | lost updates; pages that skip rows |
| CSV jobs (`catalogue/csv_import.rs`, `csv_export.rs`) | `import_jobs`, `export_jobs`, uploaded files | start, confirm, background job, status | a job run twice; a job that never ends |
| POS connection (`pos/routes.rs`, `pos/connection.rs`, `jobs/`) | `pos_connections` | authorize, callback, disconnect, refresh of tokens, webhooks | the callback races disconnect and itself |
| Lookups (`grading/`, `catalogue/valuation.rs`, `catalogue/identity.rs`) | cached answers, snapshots | verify, value, identify | stale answers, fallback between sources |
| Provider adapters, notifications, middleware, web pages | none, or that of a page | HTTP calls, parsing, rendering | mostly input and output |

How they interact: the hourly task `spawn_reconciliation_scheduler` and "sync now" both
call `run_reconciliation`, which ingests (adding to `printings.quantity` by way of the
mappings), then writes the report; the mapping requests of the same users change the
mappings, the lines and the quantities under it; `resolve_discrepancy` writes the
quantities from the report. Teams decide who may do any of it, sessions who a user is.
A transaction that was ingested is also what scalper detection reads.

What correctness means, part by part:

* *Ingestion*: a POS sale is recorded once and none is forgotten; each of its lines is
  counted in exactly one printing, once.
* *Report*: a completed report is true of the stock it was made from, its counts are those
  of its rows, and a report does not stay "syncing".
* *Team*: there is always an owner; an invitation is good once.
* *Sessions*: one usable token in a session; reuse ends the session; no session outlives its
  password.
* *Fraud desk*: a flag is triaged once and its audit entry says by whom; members are told of a
  new flag; a rejection is not undone by a dispute; one open flag for a stolen card; a scalper
  flag rests on what the purchases were.
* *Catalogue*: no edit overwrites what its author has not seen; an import changes the stock once for
  each record; an export and a walk through the pages leave nothing out.
* *Outside services*: an active POS connection can be worked with; a cancelled one connects
  nothing; answers are as fresh as they claim; a price has its history; a search shows each card once.
* *Web pages*: the list shows what its filter selects; a count kept by the page is not ahead of the
  server.

`PROJECT.json` lists the components with their sources ("components") and the hazards of
each at their lines ("hazards"), those of the parts that are not modelled yet included.

The migrations of the repository come from several streams that redefine some tables, and
cannot all be applied to one database. Each component is modelled against the schema of
the migration that its own stream brings.

## Modules

`PosLedger` (with `SalePosting`, `MCPosLedger`, `PosLedgerProofs`) — the sale ledger of one
connection. State: the rows of the tables above, a program state for each run (`run`) and
each mapping request (`admin`), and two history variables. Quantities are kept as a
history: `charge[p][row]` is how often a transaction line has been added to printing `p`.
All the ledger does to a quantity is add or subtract sums of lines, so nothing is lost by
this, and "counted twice" becomes visible. Actions are the statements of `ingest_sales` in
order (`GetSales`, `PickSale`, `InsertTxn`, `FindMapping`, `QueueUnmapped`, `InsertLine`,
`ChargeLine`, `AdvanceWatermark`), the part of the diff phase that queues SKUs, and the
statements of `create_mapping`, `update_mapping` and `delete_mapping`
(`CreateMapping`, `ReadMapping`, `SumReversible`, `Reverse`, `Remap`, `FillLines`,
`SumLines`, `PostSum`, `Unqueue`, `DeleteMapping`). Constraints of the schema, the UNIQUE
key of `transactions` and the foreign key of `transaction_lines`, are guards with a
rejecting alternative (`InsertTxnRejected`, `InsertLineRejected`).

`SalePosting` is the abstract specification of ingestion: a sale is opened by one clerk,
who alone posts its lines, each at most once, and an abandoned sale stays torn. `PosLedger`
defines its refinement mapping (`PhaseOf`, `ClerkOf`, `PostedRows`).

`ReconcileReport` (with `MCReconcileReport`, `ReconcileReportProofs`) — the report of one
connection and day: `status`, the two counts and the rows; the catalogue and POS quantities
that it compares; the runs and the resolve requests that work on it. A run ends when it is killed (`Killed`), on an
error that `run_reconciliation` does not catch (`UncaughtError`: its status updates, the count and the final UPDATE), or in
"failed" or "completed"; and runs begin on this report only while it is of today and the connection active
(`standing`, `DayEnds`, `SwitchConnection`). History: `late`, `cut`, `interrupted`, `drifted`. Ingestion is here only
one of the reasons for which a quantity changes (`CatalogueChanges`); what it does exactly
is the subject of `PosLedger`.

`TeamMembership` (with `MCTeamMembership`, `TeamMembershipProofs`) — the members and
invitations of one seller workspace. Two handlers are registered for the removal of a member
(`invites.rs` and `routes.rs`), with the role and the owner count read in opposite orders;
which of them serves the path is a matter of how axum merges the routers, so both are modelled, side
by side. History: `grants`, the memberships that an invitation has made; which requests were overtaken by another between
their check and their write (`overtaken`), and what became of it (`raced`, `crossed`).

`AuthTokens` (with `MCAuthTokens`, `AuthTokensProofs`) — the account behind one email address. A
token row has its family, `revoked_at` and expiry; the id of the token that opened a
family stands for the family. History: the session that a token continues and the version of the
password it was opened under, sessions in which a revoked token came back, and the sessions that a request went on with
although another refresh (`forked`) or a reset (`stale`) had come between its check and its write.

`FraudDesk` (with `MCFraudDesk`, `FraudDeskProofs`) composes three modules that share the table of
flags and the pool of requests. `RiskFlags` — triage of one flag and in bulk, each flag an UPDATE and an audit
entry; the announcement of a new flag, a notification for each member, with failures that are logged and
swallowed. `StolenRegistry` — reports, verdicts of moderators, disputes in three statements, the private list, and
the scan of a workspace, whose one INSERT .. SELECT is two steps, for it reads the snapshot of its beginning.
`ScalperRules` — the scan of a purchase: configuration, transaction, allow list, velocity (the
sorted set in Redis with its expiry, or the query where there is no Redis), bulk, sweep, repeat, and the severity
in `Bits` bits. History says which requests stopped in front of their second write (`unaudited`,
`unannounced`, `torn`), which disputes had their report rejected under them (`crossed`), which instances were selected
twice before their first flag was there (`doubled`), and which counts were taken in order and in time (`promptly`).

`Catalogue` (with `MCCatalogue`, `InventoryProofs`, `WebPageProofs`) composes the stock of a workspace with what works on it.
`Inventory` — raw and graded rows, additions with their upsert, optimistic edits (a check and an UPDATE), bulk edits
and deletions of the two tables one after the other. `updated_at` is the version of a row, `held` the copies that clients
edit from, `overtaken` the edits whose row was written to after their check. `CsvJobs` extends it: recognition of columns or the client's own map of them, the import job record by record with its
progress, confirmation, and the export with its two SELECTs, each with its filters (set, condition); what an export should hold
(`Wanted`) is defined apart from what its SELECTs take (`SelectedRaw`, `SelectedGraded`). `Pages` — a client that reads the inventory or the flags page by page with the
cursors of the two handlers, microseconds and milliseconds included, while rows come and go. `StockPage` and `ReportPage` —
the inventory list and the report of the web client: one action for each handler, effect and rest of a task after its await,
with the answers of the server in any order; the server's list is a set of ids, answered from the least on. Under the report page
a run removes the rows and adds others, and the route may go from one report to another, which keeps the page's count
(`ShowAnother`, history `carried`).

`Services` (with `MCServices`, `ServicesProofs`) composes what the program asks of others. `Grading` — the lookup of a certificate
through its cache, what it writes to the card, the claimed name and the counterfeit flag, while the grader's registry
changes. `Valuations` — refresh of a price from two sources, by the daily task and on demand, the upsert and the snapshot,
staleness; a run of the task whose SELECT of due printings fails refreshes nothing and is tried again a period later (`missed`). `CardSearch` — pages of a search from the cache or the API, and the cache that fills meanwhile. `PosConnect`
over `PosAdapters` — the OAuth flow, its two ends (activation of the row by id, upsert of a row by merchant), webhooks and
disconnection; and what the adapters make of the answers of the three providers (sales and products as sets: nothing looks at
their order). A fetch is one request for Shopify, two for Square (its locations) and Clover (the merchant's id), each lost, failed or answered:
Square's first is not looked at for failure and then means no sales, Clover's is, and its merchant id is kept. The provider's side (`granted`, `spent`, `revoked`,
`hooks`) is external.

The correspondence of every definition to its lines is in `PROJECT.json` ("map"). A definition whose
name has an underscore suffix, such as `RotatedOut_Kept`, is no part of the
model: it is a plausible mistake in the definition that follows it, and "mutants" names the
property that notices it.

## Runs

| Run | Instance | What it shows |
| --- | --- | --- |
| `PosLedger_runs` | 2 overlapping runs over 2 sales (two lines and one) beside one stop or the creation of one mapping, or 1 run at a time with its diff phase among 3 mapping requests of any kind, 2 at a time, and a stop | overlapping, failing and retried runs implement `SalePosting`; each line is posted once; no sale is forgotten; no resolved line is rewritten |
| `PosLedger_exact` | 2 runs, 2 sales, 3 requests between runs, one stop, fairness | no line is counted twice, quiet quantities are exact, each sale is recorded in the end |
| `PosLedger_retry` | 1 run, one stop | *violated*: `RetryCompletesSales`, the comment at `reconcile.rs:132` |
| `PosLedger_backfill` | 1 run, 1 request | *violated*: `BackfillCountsUnresolvedOnly`, the comment at `mapping.rs:156` |
| `ReconcileReport_single` | the hourly run, 2 SKUs, quantities -1 to 1, a kill or uncaught error, a change of stock, a user who resolves at any time | a completed report tells the truth, counts its rows and names a SKU once |
| `ReconcileReport_live` | 2 runs, 1 SKU, pull and push, 2 failures, one kill or uncaught error, 2 ends of the day, disconnections or connections, fairness | an idle report is settled unless a run was killed or ended on an error it does not catch; it is settled in the end, unless such a run left it and no other begins any more |
| `TeamMembership_team` | 3 accounts, 2 invitations, 2 requests in progress that overlap in every way, up to the first race of two decisions or two answers | an owner remains until two decisions race, an invitation that no two answers race for grants once |
| `TeamMembership_lastowner` | the same, not ended at a race | *violated*: `OwnerRemains`, the header of `invites.rs` |
| `AuthTokens_sessions` | 3 tokens, 1 reset, 2 passwords, 2 requests in progress that overlap in every way | one usable token in a session, reuse ends it, no session outlives its password, each but for the sessions in which a request was overtaken |
| `FraudDesk_desk` | three streams: 5 requests on 1 certificate with 2 reporters, 2 flags and 2 members; 2 scans of 3 purchases in 4 seconds; 1 flag announced to 2 members | triage is recorded and happens once, disputes are grounded, verdicts stand, one open flag, velocity is exact where it can be, members are told, a scalper flag is justified |
| `Catalogue_stock` | seven streams: edits, deletions with edits of the row that is being deleted, imports of 2 files (three records and two), exports, a walk over 3 rows in every order, the inventory page with 2 requests and 2 bulk requests on their way, the report page with 2 discrepancies | what the catalogue and the two pages promise, whatever overlaps |
| `Services_answers` | seven streams: 2 lookups of 2 certificates, 2 printings over 7 hours with the daily task, two runs of which may fail, and a request, searches of 3 cards, 3 connections of 2 workspaces for each provider, orders and products of every shape, among others on the page, with every outcome of the requests | answers are fresh, verdicts recorded, prices renewed and recorded, searches complete, connections usable, orders read back |

A *stream* is chosen in the initial state of an MC module and says which part of the composition is at work in a
behaviour. The parts of a composition share only the rows that the module's comment names (the flags; the items); a part
that writes rows of another is in the same stream, and the theorems about the compositions are for all parts at once.

**Bounds.** The hazards here need two actors on one row and one failure, seldom more: two
runs, two sales of which one has two lines (so that a run can stop between them), two requests.
Three refresh tokens allow a rotation chain of two, a rotation beside a login or two rotations of one token; three accounts allow
two owners and a staff member; two invitations allow one to be accepted and the other
cancelled. `MaxStops`, `MaxRequests`, `MaxStarts`, `MaxFailures`, `MaxChanges`, `MaxSwitches` and `MaxMissed` bound how
often something unusual happens; `Tokens`, `Resets` and `Invites` bound how many rows can be
made. Discrepancies and sales are finite sets because a day's report and a watermark window are.
Two flags are
what two triages or two scans compete for; three rows make a page, a next and a last one with pages of one; a quantity may be 2,
so that an addition can overflow; a second and a minute of the code are units of the clocks, whose windows and lifetimes are 1 to 3
units, so that every boundary is crossed. `MaxStarted` bounds the requests of each stream, `MaxTime`, `LastTime`,
`LastMinute`, `LastHour`, `LastDay` the clocks, `Items`, `Flags`, `Conns`, `Jobs` how many rows can be made. `SmallEdit` keeps the edits of
`Catalogue_stock` to two rows, of which one is edited, and one field at a time; which row and which field they are makes no
difference to the versions. In `Services_answers` printings appear before the second run of the daily task. `UpToARace` follows a behaviour of
`TeamMembership_team` up to its first race of two decisions or of two answers to one invitation, beyond which its properties say nothing of the owners or of that invitation; the theorems have no such bound. In `Valuations` a refresh, a whole batch
included, ends in the hour in which it began: the clock moves (`HourPasses`) between refreshes. `PosLedger_runs` has the state
constraint `Within`, which leaves out overlapping runs among several requests; it checks safety only,
so that what it keeps is checked in full.
Every action of every module happens in some passing run.
What can really be unbounded (runs, requests, sales, tokens, accounts, flags, rows) is unbounded in the theorems.
Symmetry is used only in runs that check no liveness, on sets the properties do not tell apart.

**Concurrency, and where the code breaks its promises.** Requests and runs overlap in every way the code allows. Where a check and
its write are two statements the code has no lock or version check, and a promise may fail if another request writes in
between. The models record that very interleaving in a history variable, and the property says what holds of everything it did not
happen to: it exempts the sessions, invitations, edits or jobs that were raced for, and only these, instead of assuming that nobody
races.

| History | What has happened | What then fails |
| --- | --- | --- |
| `unseen` (`PosLedger`) | a sale was made between a fetch and its watermark, or Square did not answer for its locations | it is never ingested |
| `late`, `cut` (`ReconcileReport`) | a row was resolved between a run's COUNT and its final UPDATE; a resolve request ended before it recounted | `unresolved_count` is wrong until the next recount |
| `interrupted` (`ReconcileReport`) | a run was killed, or ended on an error outside its match | the report stays "syncing", for good if no run of that day follows |
| `raced` (`TeamMembership`) | a decision was written although another had taken an owner away since its count | there may be no owner (`TeamMembership_lastowner`) |
| `crossed` (`TeamMembership`) | an invitation was accepted or cancelled between an acceptance's check and its transaction | a second membership, or one by a cancelled invitation |
| `forked` (`AuthTokens`) | a refresh went on with what it had read before another refresh of the session wrote | two usable tokens, or one after a reuse was detected |
| `stale` (`AuthTokens`) | a reset came between the check of a login or refresh and its INSERT | a session of the old password |
| `crossed` (`FraudDesk`) | a report was rejected between a dispute's check and its UPDATE | the rejection is overwritten |
| `doubled` (`FraudDesk`) | an instance was selected by two scans, or from both lists, before its flag was there | two open flags |
| `overtaken` (`Inventory`) | a row was written to between an edit's version check and its UPDATE | the first of two edits is lost |
| `contested` (`CsvJobs`) | a job was confirmed while a run of it had yet to begin | it runs twice and adds its quantities twice |
| `carried` (`ReportPage`) | the route went to another report while answers were counted or awaited | the banner of that report counts them too |

Two promises are stated under a restriction, because what breaks them is no single interleaving:

* `MappingAlone` and `Ops` without "update" (`RequestsAlone`), for `NoLineChargedTwice` and `QuietLedgerExact`. With a mapping request beside a run
  the backfill counts lines twice (`PosLedger_backfill`). And an update takes
  the quantities of the resolved lines of a mapping from the old printing but leaves the lines there, so that they are added to none, and a
  second update takes them from a printing that never had them.
* `SingleRun`, for `NoDoubleCount`, `ReportCoversMismatches` and `CompletedCountsExact`: two runs of one report
  each clear it and then both fill it, whatever the comment at `reconcile.rs:333` says of re-runs.

The code enforces neither: they say how far its promises reach.

**Fairness.** The interval timer starts the hourly task again and again and the runtime polls what was spawned, so weak fairness of
starting the scheduler's run and of the steps of a run that has begun is justified (`FairSpec`, in both modules). In `ReconcileReport` runs begin
only while the report is of today and the connection active, so that nothing makes a later run touch a report after midnight:
`ReportSettles` promises one only for as long as that lasts. A step that fails in the provider or the database is an
alternative of the same step and ends the run, it does not block it; the bounds on
failures and stops keep them from recurring for ever. A mapping request that has begun is polled too. No fairness is
assumed of the beginning of a sync-now run or of users. `PricesRenewed` states a bound
in place of liveness: the clock of `Valuations` does not pass a tick of its task.

## Proofs

All theorems hold for every value of the constants that satisfies the named assumptions of the
modules (`ConstantsAssumption`, `ReportAssumption`, `TeamAssumption`, `AuthAssumption`, `FlagAssumption`, `RegistryAssumption`,
`ScalperAssumption`, `InventoryAssumption`, `CsvAssumption`, `PagesAssumption`, `StockPageAssumption`, `ReportPageAssumption`,
`GradingAssumption`, `ValuationsAssumption`, `RowAssumption`, `CardSearchAssumption`, `AdapterAssumption`, `ConnectAssumption`,
`SalesAssumption`): NULL and the other absent values are no row and no id, what a table holds at a time is finite, the scheduler is a
run, each line has its sale and SKU, limits and page sizes are positive, a quantity in an order is a number if it is
there. TLC evaluates the assumptions too. Every safety property that a passing run checks is proved; the invariants below were first
checked by TLC on the same runs.

`PosLedgerProofs`, any number of runs, requests, sales and SKUs, no restriction on concurrency:

* `TypeCorrect`, with `InProgressTyped` (what a run holds at each statement).
* `PostedOnce` proves `LinesPostedOnce`. The property is not inductive: that two runs cannot
  post the same line follows from each owning its sale. The invariant adds `OneTxnPerSale` (from the
  UNIQUE key) and `RunsOwnTheirSale`: a run past its INSERT has its own transaction row, and the
  lines it still has to do have no row of its.
* `WatermarkSound` proves `NoSaleMissed`, from `BatchesCoverSales`: what was made before a fetch
  is recorded, in hand or still in the batch.
* `IngestionPosts` proves `ImplementsSalePosting` by step simulation: the INSERT of a transaction is `Open`, that of a line `Post`,
  letting go of a sale with lines to post `Abandon`, and every other step a stutter. `InHandInv` adds that a line of
  the sale in hand is posted, held or still in the list, which makes the last `Post` the one that completes the sale, and that
  a run holds no sale outside of these steps, so that nobody comes back to one.
* `MappingsReferenced` and `LinesFrozen`: the foreign key, and the IS NULL of the backfill, do
  what the code relies on them for.
* `NothingChargedTwice` and `QuietExact` under `RequestsAlone`, from `CountInv`: runs and requests take turns, the mapping
  of a SKU stays while one of its lines is resolved, and so each resolved line is either counted or in the hands of the one
  run or request that resolved it and counts it next.

`ReconcileReportProofs`: `TypeCorrect`, which includes that the id of a new row exists (rows are
finitely many), and `ReportSettled`, from `SettledInvariant`: whoever made the report pending
or syncing, or wrote its status since, is still at work or was interrupted. For a single run (`SingleRun`): `RerunsDoNotDoubleCount`, from `RowsInvariant`
(the rows of the last run are gone when this one compares, and no SKU that it has yet to insert is in a row); `ReportsCoverMismatches` for a
connection that pulls, from `CoverInvariant` (a SKU whose quantities have not changed since is a row, or about to be inserted, if and only if the two sides disagree on it);
and `CountsAreExact`, with users who resolve at any time, from `CountInvariant` (what the run has counted so
far is the number of rows, and what it is about to write is the number of pending ones unless a row was resolved since).

`TeamMembershipProofs`, with no restriction: `TypeCorrect`; `OwnerStays` from
`DecisionInvariant`: a decision that is committed to demote an owner, and that was not overtaken,
has seen another one who is still there; `InviteGrants` from `GrantInvariant`: an acceptance that was not overtaken
holds an open invitation; `RolesKept`.

`AuthTokensProofs`, with no restriction: `TypeCorrect`, including that what a request has read still
exists when it writes and that the family of a token is its session; `OneStanding` and `ReuseEnds` from `RotationInvariant`:
in a session that is not forked a refresh that was not overtaken holds the only token that stands, or has revoked it and is then the only such
refresh, and the session was not reused; `SessionsCurrent` from `CredentialInvariant`: a request that no reset has overtaken
issues for the password that is valid, and before there is an account no token exists. The proofs go action by action; most actions are *quiet* (they issue nothing and
revive nothing), and one frame lemma covers those.

`FraudDeskProofs`, over the whole composition, with every action of the three modules in each invariant:

* `DeskTyped`: each request holds what its next statement needs. It uses that a disputed report exists (`DisputesReal`).
* `TriageIsRecorded` from `TriageInv`: a request that owes an audit entry is the one that triaged the flag (`AuditsDue`), and each id of
  a request is still to be done or audited (`IdsDone`), which is what makes success in bulk mean success for each.
* `FlagsAreAnnounced` from `AnnounceInv`, which says for each member separately who is still to tell him.
* `DisputesAreGrounded` and `RejectionsStand` from `DisputeInv`: a dispute past its INSERT has its record, and
  finds no rejection that was not made after its check (`crossed`).
* `ScansFlagOnce` from `OpenInv`: what a scan has selected has no open flag until it inserts and is in no other selection, unless it was
  selected a second time before that (`doubled`).
* `VelocityIsExact` and `FlagsAreJustified` from `ScoreInv`: as long as scans are prompt, the sorted set has every second that was counted
  and has not left the window of the last of them, and its key outlives them (`SetExact`); a scan knows the buyer from its second statement on and what it
  has found has a reason (`ScanSound`); and a flag stays as it was raised.

`InventoryProofs`, over all of `Catalogue`, with no restriction: `StockSound`; `EditsReplaceWhatWasSeen` (a version is never used twice for one row,
a client that holds the version of a row holds its content, and an edit that was not overtaken still finds it). `ImportsAreExact` from `ImportInv`: a job that was
not contested has one run (`RunsApart`), whose counts are those of the records behind it (`RunOK`, `JobOK`). `ExportsAreComplete` from `ExportInv`: what
an export still has to find is in its first answer or is a graded row that still matches, for rows come and go
between the two SELECTs but never change their kind; and what it has found matched once.

`WebPageProofs`: `BannerNeverAhead`, by counting: until the count goes over to another report, each answer that the page has counted is a
discrepancy of its own that the server has resolved, which is what `busy` is for (`OwnCount`); `SelectionStaysShown`. `PagesAreComplete` from `PagesInv`: the cursor parts the rows that were shown from
those that were not (`NoneShownBelow`, `NoneMissedAbove`). That takes the lemmas about a page: it is the first `PageSize` rows of a total order
(`DateOrder`, `PageFirst`, `PageFull`), so that everything it leaves out comes after it, and the last page leaves nothing out (`LastPage`).
For the flags the cursor is cut to milliseconds, which loses no row while no two are of one (`Spread`). `ListsAreFaithful` from `ListInv`: unless a page was on its way
when the list began, one page at a time is asked for, from the cursor on (`OneAsked`); what comes continues the list (`NextPage`); the
cursor parts what is shown from what is not (`ShownToCursor`); and what a deletion takes from the page the server no longer has (`DeletesServed`). Its
lemmas say that `InOrder` lists a finite set of numbers in order (`RankIs`, `OrderIs`) and what `Without` and a concatenation leave (`WithoutIs`, `ConcatIs`).

`ServicesProofs`, over all of `Services`, with no restriction on concurrency:

* `ConnectionsSound` (`ConnInv`), `ActiveConnectionsUsable`, `CancelledFlowsConnectNothing`. A token belongs to the flow that exchanged it, for
  the provider takes a code once; so two requests never carry one token, and what a request writes to a row is its own.
* `SalesAreReadBack`: line by line, each adapter reads a whole number as itself (`LineIs`), and the orders up to the page's limit are on the page, the others
  not (`OnThePage`).
* `HistoryRecordsPrices` from `HistoryInv`: a price is in the history, or a refresh between its two statements holds that very price to write it there
  (`Behind`), and only what TCGplayer has no price of is asked for elsewhere (`SourceInv`). `PricesAreRenewed` from `RenewInv`: the task's next tick is never
  more than its period away, and until then each price is within its bound (`Due`, `Timely`), which each failed run puts off by a period
  (`PatienceIs`).
* `AnswersAreFresh` and `VerdictsAreRecorded` from `GradingInv`: a cached answer is what the registry said since its time (`FreshInv`), and the status of a card
  was answered, or is as before the lookups, or one in progress answers for it (`Settled`).
* `SearchesAreComplete` from `SearchInv`: a walk has seen all of the pages that it is past, and holds the next one while it caches it (`Followed`).

Model-checked only: liveness under fairness (`EventuallyRecorded`, `ReportSettles`), which the prover does not treat.
Sums and filters of sequences by recursion or folds are opaque to it as well; where a theorem is about
one (`SoldIn`, `WithSku`), the two sides are shown to be taken of equal sequences, and the models use sets, cardinalities and functions elsewhere.
That `Half` of `ScalperRules`, a power of two, is positive is part of `ScalperAssumption` for that reason: the prover has no powers, and TLC evaluates it.

## Known departures of the code from its comments, and other limits

The three violation runs each refute a sentence of the code; "findings" quotes them. Besides these
the properties exempt the effects listed under *Concurrency*. What the properties name as exceptions, and what was left out because it is the same in every behaviour:

* *POS*: sales made between the fetch and the watermark are skipped for good, and so are those behind a failed request for Square's
  locations, which reads as no sales (`unseen` in `NoSaleMissed`, `LocationsLost` in `ReadBack`); a killed run, or one that ends on an error of its own status updates or counts, leaves the report
  "syncing" until the next run of that day, and for good after it (`interrupted`, `standing`); lines that were
  resolved through a mapping stay at the old printing when the mapping is redirected; a line can be in no list of unmapped SKUs after its
  mapping is deleted while it is filled.
* *Fraud*: `rescan_workspace_stolen` and `check_and_flag_stolen` are called from nowhere, although the comments say that a confirmation
  triggers them; the scan inserts flags without `create_flag`, so nobody is told; a certificate on both lists gets two flags;
  the transactions that scans score are those that `ingest_sales` writes, without a buyer; Redis counts purchases of one second once, and Postgres counts back from now and not from the purchase; thresholds of more than a third of
  an i32 overflow when the severity multiplies them.
* *Catalogue*: nothing writes `transaction_lines.item_id` (the one INSERT, `reconcile.rs:287`, has no such column), so that the look for sales before a deletion
  never finds one, and no property is about it; adding a card whose row is softly deleted adds to the row nobody sees; `patch_item` compares versions and updates without
  them; cursors go by creation time whatever the list is sorted by, so a walk in another order misses rows
  (`PagesComplete` is stated for the order of the cursor), and the cursor of the flags loses microseconds (`crowded`); a job that fails stays
  "running" for good; an export includes softly deleted rows; a certificate inserted between the look and the INSERT counts as imported
  (`preempted`).
* *Connections*: if the provider names the merchant, the row that began the flow stays pending, and the first sync is enqueued for it; a second callback can
  undo a disconnection or put an active row in error; tokens expire without a refresh; one page of orders is read.
* *Lookups*: the daily task skips prices younger than 25 hours and runs every 24, so that a price is stale for most of every second day
  without an outage (`PricesRenewed` states the bound that holds), and a run whose SELECT fails is not tried again before the next day (`missed`); each lookup that finds nothing raises another counterfeit flag; the error of the UPDATE to
  "mismatch" is swallowed (`cut`); search by name never matches what the cache would compare it with, so only typed queries use the cache.
* *Web*: a late page of an earlier filter is appended to the list of the present one (`mixed` in `ListFaithful`); a first page that fails shows an empty list
  (`unread`); the report page keeps `extra_resolved` when its route goes to another report, whose banner then starts ahead (`carried`).

The migrations disagree with the code in places (`transaction_lines.item_id`, `deleted_at` and columns of `pos_connections` are in none of them). The models take
such a column as the code uses it.

## What is abstracted

Sales, SKUs, accounts, passwords, tokens, certificates and cards are model values; hashing, encryption, formatting, email
texts, cookies and signed access tokens are left out, as are handlers that only read. `main.rs` wires
`NullPosProvider`; the models take any provider that answers or fails. Authorization is modelled where it
is state (who is an owner), not where it is a lookup that gates a request once. Time is an action that makes
a row expire, or a clock where code compares times. A request that is turned away by its first statement changes nothing and is no step.

## Not modelled

* Reads of one statement: the card detail, totals of the workspace, history of a price, `resolve_upc`, scan and `get_card`, the direct download
  of the inventory, lists of members and notifications.
* Verification of webhook signatures, PKCE-like secrets, password hashing, JWT: pure functions of libraries.
* Floating point: prices of Shopify (`f64 * 100`), amounts of valuations beyond their order.
* `middleware/rate_limit.rs` (`check_and_increment` is called from nowhere), the other extractors, errors, wiring, and the shared domain types:
  no state or no caller.
* Of the web application: session pages, scanner, import wizard and risk dashboard. The wizard's status type requires fields
  that the server does not send, so that its polling fails before it has behaviour; the dashboard repeats the pattern of
  `StockPage` over the flags.
* The emails that go out with notifications, whose failure is logged.

## Plan

Done: all components that keep state, in the three compositions and the four modules of the POS and accounts. What would add most next:

1. The promises of `CardSearch` and `StockPage` as abstract specifications of their own (a list that is read from its beginning), with the
   two modules shown to implement them, as `PosLedger` implements `SalePosting`.
2. The risk dashboard beside `StockPage`, and the import wizard once its types agree with the server's.
