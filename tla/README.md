# DileeErp: TLA+ models of the business core

DileeErp is an ERP for a make-to-order factory: sales orders become production
orders, raw material is bought, inspected and issued, finished goods are
inspected, stored, shipped and returned, and every shipment or purchase becomes
a receivable or a payable. The API (`apps/api`, NestJS on Prisma and PostgreSQL)
is nearly stateless: apart from the runs of its business-query agent all state is
in PostgreSQL, HTTP requests run concurrently, and what keeps the data right is
the order of statements, transactions and row locks in each handler. That is
what this project models.

1. Inventory of the system
2. How the code is modelled
3. Modules
4. Runs
5. Fairness
6. Proofs
7. Where the code and its documents disagree
8. What is only model-checked, and what is not modelled
9. What could come next

Paths below are relative to `src/apps/api/src` unless they start with `src/`.

## 1. Inventory of the system

### How handlers share state

* A request reads what it needs, checks it, opens `prisma.$transaction` (READ
  COMMITTED, the PostgreSQL default), takes `SELECT ... FOR UPDATE` on the rows it
  thinks matter, reads again, and writes. Nothing is visible to others before
  COMMIT; row locks last until COMMIT or ROLLBACK.
* Some updates repeat their condition instead (`updateMany({ where: { status: in
  [...] } })`, "0 rows" is an error). Some are a single statement.
* Raw-material movements run SERIALIZABLE and take advisory locks in sorted
  order.
* Stock is a ledger: `inventory_facts` holds signed quantities, a balance is
  their sum. No database constraint keeps a balance non-negative and no unique
  index keeps a document from being booked twice.
* Some follow-up writes happen after the transaction (audit rows, cash-flow
  entries, accrual vouchers): a failure between the two leaves the first without
  the second.

### Components

| Component | State it keeps | Operations | Talks to | Hard behaviour | What makes it correct |
|---|---|---|---|---|---|
| Finished-goods inbounds, defectives (`modules/warehouse/finished-goods-inventory.service.ts`) | documents draft / posted / reversed, inventory facts | create, post, reverse | QC record (quantity), inbound notice (status), balance | many drafts per QC record; reversal checks a balance nobody locks | no more than QC accepted; ledger = documents; no negative stock |
| Finished-goods outbounds (`modules/warehouse/finished-goods-outbound.service.ts`) | documents draft / posted / shipped / signed / cancelled / reversed, facts | manual and notified draft, cancel, post, ship, sign, reverse | notice, balance, receivable | post vs cancel, ship vs reverse, notice recomputed from unlocked sums | final documents stay final; no overselling; notice columns right |
| Customer returns (same file) | documents draft / posted / reversed, facts | create, post, reverse | balance | reversal checks an unlocked balance | ledger = documents; no negative stock |
| Outbound notices (`modules/sales/finished-goods-outbound-notice.service.ts`) | notices with shipped quantity and status | create, cancel | balance, outbounds | reservation against drafts and other notices; cancel vs new draft | reservation respected; no dangling draft; cancelled stays cancelled |
| Inventory balance (`platform/inventory/inventory.service.ts`) | none (sums facts) | balances per material or production order | all stock documents | consistency of what the sum sees | ledger = documents |
| Inbound-notice status (`modules/production/finished-goods-inbound-notice-status.ts`) | status of the notice | recompute inside the caller's transaction | submissions, inbounds | relies on the caller's locks | completed iff nothing is open |
| Receivables (`modules/finance/receivable.service.ts`) | sources draft / confirmed / partially paid / paid / cancelled | create from outbound, edit, confirm, batch confirm, reopen, cancel | outbound reversal, vouchers, payments | confirm vs reversal; voucher after commit | receivable follows outbound; booked iff confirmed |
| Accrual vouchers (`modules/finance/voucher.service.ts`) | vouchers with entries | accrue, settle, regenerate | receivables, payables, cash flow | one per source although several paths create it | unique per source; taken back with its source |
| Customer payments, adjustments, reconciliation (`modules/finance/customer-payment.service.ts`, `receivable-adjustment.service.ts`, `reconciliation.service.ts`) | payments, allocations, adjustments, statements | draft, post, reverse, adjust, reconcile | receivables, cash flow | allocation vs adjustment vs cancel; locks in caller order; cash-flow entry after commit | never over-allocated; status follows balance |
| Supplier payables and payments (`modules/finance/supplier-*.service.ts`) | payables, payments, statements | as above, for purchases and payroll | raw-material inbounds, outsourcing, payroll | the same, other lock order | the same |
| Banks, cash flow, transfers, rates, opening balances | entries, accounts | record, transfer, correct | payments | double booking on retry | entry per payment |
| Overhead, subjects, slips, reports, statements | mostly derived | compute, lay out | everything financial | arithmetic only | sums agree |
| Finished-goods QC and inbound notices (`modules/production/finished-goods-qc.service.ts`, `finished-goods-inbound-notices.service.ts`) | notices, submissions, QC records | notify, submit, inspect, correct, cancel | production orders, receipts | correction against receipts that use the record; status read before the lock | submitted and accepted quantities bounded by their source |
| Production orders, daily reports, alerts | orders, operations, reports, alerts | plan, report, correct, close | sales orders, payroll | corrections racing derived alerts | totals bounded, alerts follow reports |
| Raw materials (`modules/procurement`, `modules/production/raw-material-movements.service.ts`, `modules/warehouse/stocktake.service.ts`) | purchase orders, receipts, inspections, inbounds, movements, stocktakes | order, receive, inspect, post, issue, return, count | payables, balance | SERIALIZABLE conflicts, advisory locks, header-only locks | no negative stock, one payable per inbound |
| Outsourcing (`modules/production/outsource-logistics.service.ts`) | batches, returns, direct shipments | dispatch, return, ship | production orders, payables | quantity split over several returns | dispatched = returned + outstanding |
| Sales orders, BOMs, customers (`modules/sales`) | orders, BOM versions | create, edit, rename, delete, import | every document that names the order | rename and delete against new documents; optimistic versions | no orphaned document |
| Payroll and attendance (`modules/hr`) | ledgers, payables, payments | compute, confirm, pay | payables, vouchers | same as payables | paid at most once |
| Business-query agent (`modules/business-query-agent`) | conversations, runs, event streams | ask, stream, cancel, recover | model provider, read-only queries | cancel vs completion, restart, event order, limits per process | every run ends, once; events in order |
| Alerts, workbench, reorder, reports | derived views | query, acknowledge | documents | stale views | no state to protect |
| Platform (auth, audit, forms, attachments, dictionaries, state machine) | sessions, audit rows, files, transition tables | login, check, record | all | mostly I/O | transitions allowed by the table |
| Business-query page (`src/apps/web`) | messages of a run, last event seen | ask, follow, reload, cancel | agent | lost connections, reload, late answers | shows each piece once, settles as the run did |
| Rest of the web client (`src/apps/web`) | none shared | pages | API | - | - |
| Coding worker (`src/apps/coding-worker`) | job files | run an agent task | external tools | processes and files | - |

`PROJECT.json` lists the same components with their status, and every hazard
with the line where it bites.

### Where the difficulty sits

Five places carry most of what can go wrong, and each is a model of its own:

* **the finished-goods warehouse**, where services of three departments change the
  same documents, balance, notice columns and receivable, each with its own choice
  of locks: a mistake ships goods that do not exist or loses a receivable;
* **settlement**, where payments are split over debts that finance edits at the same
  time, and vouchers and cash entries follow in transactions of their own;
* **raw materials**, where row locks on the inbound side meet serializable
  transactions on the movement side, over the same stock;
* **production**, where quantities flow from daily reports over notices,
  submissions and QC records into the stock, and may be corrected at each stage;
* **the business-query agent**, the one part with state in memory: runs that live
  in a process, an event log, cancellation, crashes, and a browser that follows.

## 2. How the code is modelled

Two conventions hold throughout. A request that decides on something it has read
and writes later is a record that lives between the two steps (`req[s]`,
`job[s]`, `tx[p]`, `orch[r]`), and other requests act in between; a request whose
decision is protected by a lock from the first read to COMMIT, or that is one SQL
statement, is one action. And every request may end between any two steps without
a trace (a refusal, a lost connection, a transaction timeout, a dead process).

### The finished-goods warehouse

**State.** `WarehouseDb` declares the rows of one production order (every balance,
reservation and lock of these handlers is scoped by `production_order_id`):
`doc` (inbounds, defectives, outbounds, returns: status, quantity, stock
category, notice), `notice` (outbound notices: status, quantity,
`shipped_quantity`), `receivable` (status of the receivable of each outbound),
`accrued` (receivables with an accrual voucher), `facts` (the source types of the
inventory facts of each document), `stock` (the sum of the facts per category,
which is all `finishedGoodsBalance` ever reads), `inNotice` (status of the inbound
notice), `lock` (row locks) and `req` (what each session is doing).

**Requests.** A request is a record in `req[s]`: the operation, the rows it names,
the row locks it will take (`plan`, in the handler's order), how many it holds,
and what it has read so far. A handler becomes

* `Begin...`: the unlocked reads and early returns in front of the transaction;
* `TakeLock`: one `SELECT ... FOR UPDATE` per step, waiting while another session
  holds the row;
* `Check...`: the reads and conditions inside the transaction. What it computes
  from other rows (the new notice columns) is kept in `req[s].sync`;
* `Save...`: every write, with COMMIT.

Where all that a handler checks is protected by the locks it holds, check and
save are one action (`Commit...`). Under READ COMMITTED a transaction's writes are
invisible until COMMIT, so writing them all in one step is what other sessions
see. A write to a row another session has locked waits (`RowFree`). An INSERT that
names the production order also waits for a session that holds that row FOR
UPDATE, because its foreign-key check takes FOR KEY SHARE (`InsertFree`).
`reverseOutbound` takes its last locks by UPDATE after its check; that is a step
of its own (`UpdateReverseOutbound`).

`Refuse` is a thrown exception, `Abort` a lost connection, a transaction timeout
or a dead process between any two steps: the locks go and nothing is written.
`Endpoints` says which requests an instance allows.

**What is abstracted.** Quantities are small integers (the code compares and sums
decimals; nothing here depends on the scale). Money, prices, dates, remarks,
audit rows, risk reasons for exceeding the plan and idempotency keys are left
out: no handler modelled here decides about state from them, except for
refusals that the model covers by not sending the request. The idempotent replay
of a request returns an existing row and changes nothing. Defectives share the
code of inbounds without the notice. All QC records belong to one inbound notice
whose whole quantity was submitted, so its status depends on open drafts only.
The read of that status and of the drafts are one step of the model although they
are two statements: the claim about it is made only where the lock of one QC
record orders its writers. A session serves one request at a time; a fresh id is
never shared by two requests, as UUIDs are not.

### Settlement

`Settlement` models receivables with customer payments and payables with supplier
payments at once. The tables and handlers of the two are nearly the same, no row
is shared, and `side` says which of them a behaviour shows; where the code
differs (cancel against reverse, the lock of the status refresh, `removeOther`) the
actions differ.

* `debt`, `amount`, `pay`, `funds`, `alloc` are the tables; `holder` the row lock of
  each debt; `tx[p]` the open transaction of payment `p`, with the debts it still has
  to lock (`todo`), those it has (`done`), and the statuses it has written but not
  committed (`fresh`).
* A posting (`BeginPost`, `LockLine`, `CommitPost`) locks the debts in the order of the
  caller's lines and checks each against what is paid on it; a reversal of a
  receivable payment (`LockReceivable`, `CommitReverseReceivable`) locks them
  in the order of their ids; a reversal of a supplier payment (`RefreshRead`,
  `RefreshWrite`) reads first and takes the row lock by its UPDATE.
* `EditDebt`, `ConfirmDebts` (one or several), `ReopenDebt`, `CancelReceivable`,
  `ReversePayable` and `RemoveOther` lock the debt before they read it and are one step each.
* Two writers read first and write by id. A statement (`ReadDrafts`, `ConfirmStatement`)
  confirms what it has read as a draft (`confirmReceivables`, `confirmPayables`); the
  reversal of an outbound or of a raw-material inbound (`ReadForReversal`, `Retract`)
  cancels or voids the debt it has read as an unpaid draft. Either may also end without
  writing. `Exposed` are the debts an instance lets them reach, and there is one
  statement at a time. `late` and `retract[d] = "done"` remember what they overtook.
* What follows a commit in transactions of its own is modelled for the debts in
  `Booked`: the accrual voucher (`accruing`, `accrued`), the voucher and the cash entry
  of a payment (`ReadAccruals`, `WriteCash`), their reversal (`ReverseCash`,
  `ReverseEntry`), and `Die`, a process that ends before it writes them.
* A circle of waiting transactions has a `Victim`, as PostgreSQL's deadlock detector
  picks one.

Amounts are counted as *pieces*, pairs of a line and a unit of its amount: what is
paid on a debt is the number of pieces on it. That makes the sum a cardinality,
which the prover can work with.

### Raw materials

`MaterialsDb` holds the inspection of each delivery (`batch`), its inbound `notice`, the
inbounds with their payable source and payable entry (`inb`), issues, returns, scraps
and reversals (`mov`), stocktakes (`count`) and the stock `fact` of each document, all
of one material. `desk` says which requests a behaviour follows: goods in (from the
first inspection on), finance (from an accepted batch to the payable of its inbound,
and its reversal), the stores (movements on top of an opening stock), the stocktake
beside issues on that stock, or `"all"` of them. `Desks` lists those an instance has:
all at once would not fit one that TLC can finish, so the run takes the four in turn;
the proofs are about any `Desks`.

* The inbound side (`Receiving`) runs READ COMMITTED. Requests read the inspection or
  the payable, wait for a row lock, and decide on what they have read or read again,
  as each handler does.
* The confirmation of a payable is two steps (`ConfirmBegin`, `ConfirmCommit`): `confirm` and
  `batchConfirm` lock the entry first (`"confirmEntry"`), a statement when it writes
  (`"confirmStatement"`), and none of them locks the payable source it has read, which
  the reversal of the inbound voids.
* The movement side (`Issuing`) runs SERIALIZABLE. A job has the set of things it has
  read (`Reads`: document rows, the documents derived from an issue, the balance) and
  will write (`Writes`). Two jobs conflict when each reads what the other writes;
  when one commits, the other is `doomed` and rolls back, as PostgreSQL's
  serialization failure makes it. The advisory locks per material only make conflicting jobs wait and are
  subsumed by that; they are taken in sorted order, so they cannot deadlock.
* `Stocktaking` runs READ COMMITTED again. A confirmation and a reversal lock the header of
  the stocktake, but not the material, so the difference a confirmation writes
  (`job[s].arg`) is that of the balance it has read. The edits of a draft test its
  status in a read of their own and then write by id. The book quantity of the upload
  is only shown and left out.
* `peak` (the most that QC ever accepted of a batch), `overtaken` (issues that were
  withdrawn on the strength of a status they had left by being posted) and `overdrawn`
  (batches with an inbound of a negative remainder) are history variables for the
  properties.

### Production

`ProductionDb` holds one in-house order with its packaging operation: daily reports
of both kinds (`rep`), the alerts of each date (`alert`), inbound notices (`notice`),
submissions (`sub`), QC records (`qc`) and the inbounds and defectives made from them
(`rcpt`). `desk` is the shop floor, the handover to quality control, the inspection
and its way into stock, or all three; as above, the run takes them in turn. `job[s]` holds what a request has read and the rows it has
locked.

* `ShopFloor`: reports by operation and by employee (create, update, remove), the
  recomputation of both alerts that each of them runs in its transaction, the
  confirmation of an alert, the status transitions of the order, and
  `cancelOperation`. An update works on the date the report had when it was read.
* `Quality`: notices (create, cancel), submissions (create, edit, submit, cancel), QC
  records (create, correct) and receipts; which rows each locks, and which it only
  reads, is what the actions differ in.
* An over-order alert compares figures that are not followed; `OverOrderAfter`
  allows either outcome of that comparison. Over-receipts, outsourcing sources,
  idempotency keys and batch entry of reports are left out.
* `untold`, `late` and `backed` are history variables: dates whose alert a report that
  had moved left behind, submissions edited on the strength of a status they had left,
  and what was reported when the last notice was written. Reports may be corrected
  downwards after goods were announced, which nothing in the code forbids; a notice is
  therefore compared with what it was written from.

### The business-query agent

* `RunLog`: `run` (the row of each run) and `log` (its numbered events). Every change goes
  through `transitionAndAppend`: one transaction, one conditional update, the events
  of the transition with it.
* `AgentRuns`: the POST that creates a run (lookup of the key, the gate's permit, the
  INSERT that may conflict with one under the same key), the orchestrator with its
  program counter (`plan`, `call`, `tool`, `authorize`, `answer`, `finish`, `failing`), its
  limits for tool steps, plans and failed tools, the cancel request (read, write,
  abort), `Crash`, and the restart that ends every active run before it listens
  (`Recover`, `Listen`). The model provider and the tools answer anything, fail or time
  out. A role may be revoked at any time.
* `AgentPages`: what the page holds (`page`), the creation request it waits for (`post`), its
  snapshot request (`snap`) and its cancel request (`stop`), the stream reader of the browser
  with the run it follows and the last event it has received (`feed`, `got`), and the stream
  itself (`conn`, `cursor`, `wire`). One question follows another, a page is reloaded (which
  forgets its requests) or changes its session (which does not), starts a new conversation,
  and its snapshot is read run row first, events later. `Elsewhere` are runs that clients
  other than the pages may ask for and cancel. The reducer does not ask whose event it is given: the
  answer to a cancel request carries no run at all. `stray` records that a page has applied
  an event of another run than the one it shows, since it was last reset.
* `RunPromise` is what the user is promised: a question is worked on, its answer grows
  piece by piece, and it ends once. `AgentPages!KeepsPromise` is the refinement, with
  `pieces` as the number of answer pieces in the log.

## 3. Modules

| Module | Models |
|---|---|
| `WarehouseDb` | rows, requests, locks, commit, refusal, abort of the warehouse |
| `Receipts` | `FinishedGoodsInventoryService`: create, post, reverse of inbounds and defectives, `syncFinishedGoodsInboundNoticeStatus` |
| `Shipments` | `FinishedGoodsOutboundNoticeService.createNotices`, `cancelNotice`; `FinishedGoodsOutboundService.createOutbound`, `createOutboundFromNotice`, `cancelOutbound`, `postOutbound`, `updateShipping`, `signOutbound`, `reverseOutbound`, `syncNoticeStatus` |
| `CustomerReturns` | `createReturn`, `postReturn`, `reverseReturn` |
| `Receivables` | `confirm` with `accrue`, `reopen`, `cancel`, as far as the outbound is concerned |
| `Warehouse` | the four composed: `Next`, `Spec`, `FairSpec`, properties |
| `StockLedger` | abstract: documents that change status in one step, each change moving stock and receivable with it |
| `WarehouseInvariants` | what requests rely on between two steps (`NoStaleDocument`, `DocInv`, `StockCovers`, `QcInv`, `NoticeInv`) |
| `Settlement` | receivables, payables, payments, allocations, follow-up vouchers and cash entries; properties |
| `DebtLedger` | abstract: an amount is agreed while nothing is paid, and never overpaid |
| `MaterialsInvariants` | what jobs rely on between two steps, and what makes the sums inductive |
| `MaterialsDb` | tables and jobs of the raw-material side |
| `Receiving` | inspections, inbound notices, raw-material inbounds, payable sources and entries |
| `Issuing` | issues, replenishments, returns, scraps, withdrawal, reopening, reversal |
| `Sums` | the sum of a function over a set of documents |
| `Stocktaking` | upload, edit, removal, confirmation and reversal of a stocktake |
| `Materials` | the three composed; properties |
| `ProductionDb` | tables and jobs of one production order |
| `ShopFloor` | daily reports, alerts, the order's transitions |
| `Quality` | notices, submissions, QC records, receipts |
| `Production` | the two composed; properties |
| `RunLog`, `AgentRuns`, `AgentPages` | the agent's tables, its service side, its reader side; properties in `AgentPages` |
| `RunPromise` | abstract: an answer grows and ends once |
| `MCWarehouse`, `MCSettlement`, `MCMaterials`, `MCProduction`, `MCAgent` | values and symmetries for the runs |
| `Sums_proofs` | the laws of `SumOf` |
| `Warehouse_proofs`, `WarehouseDocs_proofs`, `WarehouseStock_proofs`, `Settlement_proofs`, `Materials_proofs`, `Production_proofs`, `AgentRuns_proofs` | theorems and proofs |

`StockLedger` knows no requests, locks, notices or vouchers. `Warehouse!ImplementsLedger`
says that the handlers, interleaved and aborted anywhere, look like it; the
refinement mapping is the identity on `doc`, `stock`, `facts` and `receivable`.
`Settlement!ImplementsDebtLedger` maps `owed` to the amounts and `paid` to what posted
payments have allocated.

Definitions that no action uses (in `WarehouseDb`, `Receipts` and `Shipments` marked
*faulty*, elsewhere *mutant*: `NoLocks`, `OutboundFirst`, `LockLater`, `CommitUnlocked`,
`CommitReadCommitted`, `UnlockedQc`, `ReadForFailEarly`, ...) are not part of the
models. Each is a plausible mistake in the code - a lock not taken, a condition
not repeated, drafts forgotten - kept to show that the property listed with it
under "mutants" in `PROJECT.json` would find it.

## 4. Runs

Every run has two concurrent actors (two sessions, payments or runs; two runs and one
page in `agent_pages`). Two suffice for every pairwise race and for two-row deadlocks.
Documents and quantities are the smallest numbers at which the case of a run
exists: two outbounds for one notice to have a shipped part and a draft; amount 2
to pay a debt in halves; three QC records for a correction beside another record.
Ids are finite and never reused, so an instance stops when they are used up:
deadlock checking is therefore off, and waiting for ever is checked as liveness
instead. Symmetry is used for ids and sessions in runs without liveness only.

| Run | Question | Instance | Result |
|---|---|---|---|
| `shipping` | Among requests that take the production-order or the QC-record lock, and `cancelNotice`, which takes none: do competing receipts stay within QC (`ReceiptsWithinQc`), does the inbound notice follow its drafts (`InNoticeReflectsDrafts`), is nothing oversold (`NonNegativeStock`, `NoticeNotOvershipped`), do the notice's columns follow its outbounds (`NoticeReflectsOutbounds`), and does a cancelled notice leave no draft (`NoDanglingDraft`)? | 2 inbounds, 1 defective, 2 outbounds, 1 notice, 1 QC record (3 accepted, 1 rejected), quantities to 2; no `cancelOutbound`, no reversal of receipts or returns | holds |
| `races` | All requests at once, with aborts: `TypeOK`, `NoStaleDocument`, `LedgerMatchesDocuments`, `ReceivableFollowsOutbound`, `FinalStaysFinal`, `ImplementsLedger` | one inbound, outbound, return, notice and QC record | holds |
| `waiting` | Does every accepted request end (`EveryRequestEnds`)? | 1 inbound, 2 outbounds, 1 notice, fairness | holds |
| `settlement` | Is a debt never overpaid (`AllocationsFit`), never reopened, cancelled, reversed or removed while paid, but by the reversal of its source document (`PaidDebtStands`), is a receivable's status that of its payments (`StatusFollowsPayments`), do the tables implement `DebtLedger` (`ImplementsDebtLedger`)? and `TypeOK` | 2 debts (one entered by hand, the other `Exposed`), 2 payments of up to 2 lines, amounts to 2 | holds |
| `settlement_ends` | Does every payment transaction end (`EveryPaymentEnds`)? | as above, amounts 1, vouchers and cash entries followed for one debt, fairness | holds |
| `materials` | Do the facts follow the documents (`LedgerFollowsDocuments`), is nothing disposed of beyond its issue (`DisposedWithinIssue`), issued beyond what was ever received or found (`IssuedWithinReceived`), posted beyond what an inspection ever accepted (`PostedWithinInspection`), and is the payable of a reversed inbound confirmed by nobody who did not read it before (`ReversedIsOwedOnlyBelatedly`)? and `TypeOK` | 1 batch, 2 inbounds, 3 movements, 1 stocktake, quantities to 2, 1 rejected | holds |
| `production` | Does nothing grow on its way into stock (`EachStageWithinTheLast`), do inspections and corrections agree with what they inspect (`InspectionFollowsQc`), do goods rest on a standing record (`LiveGoodsHaveQc`), do alerts tell what the reports show (`AlertsFollowReports`), does a cancelled document stay so (`CancelledStaysCancelled`), is no order completed over a discrepancy nobody looked at (`CompletionIsLookedAt`)? | 2 dates, 2 reports, 2 notices, 2 submissions, 3 QC records, 2 receipts, quantities to 2, target 2 | holds |
| `agent_runs` | Does the log tell the end of its run once (`LogTellsTheEnd`), do permits match their holders (`PermitsMatchHolders`), has an active run a driver (`ActiveRunIsDriven`), does an ended run stay ended (`EndedStaysEnded`)? | 2 runs of one user, 1 crash | holds |
| `agent_ends` | Does every run end (`EveryRunEnds`), and does the service keep `RunPromise` (`KeepsPromise`)? | a question and its retry under one key, 2 tool steps, 1 crash, fairness | holds |
| `agent_pages` | Does a page show each piece once and in order (`PageShowsPrefix`) and settle as the run did (`PageEndsAsRun`)? and `TypeOK` | 1 page; one question with 2 pieces and any two of a crash, a lost connection, a reload or change of session and a revoked role; or two questions with one of a lost connection and a reload or change of session, one piece (`FewUpsets`) | holds |
| `double_revenue` | Is revenue booked once (`RevenueBookedOnce`)? | 1 receivable, 1 payment, amount 1 | violated (section 7) |
| `scrap_counts_twice` | Does a scrap leave the available balance alone (`ScrapKeepsBalance`)? | as `materials` | violated (section 7) |

Some of these are claims about part of the traffic, and say so: `shipping` leaves out
`cancelOutbound` and the reversals of receipts and returns, which do not take the
production-order lock, because with them most of its claims are false (section 7;
`ReceiptsWithinQc` holds for all requests, as its theorem says); `StatusFollowsPayments` is about receivables, since a
payable's refresh is unlocked; `IssuedWithinReceived` bounds issues, not the
balance, which unlocked reversals and stocktakes may still make negative; `LedgerFollowsDocuments`,
`PostedWithinInspection`, `AlertsFollowReports` and `InspectionFollowsQc` leave out what
`overtaken`, `overdrawn`, `untold` and `late` record, `PaidDebtStands` and
`StatusFollowsPayments` what a late reversal or statement has overtaken (`retract`, `late`),
`ReversedIsOwedOnlyBelatedly` the confirmations already under way, `PageShowsPrefix` and
`PageEndsAsRun` the pages another run's event has reached (`stray`): cases of section 7.
In `settlement_ends` no debt is `Exposed`: in the model neither a statement nor the reversal
of a source document holds a debt between two steps.

`agent_pages` is bounded by the constraint `FewUpsets` of `MCAgent`, which is about combinations:
all that can go wrong with one question, two at a time; and beside a second question one
loss or reload while the service deals with one run at a time, since the interleavings of
runs are the subject of `agent_runs`. The cases that are hard for the page (a late
cancel answer, an old stream that is still open, a snapshot read across the end of a run)
lie within it: TLC reaches a page whose second question the answer to the first one's
cancel request settles as cancelled, in 19 states.

## 5. Fairness

* `Warehouse!FairSpec`: strong fairness of `RequestStep(s)`, every step of a request that
  has begun. A process that serves a request goes on with it. When it waits for a
  row lock, PostgreSQL queues the waiters of a row and wakes them in order, so a
  request that finds the lock free again and again does get it; weak fairness
  would allow newcomers to overtake it for ever.
* `Settlement!FairSpec`: strong fairness of the transaction steps `TxStep(p)` for the same
  reason, and weak fairness of some `Victim`: PostgreSQL's deadlock detector ends one
  of a circle after `deadlock_timeout`.
* `AgentPages!FairSpec`: weak fairness of the orchestrator, of the restart and of the
  reader. The model provider and each tool answer or time out, a dead process is
  restarted by its container, a browser that shows a page reads on.

Nothing is assumed about new requests, cancellations, aborts or crashes. In
the agent model crashes are bounded by a constant, without which no run would
have to end.

## 6. Proofs

Proved for any finite sets of documents, debts, payments, runs and ids, any number
of sessions and any bounds, from the assumptions the modules declare: `FiniteIds`,
`DistinctIds`, `ReceiptQc` (`WarehouseDb`), `SettlementAssumption`,
`MaterialsAssumption`, `ProductionAssumption`, `FiniteRuns` (`RunLog`) and `Bounds` (`AgentRuns`).

| Theorem | Says |
|---|---|
| `Warehouse_proofs!TypeCorrect` | `Spec => []TypeOK` |
| `WarehouseDocs_proofs!DocumentsAreNotStale` | `Spec => []NoStaleDocument` |
| `WarehouseDocs_proofs!WarehouseImplementsLedger` | `Spec => ImplementsLedger` |
| `WarehouseStock_proofs!FinalDocuments` | `Spec => FinalStaysFinal` |
| `WarehouseStock_proofs!ReceivablesFollow` | `Spec => []ReceivableFollowsOutbound` |
| `WarehouseStock_proofs!LedgerIsRight` | `Spec => []LedgerMatchesDocuments` |
| `WarehouseStock_proofs!StockNeverNegative` | `Spec => []NonNegativeStock`, if neither `reverseReceipt` nor `reverseReturn` is served |
| `WarehouseStock_proofs!ReceiptsStayWithinQc` | `Spec => []ReceiptsWithinQc` |
| `WarehouseStock_proofs!NoticesFollowOutbounds` | `Spec => []NoticeReflectsOutbounds`, if `cancelOutbound` is not served |
| `WarehouseStock_proofs!NoticesAreNotOvershipped` | `Spec => []NoticeNotOvershipped`, if `cancelOutbound` is not served |
| `WarehouseStock_proofs!CancelledNoticesHaveNoDraft` | `Spec => []NoDanglingDraft`, if `cancelOutbound` is not served |
| `Settlement_proofs!SettlementTypes` | `Spec => []TypeOK` |
| `Settlement_proofs!NoOverpayment` | `Spec => []AllocationsFit` |
| `Settlement_proofs!PaidDebtsStand` | `Spec => []PaidDebtStands` |
| `Settlement_proofs!StatusIsCurrent` | `Spec => []StatusFollowsPayments` |
| `Settlement_proofs!TablesImplementLedger` | `Spec => ImplementsDebtLedger` |
| `Materials_proofs!MaterialsTypeOK` | `Spec => []TypeOK` |
| `Materials_proofs!MaterialsLedgerFollowsDocuments` | `Spec => []LedgerFollowsDocuments` |
| `Materials_proofs!MaterialsReversedIsOwedOnlyBelatedly` | `Spec => ReversedIsOwedOnlyBelatedly` |
| `Materials_proofs!MaterialsDisposedWithinIssue` | `Spec => []DisposedWithinIssue` |
| `Materials_proofs!MaterialsIssuedWithinReceived` | `Spec => []IssuedWithinReceived` |
| `Materials_proofs!MaterialsPostedWithinInspection` | `Spec => []PostedWithinInspection` |
| `Production_proofs!ProductionTypes` | `Spec => []TypeOK` |
| `Production_proofs!CancellationIsFinal` | `Spec => CancelledStaysCancelled` |
| `Production_proofs!GoodsRestOnQc` | `Spec => []LiveGoodsHaveQc` |
| `Production_proofs!NothingGrows` | `Spec => []EachStageWithinTheLast` |
| `Production_proofs!InspectionsAddUp` | `Spec => []InspectionFollowsQc` |
| `Production_proofs!AlertsTell` | `Spec => []AlertsFollowReports` |
| `Production_proofs!CompletionRestsOnReports` | `Spec => CompletionIsLookedAt` |
| `AgentRuns_proofs!LogAlwaysTellsTheEnd` | `Spec => []LogTellsTheEnd` |
| `AgentRuns_proofs!EndedRunsAreFinal` | `Spec => EndedStaysEnded` |
| `AgentRuns_proofs!ActiveRunsAreDriven` | `Spec => []ActiveRunIsDriven` |
| `AgentRuns_proofs!PermitsAreAccounted` | `Spec => []PermitsMatchHolders` |
| `AgentRuns_proofs!ServiceKeepsPromise` | `Spec => KeepsPromise` |
| `AgentRuns_proofs!PagesTypeCorrect` | `Spec => []TypeOK` |
| `AgentRuns_proofs!PagesShowThePrefix` | `Spec => []PageShowsPrefix` |
| `AgentRuns_proofs!PagesEndAsTheirRuns` | `Spec => []PageEndsAsRun` |

### Warehouse

1. **Types** (`Warehouse_proofs`). `TypeOK` is not inductive: a save writes what the
   request holds, so `TypeInv` adds the shape of each request (an outbound handler
   names an outbound, a pending notice update carries a notice status).
2. **No stale documents** (`WarehouseDocs_proofs`). `DocInv` adds what makes a check
   still true at the save: the plan of each operation (`Planned`), that planned
   locks up to `held` are owned (`Holds`), that a row about to be inserted is still
   absent (`Creates`), and that the document has the status the request found
   (`Found`). Another session can change a document only by holding its lock, by
   repeating the status condition, or through `reverseOutbound`, which has the
   production-order lock that `postOutbound` also needs. One lemma per action.
3. **Implementation** (`WarehouseDocs_proofs`). Under `DocInv` every save is one
   action of `StockLedger` and every other step leaves its variables alone, so
   `Spec => Ledger!Spec`. This is the one place where the handlers are looked at.
4. **Ledger properties** (`WarehouseStock_proofs`). Final documents, receivables and
   the agreement of balance and documents are invariants of `StockLedger`, whose
   steps are atomic, and carry over by (3). The balance is a sum; `Total` writes a
   sum as the size of a set of unit pieces, so that moving a document from one
   group to another is a fact about cardinalities of disjoint unions.
5. **Balance** (`WarehouseStock_proofs`). `StockCovers` says that the stock an
   outbound was checked against is there until it is saved. It is inductive
   because only `postOutbound` takes stock once the two unlocked reversals are
   gone, and two of them never overlap under the production-order lock. The
   assumption about endpoints is necessary (section 7, negative stock).
6. **Who writes what** (`WarehouseStock_proofs`, second half). The four invariants left
   are not promises of the ledger, so the handlers are looked at again, but only
   through a few lemmas: which steps write a row of a kind (`DocWriter`,
   `ReceiptWriter`, `OutboundWriter`, `NoticeWriter`) and the four ways
   a request moves (`RequestMoves`: it begins, ends, takes its next lock, passes a check).
7. **Receipts** (`QcInv`). A create that has passed its check still has the
   quantity it saw (`Allowed`): only a create adds to what is counted against a QC
   record, and it holds the lock of that record, so there is one at a time; postings move
   quantities that are counted already, reversals give back. This needs no
   restriction of the traffic.
8. **Outbound notices** (`NoticeInv`). `Figures` are the status and shipped quantity the
   outbounds of a notice give. Each open notice shows its figures (`NoticeRight`), its
   live outbounds and its drafts together fit its quantity, and a posting or reversal
   past its check carries the figures that hold once its own document is saved
   (`CarriesFigures`). The two claims support each other: what a request carries is
   computed under the production-order lock, and the steps that may happen meanwhile
   (shipping, signature, another notice's draft, a cancelled notice) leave the figures
   alone. `cancelNotice` has no lock, but its conditional update succeeds only on a notice
   that is pending or partly shipped, and one whose status is right then has no draft:
   this is why none is left although it counted them
   without a lock. With `cancelOutbound` the status may be outdated and the
   argument, like the claim, breaks (section 7, dangling draft).

### Settlement

The invariant `Inv` is `TypeOK`, `AllocationsFit`, `PaidDebtStands`, `DraftsUnpaid` and `LocksHold`. The last is
what a transaction relies on between two steps and is why the others are
inductive: a posting holds every debt it has checked, its lines are on different
debts and are still allocatable (`PostOK`); a reversal holds every debt whose new
status it has written (`ReverseOK`). Because nobody else can change a held debt or
commit an allocation on it, the check made at `LockLine` is still true at
`CommitPost`. What is paid on a debt after a commit is a statement about the
cardinality of a disjoint union of pieces (`SplitPaid`, `PaidBefore`, `PaidAfter`).
A statement and the reversal of a source document do not test a debt again when they
write it. Both respect the row lock, so what a posting has checked stays allocatable; the
first leaves a paid debt in force, and the second is the exception that `PaidDebtStands`
names.
`StatusIsCurrent` adds that the status a reversal has written in advance is the
one that will be right at its commit. For the refinement, `EditDebt` is `Agree` and
everything else is `Settle` or a stutter.

### Sums

`SumOf` is a fold, and the induction theorems of the library take the predicate as a
parameter, which the provers cannot instantiate. `Sums_proofs` does without: a fold
over `S` is a table of partial sums over the subsets of `S`, two such tables agree,
and an element can be taken out of a sum; each is shown by the least subset for which
it fails, which exists because proper inclusion is well-founded on the subsets of a finite
set. What the models need follows: a sum splits, is monotone, changes by the
difference when one summand does, and is that of another function when the summands
agree.

### Raw materials

The sides share no rows but the facts, so the invariant (`MaterialsInvariants`) has a part
for each, and one frame lemma a side tells what the steps of the others leave alone.

* *Documents* (`InboundInv`, `CountInv`, `MovementInv`). A request that holds the row lock
  of an inbound or of a stocktake finds it as it was. On the movement side there are no
  row locks: a serializable request that is not doomed finds what it read (`Sees`),
  because whoever commits a change of the row conflicts with its readers and dooms
  them. The facts follow.
* *Disposals* (`DisposalInv`). What a return or scrap was checked against is there until
  it is posted, unless the request is doomed (`DisposalsFit`): only a posting adds to what
  is consumed of an issue, and it writes the set of derived documents that the others
  have read.
* *Issues* (`IssueInv`). What was received or found and not issued covers the quantity a
  request has checked (`IssuesFit`). The balance it read is no more than that, once the
  facts of scraps are known not to be positive in sum (`ScrapsNet`: a posted document stands
  for the chain of reversals that ends in it); whoever takes goods out meanwhile
  changes the balance and dooms the request.
* *Inspections* (`InspectionInv`). A request that may post counts all inbounds of the batch,
  drafts and those being posted included, against what is accepted at that moment, and
  that is at most `peak`. So the posted ones and those about to be (`Admitted`) fit `peak`
  although the inspection may change before they commit. It needs every inbound to count
  positively, which the batches in `overdrawn` lack.

### Production

`Inv` is `TypeOK`, `References` (documents name documents that exist), `Chain` (goods
rest on a standing record, records on a submission under inspection), `InFlight`
(what a job has read is still so while it holds the row it locked) and `OneHolder`.
No quantity enters: status and existence survive every interleaving, including the
refresh of a notice that `submit` and `cancelSubmission` do without its lock.

`Fits` adds the quantities: at each stage (announced, handed in, inspected, taken in) the
sum of the documents and of the one request that is about to add to it fits what the
stage before has. There is at most one such request, since each holds the lock of
the document it draws on, and the frames (`Stays`) say which requests a step leaves
as they are. `InspectionFollowsQc` and `EachStageWithinTheLast` follow from it.

`AlertsInv` is about the shop floor: for every date outside `untold` the alert tells what
the reports of that date show (`Telling`), because each request that changes a report
recomputes the alerts in its own transaction, under the lock of the order, and the
confirmation of an alert names one that exists. An order is completed from its alerts;
`CompletionIsLookedAt` says that this is as good as looking at the reports.

### Agent

Every step of service, page and browser leaves the tables alone or changes them in
one of four ways (asked, moved, pieces added, ended); each keeps the log in step
with the row and maps to one action of `RunPromise`. `ActiveRunIsDriven` needs
`DriverInv`, which relates the program counter of an orchestrator to the state of
its run and to the request that created it; permits are counted as the
cardinality of their holders.

Of a page, `PageInv` has three parts. `StreamInv` says what the stream still owes its reader
(`InStep`): the numbers on the wire ascend, lie between the last event the reader has received
and the last one the service has sent, and leave out internal events only. `AnswersInv` says
that what a snapshot or the answer to a cancel request has told of a run is so of that run.
`RowInv` is about the page itself as long as no event of another run has reached it: what it
shows is true of the run it names (`True`), and it has seen all that the reader of that run
has received (`Attuned`), so the next event it applies is the next it may show. Only such a
page is spoken of because the reducer cannot tell runs apart: a reader that the page has
left behind, or a late answer, may hand it anything. The service's part is that logs only
grow, that an ended run stays (`Grows`), that the last event tells the end (`LogTellsTheEnd`)
and that a state event which names an end tells it too (`StatesTold`). The argument is per
page: what one page does leaves the rows of the others alone, and `PageKept` shows that
whatever the service does meanwhile, a page that does nothing keeps its invariant.

## 7. Where the code and its documents disagree

Two of the disagreements are runs that TLC ends with a counterexample of a few
steps; quotations are in `PROJECT.json`.

| Run | What happens |
|---|---|
| `double_revenue` | `confirm` commits the receivable and books the accrual afterwards (`modules/finance/receivable.service.ts:185`). A payment posted in between finds no accrual and books revenue; the accrual books it again. |
| `scrap_counts_twice` | A scrap's fact is negative and in a category that the available balance sums (`modules/production/raw-material-movements.service.ts:409`, `platform/inventory/inventory.service.ts:15`), although the issue has already taken the goods out. |

Others were met while the models were written. Where a model contains the case, the
properties are stated so that they do not claim it away.

**Warehouse**

* *Negative stock.* `reverseInbound`, `reverseDefective` and `reverseReturn` read the
  balance without the production-order lock (`finished-goods-inventory.service.ts:110`);
  `postOutbound` takes the goods in between. The design forbids a negative stock
  always. `StockNeverNegative` is therefore proved without these requests.
* *Overshipped notice.* `cancelOutbound` recomputes the notice without its lock, and
  may write an older shipped quantity over a newer one.
* *Revived notice.* `reverseOutbound` tests whether the notice is cancelled
  (`finished-goods-outbound.service.ts:135`) before a concurrent `cancelNotice` commits,
  and writes a status afterwards: the cancelled notice reserves stock again.
* *Dangling draft.* `cancelNotice` counts the drafts of a notice without a lock and relies
  on the status in its conditional update (`finished-goods-outbound-notice.service.ts:211`).
  A `cancelOutbound` that computed "pending" before the newest draft was created, and
  saves it afterwards, makes that status say too little: the notice is then cancelled over a
  draft that can still be posted. It takes two outbounds and three requests at once,
  which is more than `races` holds; TLC finds it in such an instance.
* *Eaten reservation.* Notices reserve stock against new manual drafts (`:42`), but a
  draft older than the notice is posted against the bare balance.
* *Late reversal.* `reverseOutbound` reads the receivable unlocked and cancels it by
  id (`:250`); a confirmation in between is lost and its accrual stays, and if a payment was
  posted as well the receivable is cancelled while something is paid on it. The code
  refuses the reversal of an outbound whose receivable has payments, but looks for them in
  the same unlocked read. `Settlement` reaches it in eight states; `PaidDebtStands` makes this
  its one exception.
* *A dead end.* Once finance has cancelled a receivable, its outbound can never be
  reversed (`:257`), although the message asks to cancel the receivable first.
* *Stale inbound notice.* Inbounds of different QC records of one notice share no lock
  while both recompute its status; the older result may be written last. The same is
  true of the reversal of an inbound, which locks nothing but the inbound.

**Finance**

* *Reopened accrual.* `reopen` and `cancel` leave the accrual voucher of a confirmed
  receivable (`receivable.service.ts:343`).
* *Overtaken cash entry.* A reversal may look for the cash entry of a payment before
  the entry is written, or the process may end before it is: the entry then stays
  without a payment, or the payment without an entry.
* *Stale payable.* The reversal of a supplier payment refreshes each payable without
  its lock (`supplier-payment.service.ts:213`); of two, the older answer may stay.
* *Statements.* The confirmation of a statement reads the drafts it covers without a lock and
  then confirms each by its id, although it locks it first
  (`reconciliation.service.ts:161-168`, `supplier-payable-reconciliation.service.ts:188-201`):
  a debt that was paid, cancelled or reversed meanwhile becomes "confirmed" again, and a
  second voucher is refused only because there is one per source. Its loop may also be part
  of a circle of locks, which the model, taking the rows in one step, does not follow.
* *Adjustments.* Posting a payment does not know adjustments, which reduce what is
  outstanding, and reversing an adjustment does not lock its source
  (`receivable-adjustment.service.ts:95`).

**Raw materials**

* An inbound posted while `remove` runs keeps its stock although it is deleted.
* `post` of an inbound decides on the inspection it read before it waits for its
  lock (`modules/procurement/raw-material-inbounds.service.ts:154`), and `create` of an
  inspection writes over a concurrent correction or cancellation. So what is posted is
  bounded by what QC accepted at some time, not by what it accepts now.
* The draft that acknowledging a notice makes of the remainder may be negative when the
  inspection was corrected downwards. It counts against the others of the batch, so
  three requests at once can post more than QC ever accepted; two cannot, and TLC
  does not see it. `PostedWithinInspection` leaves such batches out, and
  `IssuedWithinReceived` counts positive receipts only.
* The reversal of an inbound checks the balance outside any lock the movement side
  takes, so an issue may use the same goods.
* A payable that finance confirms between the read and the COMMIT of its inbound's
  reversal may be voided or left standing although confirmed, and be paid by then. A
  confirmation that has read the payable source and writes after the reversal makes a debt
  of an inbound that was taken back (`supplier-payable.service.ts:236-241` locks the entry,
  never the source; `supplier-payable-reconciliation.service.ts:188-201` locks it after the
  read). Both take eight or nine states in `Materials`. `ReversedIsOwedOnlyBelatedly` shows
  that no confirmation that begins after the reversal succeeds.
* A withdrawal tests a status it read before its write, so it may overtake the
  posting of the same issue: the facts stay, the document is a draft.
* The confirmation of a stocktake reads the balance under the lock of its header only
  (`modules/warehouse/stocktake.service.ts:303`). If an issue or an inbound reversal
  commits in between, the balance afterwards is not what was counted, although the
  comment says the books become the counted quantity (`:290`). For the same reason two
  uploads of one file that are confirmed at once would both apply the difference, which
  `src/docs/task/0916-stocktake-management.md:75` excludes; with one stocktake in the
  instance this second case is not explored.
* `updateLine`, `removeLine` and `remove` test the status of a stocktake before they write
  (`stocktake.service.ts:254`, `:281`, `:407`), so a line of a confirmed stocktake may be
  changed or deleted, or the stocktake itself. The reversal of one that has lost
  its line gives nothing back; `LedgerFollowsDocuments` is about the lines that exist.
* Reversals can themselves be reversed; a return draft that is edited loses the
  line of the issue it returns.

**Production**

* `updateSubmission` decides on a status it read before its lock
  (`finished-goods-qc.service.ts:119`): a submission may become smaller than what has
  been inspected of it.
* `submit` and `cancelSubmission` refresh the notice under the lock of the submission,
  only; `finished-goods-inbound-notice-status.ts:14` asks for a lock that serializes
  the callers, and two submissions of one notice share none. The notice may stay
  `partially_inbound`. (`CancelledStaysCancelled` shows that it is never revived.)
* A report moved by another request between the read and the lock of its update leaves
  the alert of the date it leaves untold (`daily-report-alerts.ts:10`).
* A report may be corrected downwards after the goods it covers were announced, handed
  in or stocked: no handler of reports looks at the notices. `EachStageWithinTheLast`
  compares notices with what was reported when the last of them was written (`backed`).
* `updateOperation` changes the target of a running order without recomputing its over-order
  alert (`modules/production/production-orders.service.ts:241`): the alert is that of the old
  target until the next report. The target is a constant of the model.
* An alert may be confirmed by id after it has recovered or its figures have changed.
* Operation reports lock the operation and then the order, employee reports the
  other way round, although the comment in `operation-daily-reports.service.ts:166`
  rules out a deadlock. PostgreSQL ends one of the two.

**Agent**

* The page hands its reducer events without a run, and the reducer tests phase and
  number only (`src/apps/web/lib/business-query-state.ts:89`). Four ways lead from there to a
  page that shows another run's events as its own: the answer to a cancel request that
  arrives when the next question waits or runs settles that one as cancelled
  (`src/apps/web/app/business-query/page.tsx:185`); the stream of the last question stays
  open until the new run is created, and what is still on it reaches the page that waits; a
  creation answered after the page has changed its session starts the stream of a run the
  page does not show (`:163`); and `RUN_CREATED` is ignored by a page that an event of
  the old stream has moved on from "submitting". `PageShowsPrefix` and `PageEndsAsRun`
  except such pages (`stray`) until they are reset.
* A retry that arrives between the lookup and the INSERT of the first request is
  answered with a conflict, not with the run.
* A cancellation whose conditional update loses to an ordinary transition (planning
  to querying) is not repeated, although the comment thinks of completion only
  (`state-manager.ts:129`): the driver is aborted and the run ends as failed.
* The snapshot reads the run before its events. When the run ends in between, the
  page has the last event but believes the run active, and its stream has nothing more
  to send: it waits until the next reload.

## 8. What is only model-checked, and what is not modelled

Only model-checked: liveness (`EveryRequestEnds`, `EveryPaymentEnds`, `EveryRunEnds`),
which is beyond the prover. So is `InNoticeReflectsDrafts`, which says little
beyond the instance it is checked on: several QC records of one notice share no lock
(section 7). Every other property of the passing runs is a theorem; those
with a hypothesis about the traffic are false without it (section 7).

Not modelled inside the components above: the entries of vouchers and their
regeneration; payables from other sources than an inbound and their import;
manual cash-flow entries, transfers and opening balances; creation and editing of
orders and operations (also of the target, section 7); a second cancel request of a page
before the first is answered; two statements at once; idempotency keys of documents (a replay returns an existing
row); deletion of documents; list, export and preview queries, which change
nothing.

Components without a model, and why:

* adjustments, and of the two kinds of reconciliation statements all but the confirmation of
  what they cover: state of their own on top of settlement; the hazard of adjustments is listed;
* purchase orders: a received order is where `Materials` starts;
* outsourcing: documents with a status of their own, settled like the payables modelled;
* purchase plans, sales orders, BOMs, customers, procurement master data: record
  maintenance, import and export. What is hard here is that an order number is
  renamed in many tables while documents are created with the old one;
* payroll and attendance: arithmetic over reports; a payroll payable is settled
  like a supplier payable;
* overhead, subjects, slips, financial reports, workbench, reorder, alerts views:
  read-only aggregation and layout;
* agent sessions, context and tools: rows inserted once, prompts, read-only queries;
* platform (auth, audit, forms, attachments, dictionaries): mostly I/O;
* the web client apart from the business-query page, and the coding worker, whose
  effects are files and processes outside the database.

Most of the repository's lines are in the last groups: editors, pages, spreadsheets
and report queries. The models cover the handlers that change shared state.

## 9. What could come next

In this order: adjustments inside `Settlement`, which have a hazard without a property;
two stocktakes in one instance; the composition of `Materials` with
`Settlement` over the payable of an inbound; order renaming against document
creation; outsourcing. Proofs: what `cancelOutbound` and the reversals of receipts do guarantee,
where they make the claims of `shipping` false - say, that a notice's columns
are right again after the next posting - and `StatusFollowsPayments` for payables
whose refreshes do not overlap.
