# A TLA+ development for maghzaccount-pro

`maghzaccount-pro` is an accounting ERP (React, TypeScript, Electron; PostgreSQL,
or PGlite inside the browser). These modules specify the parts of it whose
correctness depends on the order in which several actors do things, check them
with TLC on small instances, and prove the main facts with TLAPS for instances of
any size.

Paths below are relative to the repository root; `ai/` stands for
`src/modules/ai/`.

## 1. Inventory

### The system

A modular monolith. The renderer (a browser tab or an Electron window) holds the
UI and nearly all business logic; the database is the only shared state. Windows
do not talk to each other: they meet in the database, and on the desktop all of
them go through the main process (`electron/`), in the browser each has its own
connection to PGlite, and a relay server (`api/_lib`) serves remote databases.

| Component | State | Operations | Interaction |
|---|---|---|---|
| **AI job queue** `electron/aiHandler.js`, twin `ai/api/browserBridge.ts`, tables `core/database/schema/ai.ts` | `ai_job_batches` (status, counters), `ai_job_items` (status, attempts, lease, error code, after_seq) | create, claim, item-done, item-fail, set-status, clear, retry-failed, recover, release | SQL statements issued by worker loops and by user commands of several windows |
| **Batch worker loop** `ai/engine/batchRunner.ts`, `batchQueue.ts` | chunk in hand, outputs, wave and flight, empty-claim streak, backoff, `activeBatches` | `runBatch` | calls the queue and the tool executor; reads the stop flag of the chat engine |
| **Batch commands** `ai/api/batch.ts`, `ai/tools/batchTools.ts`, `ai/components/BatchProgressCard.tsx`, `ai/engine/chatEngine.ts` | counts between two statements of a command | pause, unpause, cancel, clear, retry, resume, stop | issue queue statements, start worker loops |
| **Tool executor** `ai/engine/toolExecutor.ts`, `errorTaxonomy.ts` | per-window rate-limit stamps | `executeToolCall` with a timeout that abandons the call | calls the business APIs |
| **Chat engine** `ai/engine/chatEngine.ts`, `confirmations.ts`, `taskLedger.ts`, `toolHistory.ts` | history, pending writes, cards, retry ceilings, completed keys, abort flag, recovery count | send, regenerate, confirm, reject, stop, stall recovery, scope, new, select, restore | asks the provider, the tools and the posting guard; one confirmation per write, one per batch |
| **JEV guards** `ai/jev/` | configuration, metrics | posting verdict, search | asked before each execution |
| **Sales, purchases** `modules/sales/api.ts`, `modules/purchases/api.ts` | documents, customer and supplier balances | create, update, delete, post, return, convert | read, then one transaction with entry, stock, status, balance |
| **Accounting** `modules/accounting/` | transactions, journal entries, vouchers, periods, assets | post, reverse, close, reopen, depreciate, dispose | transactions |
| **Inventory, valuation** `modules/inventory/api.ts`, `core/utils/valuation.ts`, `stockPolicy.ts` | stock, movements, FIFO layers | transfers, counts, allocation | read before, consumed inside, the poster's transaction |
| **Manufacturing, POS, HR, tax** | work orders, shifts, payroll, leaves, tax periods | life cycles of each | transactions |
| **CRM** | leads, opportunities | row updates, conversion of a lead | statements |
| **Posting service** `core/services/` | none | post with compensation, state machine | two transactions; nothing in production calls it |
| **Database adapters** `core/database/adapters/` | cached adapter, last ping, stored choice; the PGlite session | acquire, query, transaction, replay after a lost answer | every module |
| **Desktop main process** `electron/dbHandler.js`, `main.js`, `migrationRunner.js` | vault of connections on disk, pool, sessions, the one healing of schema drift | statements, transactions, logins, commands on connections | IPC handlers whose awaits interleave; each reads the module's `pool` anew |
| **Relay, backup, update, UI, reports** | files | I/O | see `PROJECT.json` |

### What is hard

The queue carries *financial writes that must not happen twice*, approved once by
a person and executed unattended. The hazards, each with its line and the
properties that would catch it, are in `PROJECT.json`; in short:

* several statements per handler, with other sessions in between (`item-fail`
  reads, decides and updates; `retry-failed` and `set-status` are three statements);
* two windows driving one batch, told apart only by leases;
* a window that dies, or a statement that fails, between a write and its record;
* writes that outlive their timeout, replies that are lost;
* commands that arrive while a chunk is in flight;
* cascades (skip below a failure, revive below a retry) and counters kept by
  increments beside the rows they count;
* termination of a loop that waits for rows nobody may ever finish.

Outside the queue the recurring shape is *check, then a transaction that does not
check again*: `postInvoice` reads the draft, stock, credit limit and FIFO layers
first; its guarded UPDATE that changes no row does not abort the rest
(`modules/sales/api.ts:1215`). Reversal and the POS difference entry look up their
reference before they insert it. Below them, a transaction of one call may meet the
statements of another in the one session of PGlite, and a call to a server may be
carried out without its caller hearing of it. Above them, the assistant keeps a
conversation in module variables which several lanes of work, a watchdog, a change of
company and a saved conversation all write to, each between two awaits of the others. On
the desktop a handler of the main process waits for the database while another one points
the pool at a different server.

## 2. Modules

Five families, each with an `MC` module that gives it small instances.

| Module | Content |
|---|---|
| `JobQueue` | the two tables for one batch; one operator per SQL statement |
| `BatchRunner` (extends it) | the worker loops, commands and environment; properties; fairness |
| `Approvals` | abstract: what the queue promises, in approvals and writes alone; `BatchRunner` implements it (`KeepsPromise`) |
| `MCBatch` | shapes of batches and windows |
| `BatchRunnerProofs` | the statements row by row; typing and the inductive invariant; the budget invariant and the refinement; `TypeCorrect`, `HeldRowsAreOwned`, `OrderIsKept`, `DoneRowsAreFinal`, `WritesArePaidFor`, `QueueKeepsItsPromise` |
| `BatchClosingProofs` | counters and verdicts, orphans, waves; `CountersAccount`, `VerdictsAreTrue`, `NobodyIsOrphaned`, `ClosedBatchesAreFinal`, `ReferencesAreWaitedFor` |
| `Books` | documents, ledger, party balances, stock, layers; a session's reads, plan and write; FIFO allocation, sufficiency, period gates |
| `Sales`, `Purchases` | invoices and returns: create, edit, delete, post, reverse |
| `Vouchers`, `Journals` | receipts and payments, manual entries; their reversal |
| `Inventory`, `Manufacturing` | transfers and counts; work orders |
| `Till` | shifts, checkout, the entry of a shift's difference |
| `Conversion` | quotations and orders that become invoices |
| `Periods` | fiscal year, half, tax period: open, close, reopen |
| `Payroll`, `Leaves`, `Assets` | payroll runs and end of service; leaves and their provision; fixed assets |
| `Trade` (extends the thirteen above) | all of them on one database; properties |
| `MCTrade` | which documents exist, and who works on them |
| `TradeProofs` | sums; typing, module by module; what rows and plans say; shifts and offers; `TradeTypeCorrect`, `SalesJoinOpenShifts`, `OffersInvoicedOnce` |
| `LedgerProofs` | the balance of every step, action by action; `LedgerIsTheDocuments`, `InventoryIsControlled`, `PartyBalancesAgree`, `EntriesKeepTheirDocuments` |
| `SessionProofs` | which documents a step is about; the leaves of an employee; one session on its own; `LeavesStayWithinEntitlement`, `NoEntryInClosedPeriod`, `NothingIsDoneTwice`, `PostedEntriesStand`, `NothingIsOversettled`, `NothingOverdrawnAlone` |
| `Engine` | the one PostgreSQL session of a window with PGlite: block, pending and committed writes, requests that were given up |
| `Routes` (extends it) | which database a call is given: stored choice, cached adapter, acquisitions |
| `Adapters` (extends it) | `query` and `transaction` from acquisition to answer, local or remote; properties |
| `MCAdapters` | two calls |
| `AdaptersProofs` | what a call has in the session and on the disk, and which adapter it is handed; `AdaptersTypeCorrect`, `RoutesAreHonoured`, `TransactionsAreAtomic`, `AnswersAreTrue`, `NothingIsLeftOpen` |
| `Dialogue` | the history sent with every request, and when a provider accepts it |
| `Chat` (extends it) | lanes of work, cards, and what happens to them from outside; properties |
| `MCChat` | a read, two writes with equal arguments, any of which may be a batch |
| `ChatProofs` | eight invariants, from typing to whole requests; `ChatTypeCorrect`, `TheInputOpensAgain`, `WaitingCallsAreAnswerable`, `EffectsWereApproved`, `TurnsStayHome`, `NothingIsOfferedTwice`, `RequestsArriveWhole` |
| `Pools` | the vault on disk, the pools built from it, the sessions opened through them |
| `Desktop` (extends it) | the handlers as activations that await the database; drift and its healing; properties, fairness |
| `MCDesktop` | two servers, one saved connection |
| `DesktopProofs` | two inductive invariants; `DesktopTypeCorrect`, `StatementsStayHome`, `WritesAreKeptOnce`, `TheVaultIsFollowed` |

The families are checked apart. What one needs of another is an assumption of it, stated
here: the batch loop sees the tools as an external write that may fail, be late or lose
its reply; `Desktop` likewise sees a statement as a write that is kept or not; `Trade` takes a transaction for one atomic step, which `Adapters` shows to hold
for a server and, on PGlite, only while no other call is in the session
(`HalfTransaction`); `Chat` sees a write as one that takes effect or not, and the run of
an approved batch as one await.

### State and actions

#### The batch

A statement is atomic, because PostgreSQL makes it so; everything between two
statements of one handler is a step at which any other actor may act. An action
of `BatchRunner` is one *await-to-await* step.

| In the model | In the code |
|---|---|
| `status`, `cnt` | `ai_job_batches.status`, `done_count`, `failed_count`, `skipped_count` |
| `stat`, `attempts`, `owner`, `lease`, `code` | columns of `ai_job_items`; `lease` is `claim_expires_at` compared with the clock |
| `pc`, `local`, `job`, `step` | position and local variables of each `runBatchInner`; a member of `Workers` is one run (`newWorkerId`), used once |
| `cmd` | the next statement of the command in flight in a window, and the counts it carries from one statement to the next |
| `effects`, `late` | the accounting writes themselves (external): how often a row's write took effect, how many abandoned ones still may |
| `reruns` | ghost: how often a user's retry requeued the row |
| `used` | the bounds on commands, crashes and failed statements |

The loop goes `recover → settle → read → top → chunk → flight → … → backoff →
sync → top`. `Claim` is the loop top with the three outcomes of a claim; `Launch`
resolves references and starts a flight; `ItemStep` are the steps of
`runChunkItem` for each row of the flight, interleaved with one another because
the flight is a `Promise.all`; `Land` is what follows it. `RunHiccup`,
`ItemHiccup`, `ReleaseHiccup` and `CommandHiccup` are the ways a failing statement
is handled. `Crash` is the death of a window; `LeaseExpires`, `LateCommit` and
`LateAbort` are time.

The recursive CTEs (`doomed`, `revived`) are least fixed points, written as the
intersection of all closed sets, so that no RECURSIVE operator stands in the way
of the proofs.

#### The books

| In the model | In the code |
|---|---|
| `row[d]` | the row of a document in its table: status, quantity (also its total: the unit price is 1), what is paid, the document it refers to |
| `entries[d]`, `booked[d]`, `reversed[d]` | the journal entries that carry the number of `d`, their cash legs, and those that carry `REV-` or `DSP-` and the number |
| `gl`, `owed`, `due` | balances of the accounts; `customers.balance`; `suppliers.balance` |
| `stock`, `layers` | `stock.quantity` per warehouse; `inventory_layers.qty_remaining`, oldest first |
| `hand[u]` | what the function a session is in has read, and the statements it has planned |
| `ops` | the bound on operations begun |
| `disturbed` | history: documents whose row was not the one that was read when the transaction ran, or that a function writes over whatever their status is |

An operation is two steps, or as many as it has separate writes. `PostInvoice(u, d)` is
everything `postInvoice` does before its `runTransaction`: the reads, each gate as a
conjunct, the plan put into `hand[u]`. `CommitInvoice(u)` is the transaction: journal
entry, layers, stock, status, balance, with the guards that stand in its SQL. Between
them any other session may act, and `Fails` may end the operation. Operations whose code
is several statements outside a transaction (the edit of a manual entry, a conversion, a
leave, a transfer's floor) are as many steps.

The reads of one function are one step: the code's reads are several queries, so an
interleaving between two of them is not modelled; the wide window, from the last read to
the transaction, is.

#### The adapters

| In the model | In the code |
|---|---|
| `block`, `pending`, `kept` | the transaction block of the PGlite session, its writes, and what is committed |
| `late` | requests of the worker transport that ran into the 30 s limit and are carried out afterwards |
| `mode`, `explicit`, `fresh` | the stored backend, whether the user has picked it, whether onboarding is unfinished |
| `cache` | `adapter`, `adapterMode`, and whether the last ping is younger than 30 s |
| `acq[f]` | where the acquisition of a call stands, the mode it read, the adapter it pings, and the one it returns |
| `at`, `k`, `told` | where a call is, its statement or the try of its request, and what its caller has heard |
| `flying`, `unheard` | requests to a server that nobody waits for; calls with an answer that was not heard |
| `crossed`, `disturbed` | history: acquisitions during which the choice changed; calls that met another's request in the session |

On PGlite each statement is a request that is awaited, so others may speak in between;
on a server the call is one request, carried out whole, whose answer may be lost. Neon
replays it once (`guardedCall`).

#### The assistant

A *lane* is one activation of `send`, `regenerate` or `resolveConfirmation`, from the call
to its `finally`. Its stages are the awaits: `preamble` (context and posting guard of the
message), `asking` (provider), `pausing` (15 s before the one retry), `reading` (read
tools), `vetting` (posting guard of the writes), `checking` (the same after a click),
`executing` (the write), `running` (the batch that was enqueued). A step is what runs
from one await to the next.

| In the model | In the code |
|---|---|
| `busy`, `abort`, `epoch` | `isProcessing`, `abortRequested`, `recoveryCount` |
| `iteration`, `corrections` | turns of the loop; corrections of a claimed write |
| `history` | `conversationHistory`: one element per turn; results that stand behind their turn are kept with it (`answered`), any other result is a `stray` |
| `pending`, `card` | `pendingWriteCalls`; what the transcript shows of each call |
| `failures`, `done`, `landed` | the retry ceilings, the ledger's completed keys, whether a write succeeded since the last message |
| `company`, `scoped` | the active company, and the one the engine's state is for |
| `conv` | ghost: which conversation, and of which company, the history is |
| `mishaps` | history: a lane under way was `overtaken` by a recovery, `crowded` by a second click, `switched` or `replaced` |

#### The desktop's main process

| In the model | In the code |
|---|---|
| `vault` | `connections.json`: the server each saved connection names, and `activeId` |
| `pools` | every `new Pool`; the last one is the module's `pool`; `ended` once `end()` was called on it |
| `sessions` | the live sessions, by the database the user was read from (`of`) and the one the pool pointed at when the session was made (`on`) |
| `call[j]` | an activation of an IPC handler: what it awaits, through which pool, its try, the session it took at its start, and what it was told |
| `memo`, `drifted` | `schemaHealPromise` and the server its runner went to; the servers behind the migrations |
| `kept` | writes a server has committed, with the try that sent them |
| `apart` | history: a command wrote the vault without the pool, or the pool without the vault |

A step is what a handler runs from one await to the next. `pool.end()` waits for the clients
that are checked out, a second `end()` rejects at once, which every caller ignores, and a
request to a pool that was told to end is refused (pg-pool, external). A restart loses the
pool, the sessions and the memo, keeps the vault, and leaves open whether what was sent is
kept.

### Abstractions, and what they leave out

The batch:

* One batch. Statements never touch two batches, except `batch-clear`, which treats
  each alike.
* A failing statement has no effect. That a *queue* statement commits and its reply
  is lost is not modelled; for the accounting writes it is (`LOST_REPLY`).
* A tool that reports an error has written nothing, except on `TIMEOUT` (may
  commit later) and `LOST_REPLY` (has committed).
* Every result carries an output for `{{ref}}`.
* One command at a time in a window (the card disables its buttons, the chat engine
  has `isProcessing`); different windows are independent.
* The handlers are `electron/aiHandler.js`'s. The PGlite twin issues the same
  statements in the same order, with these differences that are not modelled: its
  create inserts header and rows separately, its claim sets `running` in a second
  statement, and a failing middle statement of retry or cancel does not stop the
  ones after it.
* `total_count`, labels, results, messages and progress callbacks are left out.
* A lease runs out only when its run is over, unless `Suspends` is TRUE. The code's
  lease is 30 minutes and only claims refresh it, so this assumes that a chunk of at
  most ten rows is answered within it.

The books:

* One stocked product and one manufactured one, unit price and unit cost 1, no tax,
  discount, unit conversion or foreign currency; FIFO. A document's quantity is its total
  and its cost. One customer, one supplier, one cash box, one employee, one asset, and two
  warehouses.
* All dates lie in one fiscal year, in its first half and in one tax period.
* The functions are the hosted build's (`src/modules/*/api.ts` sends the SQL itself).
  On the desktop some of them are handed to twins in `electron/dbHandler.js`. A few of these
  are guarded more tightly: `updateInvoice` (5946-6050) locks the draft and edits it in one
  transaction, `deleteInvoice` (6053), `pos.openShift` (7226) and `pos.closeShift`
  (7251-7283) carry the status in the statement, `claimQuotation` (6259-6313) locks the
  offer. Others are not: the approval (3298) and deletion (3207-3218) of an adjustment and
  `deleteWorkOrder` (4629-4637) are plain statements, and the gate of periods (265-318)
  refuses a closed one only, within the transaction. What the runs show of a race on these
  is about the hosted build.
* Permissions, numbering, audit, notifications and print-outs are left out.

The adapters:

* A statement either writes one thing or fails; its text, parameters and rows are left
  out. Two calls suffice for a call and whoever meets it.
* The statement filter of the relay is left out: a request to it is carried out or not.

The desktop's main process:

* A transaction is one request that is kept or not: its statements go to one client, which
  is released before its caller hears of it or waits for a healing.
* Secrets of the vault can be decrypted; `update-config` has passed its gate, which reads
  before anything is changed.
* Statements on a drifted server may meet the drift or not. The schema sync removes all of it
  or fails.
* The handlers that seed, reset or probe a database are left out, and so are the size of the
  pool and the permissions of a session.

The assistant:

* A reply is the set of calls it makes; what it says is left out. The window of 30
  messages, the flattening of old calls, the token budget, the nudge on a repeated read
  and the wait of the draft guard do not change what a request must satisfy.
* A call is made once: `card` leaves `new` for good. Equal calls are different members of
  `Calls` with the same `Key`.
* A write of the assistant is one step with its effect; what a tool does inside is
  the business of `Trade`, and of `BatchRunner` for a batch.

## 3. Runs

Deadlock is not checked: when every run, call or lane is over and the bounds are used
up, the system really stops.

| Run | Instance | What it shows |
|---|---|---|
| `BatchChunk` | 3 rows, an `after` edge and a reference, 4 ways to fail, 1 command | `DependencyOrder`, `OneEffectPerApproval`, `UnresolvedIsLate` |
| `BatchCrash` | 2 rows with an edge, 2 windows each with a run, 2 commands, 1 crash | types, `CountersCover`, `ClosedIsTrue`, `HeldIsOwned`, `DoneIsFinal`, `ClosedIsFinal`, `KeepsPromise` (refinement of `Approvals`) |
| `BatchEnds` | chain of 3 with a reference, 1 command, 1 failed statement, fairness | `NoQueuedOrphan`, `RunsEnd`, `EventuallyClosed` |
| `TradeRaces` | 2 sessions, 22 sets of two or three documents, 3 operations | types, `LedgerMatchesDocuments`, `InventoryControl`, `PartiesAgree`, `OneInvoicePerOffer`, `NoSaleJoinsClosedShift` |
| `TradeSerial` | 1 session, 14 sets of three documents, 5 operations | `SettledWithinTotal`, `OncePerDocument`, `NoOrphanEntry`, `LeavesWithinEntitlement`, `NothingIsOverdrawn`, `PostedEntryStands`, `ClosedPeriodIsLocked` |
| `AdapterCalls` | 2 calls, each a query or a transaction of 2 statements; 1 given-up request, 1 choice, 1 reload | `AllOrNone`, `AnswerIsTrue`, `NothingLeftOpen`, `RoutesWhileSettled` |
| `ChatTurns` | 2 lanes, 3 calls, 2 turns of the user, 1 mishap | `EffectsAreApproved`, `RequestsAreWhole`, `NoForeignTurn`, `Answerable`, `BusyHasALane`, `NoSecondOffer` |
| `DesktopSwitch` | 3 calls of any kind, 2 servers (one of the environment), 1 connection, 1 restart, any set of drifted servers, fairness | `TransactionOnce`, `StatementsStay`, `PoolFollowsVault`, `EveryCallIsAnswered` |

The bounds of the batch. Three rows are the least with a dependent of a dependent
(cascade and revival need it) and with a reference across waves; a claim limit and a
width of 2 make a chunk span two flights and a batch span two claims. Two runs suffice
for a run, its successor, and a rival. Two attempts distinguish retry from failure; where
only the commands matter, one attempt makes every failure permanent. Two commands let a
command land in the middle of another; one crash and one failed statement may occur at
every step. `EMPTY_CLAIM_STREAK_LIMIT` is 20 in the code and 2 here: it is a bound on
idle rounds. The retry delays are the code's.

The bounds of the books. Two sessions and three operations let two operations overlap on
documents that a third one changes; a set of documents is chosen so that its members meet
in an account, in the stock, or in each other (`AllPairs`). Quantities of 1 and 2 tell a
part from the whole; the opening stock is 2 in one warehouse and 1 in the other, in
layers of 1 and 2, so that neither the warehouses nor the layers line up with a document.
A credit limit of 2 and a cash box of 1 are both within reach. What holds only while one
session works at a time is checked with one session, and with five operations: the gates
of the code are re-evaluated in no transaction, and two sessions together can pass every
one of them (below).

The bounds of the adapters. Two calls, because a third adds nothing that a second one
with more requests does not; two statements, because a half needs them; one request given
up, one choice, one reload, at every step.

The bounds of the chat. Two lanes are the least that overtake one another; three calls
are a read and two writes with equal arguments, and either write may be a batch; one
mishap (stop, recovery, change of company, new, selected conversation) at every step.
`WRITE_RETRY_LIMIT` is 2 in the code and 1 here, `MAX_ITERATIONS` 10 and 2, the
corrections 2 and 1: each is reached.

The bounds of the main process. Three calls are a statement or transaction under way, a
command that switches below it, and a login, a second command or a second statement that
meets both; two servers are a home and an elsewhere. One saved connection and the
environment are two targets; a second connection changes no result (2.5 million states,
invariants only).

Every property of a passing run is also run against a mutant of the definition that
guarantees it (`Faulty...` in the modules): a claim without a gate, a cascade that stops
early, counters that forget the cascade, a recovery without the lease test, a posting
that asks no period, an edit that asks no status, a transaction without its BEGIN, a
catch that leaves the block open, a card that is taken out after its write ran, results
pushed behind the last turn.

### What the code does not do

Four statements of comments are violated by the code. Each is a run that TLC must
refute, and a finding in `PROJECT.json` with both places quoted.

| Run | The code |
|---|---|
| `TimeoutRerun` | a timed-out write is recorded as `TIMEOUT`, not `TIMEOUT_WRITE`, and so is run again by a resume, although it may have committed |
| `PaymentReversal` | the reversal of a payment subtracts its amount from the supplier's balance, as its posting did |
| `HalfTransaction` | on PGlite two transactions share one session: the COMMIT or ROLLBACK of one ends the block of the other, and half of it is kept |
| `CardsTogether` | two cards approved while both run: the first to finish asks the provider again with the other call unanswered |

Further divergences are stated as definitions that no kept run checks; each is violated
at once when it is added to the configuration named with it.

| Definition | Add it to | The code |
|---|---|---|
| `CardResumes` | `BatchEnds`, with `Spec` | the card's retry button on a partial batch never starts anything: the resume flow refuses every partial batch without queued rows before looking at the failures (`chatEngine.ts:944`) |
| `StartIsCovered` | `PaymentReversal`, `Mixes <- WorkOrderAlone` | the material of a work order is summed over all warehouses and issued from one, which goes below zero (`manufacturing/api.ts:887`) |
| `ConvertedHasInvoice` | `PaymentReversal`, `Mixes <- QuotationAlone` | a conversion that failed releases its claim by a statement that asks a column `sales_invoices.quotation_id` which no migration creates: the quotation stays converted without an invoice (`sales/api.ts:1560`) |
| `FinalCloseCloses` | `PaymentReversal`, `Mixes <- YearAlone` | `closeFiscalYear` inserts `ON CONFLICT (company_id, year)`, which the desktop's partial indexes of `drizzle/0001_asset_periods.sql` do not match (`yearEnd.ts:384`) |
| `RoutesToChosen` | `AdapterCalls`, 3 calls | a ping returns the adapter the cache holds after its await, which another acquisition may have replaced |
| `ChoiceStands` | `AdapterCalls` | a probe that answers after the user has picked a backend stores its own answer (`adapters/index.ts:248`) |
| `GetsAnAdapter` | `AdapterCalls`, 3 calls | a ping that succeeds after another one's failure has cleared the cache returns no adapter |
| `RepliesStayHome` | `ChatTurns` | a lane that goes on after a saved conversation was picked pushes its reply into that one |
| `WritesStayHome` | `DesktopSwitch`, 2 calls | a transaction that met drift is replayed on the pool there is after the healing, which may be another database than its session's (`dbHandler.js:1301`), though the comment in `createPool` (1026) wants no identity of the old database to authorise writes on the new one; with 3 calls, a login that a switch overtook makes a session of the old database on the new one (7435) |
| `DriftIsHealed` | `DesktopSwitch`, 4 calls | a healing that succeeded is remembered for ever, so the drift of a server that is switched to later is never healed, though the comment at `dbHandler.js:908` promises it for whatever database is connected |
| `PoolIsTheVaults` | `DesktopSwitch` | removing the active connection builds the pool from the vault before the shorter vault is saved (`dbHandler.js:8909`): the app stays on the connection that was removed until it restarts. Saving other parameters for the active connection leaves the pool too |

Others came up in reading and in runs with other constants, and are left in prose.

* *Batch.* A retry on a running batch does not take the requeued rows out of
  `failed_count`, so a batch with every row done ends `partial`. `batch-clear` updates the
  header twice in one statement; PostgreSQL applies the first, and the parked rows are not
  counted. A released row keeps the attempt of its claim; at the fourth it stays queued for
  ever. The claim returns attempts as of before its own update, so the five-minute tier of
  the delays is never reached. With `Suspends` TRUE in `BatchCrash`, a run that outlives its
  lease loses its rows in flight to a recovery. With `LOST_REPLY` among the outcomes of a
  run with retries, `OneEffectPerApproval` fails (a write whose reply is lost is a retryable
  `DB_ERROR`, `errorTaxonomy.ts:227`). A row in flight at a cancel that fails transiently is
  left `queued` in the cancelled batch (`aiHandler.js:1571`). A batch whose last finalize
  failed stays `running` and cannot be resumed (`chatEngine.ts:944`).
* *Books, two sessions.* Two posters of one draft book it twice; two reversals of one
  document both pass the look-up of `REV-` (`reversal.ts:96`); two closers of a shift both
  book its difference (`pos/api.ts:39`); two charges of one month both depreciate; a sale
  may be invoiced behind a period that closes meanwhile; the lines of a posted entry are
  written over by an edit that began before (`accounting/api.ts:527`); a filed tax period is
  set back by a status move that began before; the floor of a transfer is read without a
  lock (`inventory/api.ts:872`); a deletion overtakes the posting of a purchase
  (`purchases/api.ts:1158`); the status a failed conversion restores is read after the claim
  (`sales/api.ts:1536`).
* *Books, one session.* A cancelled work order returns its stock without a layer
  (`manufacturing/api.ts:914`). The final close of a half that is softly closed changes no
  row and succeeds (`yearEnd.ts:544`). Generating sub-periods unlocks a closed year. The
  approval of an end of service asks no period (`hr/api.ts:1374`), and cancelling one that
  was approved keeps its accrual. A voucher created as posted skips the tax gate. Two leaves
  of a single day overlap unseen, because the range excludes its last day
  (`hr/api.ts:1058`). `reverseTransaction` takes any posted entry, those of documents
  included. Deleting an asset leaves its capitalization entry, and one bought on account
  credits the creditors without a supplier. A leave provision that was reversed cannot be
  booked again. A count that is posted late overwrites the movements since.
* *Adapters.* On the worker transport a BEGIN that was given up opens a block later, into
  which the next calls write. Neon replays an error of PostgreSQL whose text speaks of a
  timeout.
* *Main process.* A command that removes the active connection saves the vault it loaded
  before its await, and undoes what another command saved meanwhile. Two commands that overlap
  leave a pool that nobody ends.
* *Chat.* A change of company while a posting guard is awaited lets the card, or the
  result, of the old company appear in the new one, and the write goes to the company of
  that moment (`chatEngine.ts:716`). The reads of a reply dropped by a recovery leave a call
  without an answer (`chatEngine.ts:353`). The `finally` of an overtaken lane opens the input
  under the next one. A stop pressed during the preamble is forgotten
  (`chatEngine.ts:561`). A saved conversation that lands over a new turn leaves a pending
  write without a card. Two equal writes of one reply are both offered. Regenerating cuts at
  a correction, which is a user's turn to the code. A reset during the 15 s pause takes the
  iteration below zero.

### Fairness

Fairness is stated for the batch, which runs unattended, and for the handlers of the main
process, whose callers wait. The others act when a person does, and promise nothing by themselves; what must not happen to
them is that the input stays closed (`Answerable`, `BusyHasALane`) or a block stays open
(`NothingLeftOpen`), which are invariants.

`FairSpec` assumes that an approved batch is started, that every run of the loop takes
its next step, and that a command goes on to its next statement: each await of the loop
is a bounded call (`withTimeout`, statement timeouts) or a `setTimeout`. Nothing is assumed of
users, crashes, failing statements, leases or late writes. `RunsEnd` holds under any
disturbance; `EventuallyClosed` promises only as long as there was none.

In `Desktop` the process goes on while a request, a healing or an ending pool can: requests
end by `connectionTimeoutMillis` and the cap on statements, the runner by its own 15 s. Calls
are finitely many, so this is all `EveryCallIsAnswered` needs: that neither a switch, nor the
clients it waits for, nor the healing these wait for, wait for one another.

## 4. Proofs

Checked by TLAPS for every set of rows, edges, windows, runs, bounds and outcomes the
assumptions admit (`ItemsAssumption`: rows are numbers, finitely many, and `after_seq`
points backwards, as `resolveBatchItems` enforces; `LimitsAssumption`,
`RunnerAssumption`).

* `TypeCorrect == Spec => []TypeOK`. Not only typing: `attempts \in 0..MaxAttempts`
  rests on the claim's gate.
* `HeldRowsAreOwned == Spec /\ ~Suspends => []HeldIsOwned`. `HeldIsOwned` is not
  inductive: that a row a loop holds is running under its live lease is disturbed by
  every statement that touches rows. The strengthening `IInv` adds `InHand` (steps and
  unstarted rows belong to the round, which a run has only between claim and the end of
  the round; `fin` means the row is answered), `PendingOwned` (what is not answered is
  owned, running, live) and `DependencyOrder`. With it: recovery takes no live lease; a
  release takes only rows of its own worker; requeue and revive take failed and skipped
  rows, which nobody holds; a claim takes queued rows; two runs never hold the same row
  because `owner` is one.
* `OrderIsKept == Spec /\ ~Suspends => []DependencyOrder`, from the same invariant: the
  retry branch of item-fail has no status guard, and only because the row is still
  held (hence running, not done) is it harmless to the rows below.
* `DoneRowsAreFinal == Spec /\ ~Suspends => DoneIsFinal`, likewise.

* `WritesArePaidFor == Spec /\ ~Suspends /\ "LOST_REPLY" \notin Outcomes =>
  []OneEffectPerApproval`. The bound `effects + late <= 1 + reruns` alone says nothing about
  who may write next; `EInv` adds to `IInv` the `Budget`: a row that waits in the table
  (queued, or skipped and so revivable), or that a run may still send or put back
  (unstarted, executing, cooling down, failed with a retryable code, about to be requeued),
  has `effects + late <= reruns`. A write uses the row's last approval and leaves it with no
  other chance, because `PendingOwned` makes its run the only one that holds it; a crash
  leaves at most one late write of a row behind for the same reason; a retry of failed rows
  grants one more approval in the step that requeues them.
* `QueueKeepsItsPromise`: under the same assumptions `Spec => Promise!Spec`, where
  `Promise` is `Approvals` with `approvals[i] = 1 + reruns[i]`. An execution that succeeds
  is a `Write`, one that times out or whose window dies an `Abandon`, a retry an `Approve`, a
  late commit or abort a `Settle`; every other step stutters.

Both assumptions are necessary: without `~Suspends` a run that outlives its lease loses its
rows, and a lost reply makes a committed write look like a transient database error, which is retried.

`BatchClosingProofs` is about what a batch says of itself, and when it ends:

* `CountersAccount == Spec /\ ~Suspends => []CountersCover`. The counters lag behind the
  rows while a retry is half way: its first two statements put failed and skipped rows back
  into the queue, its third takes them off the counters, and other statements, other
  retries included, fall between. `CInv` therefore compares a counter with the rows *and the
  debts*: `FailedDebt` and `SkippedDebt` have one member for each row that some window still
  has to take off. A retry moves as much from the rows to its debt as it requeues, and pays
  it in the end. Without the debts the last statement could take the counter below the rows
  that failed meanwhile.
* `VerdictsAreTrue == Spec /\ ~Suspends => []ClosedIsTrue`. `finalizeBatch` draws the verdict
  from counters. That it is true of the rows needs `done_count` to be exact and the other
  counters to cover, both in `CInv`, and that a finalising run finds no row running.
* `NobodyIsOrphaned == Spec /\ ~Suspends => []NoQueuedOrphan`. `OInv` adds that the row a
  failed row waits for is done, so that a retry, which puts failed rows back, never puts one
  below a failed or skipped one. The cascade and the revival are least sets; `DoomedBelow`
  and `RevivedAbove` state the one closure of each that is needed.
* `ClosedBatchesAreFinal == Spec => ClosedIsFinal`, from the statements alone, leases
  that run out under live runs included.
* `ReferencesAreWaitedFor == Spec /\ ~Suspends /\ Acyclic => []UnresolvedIsLate`. `Acyclic`
  says that in every set of rows some row refers to no other of the set. It is needed: `resolveBatchItems`
  checks that `after_seq` points backwards but not that the `{{ref}}`s do, and when they make
  a circle `CurrentWave` falls back to all rows that are not started. With it the wave is
  never empty (`WavesReach`), no member of it refers to a row that is not started
  (`FlightIsReady`), and the wave ends before the next one starts. `Waves` is a recursive
  function over an interval: its values are reached through a least counterexample
  (`LeastNat`), since the induction theorems cannot be instantiated.

Of the adapters, for any number of calls, statements, timeouts, choices and reloads
(`StatementsAssumption`, `BoundsAssumption`):

* `AdaptersTypeCorrect == Spec => []TypeOK`.
* `TransactionsAreAtomic == Spec => []AllOrNone` and `AnswersAreTrue == Spec =>
  []AnswerIsTrue`. `AllOrNone` sees only what is committed, and nothing of how it came there.
  `Alone` says of every call that nobody disturbed what it has in the open block at each
  place of its code (before statement `k` exactly the `k - 1` first writes, before the COMMIT all of
  them), that nothing of it is committed until then, and what its caller was told. Two more
  are needed: a statement that was given up and waits in the session is of a call that knows
  it was disturbed (`LateIsKnown`), and a request that is on its way to a server has lost its
  caller (`FlyingIsUnheard`), so that neither can write behind the back of a call that is
  said to be alone.
* `NothingIsLeftOpen == Spec => []NothingLeftOpen`, with the fact that on the calling thread
  no request is ever given up.
* `RoutesAreHonoured == Spec => RoutesWhileSettled`, an action property. `RouteInv`: the
  cached adapter is the one of the mode it was cached under; while no choice crossed an
  acquisition, what each acquisition wants is the stored mode, and the cache it pings is of
  that mode.

Of the assistant, for any number of lanes, calls, keys, turns and mishaps
(`ChatAssumption`: a call has one key, batches are writes, and calls are finitely many,
because a reply of the model is):

* `ChatTypeCorrect == Spec => []TypeOK`, which includes that no read ever waits for the
  user and that no loop counts past its bound.
* `TheInputOpensAgain == Spec => []BusyHasALane`: `busy` is set only by a step that leaves a
  lane at work, and each step that ends one clears it.
* `WaitingCallsAreAnswerable == Spec => []Answerable`, which needs that a call is in one pair
  of hands (`CallInv`): a waiting one is not held by a lane, so that no lane's result takes its card.
* `EffectsWereApproved == Spec => []EffectsAreApproved` and `TurnsStayHome == Spec =>
  []NoForeignTurn`. `CallInv` carries the first half: two lanes never hold the same call,
  and what waits or is held has taken no effect. For the other, `ConvInv` says
  that every lane which will go on (it asks for no recovery count, or its count is the present one)
  is in the conversation on the screen, and that what is executed was offered for the company it
  goes to; it holds until the company or the conversation is changed under a lane.
* `NothingIsOfferedTwice == Spec => NoSecondOffer`, an action property. While nobody
  meddles one lane is at work (`AloneInv`), so nothing enters the ledger between the guard's
  answer and the card (`LedgerInv`).
* `RequestsArriveWhole == Spec => []RequestsAreWhole`. `WholeInv` says of the history at every
  place of the lane, not only where it asks, which calls may still be without an answer: those that wait for the user
  and those in the lane's own hands; no call is in two turns, and each of them finds its turn.
  Where the lane asks, both sets are empty.

Of the books, for any number of documents, sessions, mixes of kinds, quantities and
operations (`BooksAssumption`; no document is the missing one, and there are finitely many):

* `TradeTypeCorrect == Spec => []TypeOK`. A plan is written to the tables some steps after
  it was made, so `TypeIInv` adds what it must hold by then: the columns each transaction
  takes from it (`Equipped`), and a document of the kind that was read (`Placed`). Sums over
  documents are integers because a fold over a finite set has a running sum (`RunsExists`),
  which stands in for the induction the provers cannot instantiate.
* `SalesJoinOpenShifts == Spec => NoSaleJoinsClosedShift`, an action property: the checkout
  locks the shift that its cart names, and every other step leaves a ticket without a status
  as it is.
* `OffersInvoicedOnce == Spec => []OneInvoicePerOffer`. What links to an offer is an invoice,
  and an invoice gets its link when it is created and never again. `Facts` says what the
  status of a row admits of its columns (`RowsOK`) and what a plan still says of the row it
  was read from (`PlansOK`). `OffersOK` adds the claim: an undisturbed offer is behind no
  invoice while it can be claimed, its claim is in one session's hands, and the session that
  gave up creating the invoice, or does not know whether it did, finds out under the same
  claim. The form, which writes the status by id alone, is the exception the invariant names.
* `LedgerIsTheDocuments`, `InventoryIsControlled`, `PartyBalancesAgree` and
  `EntriesKeepTheirDocuments`, each `Spec => []...` of the invariant a run checks
  (`LedgerMatchesDocuments`, `InventoryControl`, `PartiesAgree`, `NoOrphanEntry`), for any
  number of sessions (`LedgerProofs`). `BooksIInv` is their conjunction, with `NoOrphanEntry` strengthened to
  `AllRooted`: what was booked still *stands* (posted, partly or wholly paid, or a voucher that
  was reversed). It is inductive beside `TypeIInv` and `Facts`. A step works on one document `d`
  or moves nothing (`Squared`), and `Square(d)` says what it must do there: every account moves
  by the change of `d`'s share (`BooksMove`), the inventory account by the change of the stock,
  the customer and the supplier by the change of their control accounts, unless `d` is in
  `disturbed`; the other documents keep their shares (`Spared`). `TotalDiffers` turns that into the
  sums. Each family of kinds has its lemma (`SlipSquare`, `EntrySquare`, `DuesSquare`, `AssetSquare`, ...), and each
  transaction cites it with the figures it posts. `Facts` is needed because a transaction posts
  what was *read*: only when the row still is what the plan says of it, or the document goes
  into `disturbed`, do the two sides agree.
* `LeavesStayWithinEntitlement == Spec => []LeavesWithinEntitlement`, for any number of
  sessions (`SessionProofs`). An approval is decided at its reads and written later, so
  `LeavesIInv` counts as granted (`Granted`) the approved leaves and the pending ones that some session is about
  to approve. The balance that is asked counts all pending and approved leaves, which are at
  least those granted (`ClaimedFits`), so taking up an approval keeps the sum within the entitlement and
  writing it changes nothing, as long as the row still is what was read; no other step grants anything
  (`LeavesKeep`), and the steps of the other families touch no leave at all (`Kept`).
* What `TradeSerial` checks for one session, each theorem `ASSUME Alone PROVE Spec => ...`
  (`SessionProofs`). `Alone` says that there is one session or none, and nothing of documents,
  balances, bounds or failures; two sessions do violate these properties, since the code asks and writes
  in different transactions. What is shown is that this is the *only* way: the gates are enough for a
  session nobody overtakes, through all its intermediate statements, failures, retries and heals.
  * `NoEntryInClosedPeriod` (`ClosedPeriodIsLocked`), `NothingIsDoneTwice`
    (`OncePerDocument`) and `PostedEntriesStand` (`PostedEntryStands`). `Heeds` says of a plan
    that what its reads asked still holds: the periods are open, nothing refers to the
    document yet, the entry is still a draft. `Tally` says of a step that an entry or a
    reversal is the end of somebody's plan, one at a time; so nothing is posted without its gate.
  * `NothingIsOversettled` (`SettledWithinTotal`). `Settling` strengthens it with what a plan
    may still settle: a voucher no more than is outstanding of the document it names, a charge
    no more than an asset has left (`ChargeFits`), an edit no total below what is paid; and
    with what the rows must say for that, that a draft invoice has nothing paid.
  * `NothingOverdrawnAlone` (`NothingIsOverdrawn`), with the policies on (`Allow = {}`) and a
    limit set (`CreditLimit # 0`): a policy that allows is meant to let the balance through.
    `Careful` says that the cash, the credit and the goods a plan was granted are still there
    (`Covers`). A draw may leave from another warehouse than the one that was seen to hold
    enough; it is one of those that hold enough or the fullest (`GoodsGo`). Cash and
    goods that come are never negative ones because the quantities of what brings them are not
    (`Sensible`). A work order asks for no stock in the code, and is the exception the property names.

Of the main process, for any number of calls, servers, saved connections and restarts
(`PoolsAssumption`, `CallsAssumption`):

* `DesktopTypeCorrect == Spec => []TypeOK`.
* `StatementsStayHome == Spec => []StatementsStay` and `WritesAreKeptOnce == Spec =>
  []TransactionOnce`. Neither is inductive: what is kept depends on where a request was sent
  several steps before. `IInv` adds `SessionsHere` (every session was made on the pool there is,
  because each new pool drops them), `SentThere` (a statement in flight, or waiting for the
  healing, has a pool of its session's database; pools never change their target), and that
  keeping is the last thing a call does (`KeptAtTheEnd`, `KeptOnce`, `OkIsKept`). Of a
  transaction only the second holds, since its retry takes the pool of that moment
  (`WritesStayHome` below the runs).
* `TheVaultIsFollowed == Spec => []PoolFollowsVault`, from `VInv`: while commands overlap nothing
  is claimed, and whichever builds a pool last makes the claim anew, `update-config` because what
  it wrote names the server it builds for (`SeenNames`).

Each step is one of few shapes: a call becomes another record and nothing is kept
(`QuietTurn`), a statement is answered (`ClosingTurn`), several calls fail at once
(`ManyTurn`), the calls rest (`CallsRest`); and the pool stays, is ended, or is built
(`PoolsStay`, `EndsGrows`, `BuildsGrows`).

`BatchRunnerProofs` begins with what each statement of `JobQueue` does to one row (`Keeps(i)`, `Forward`), so
that the step proofs cite one lemma per statement.

Model-checked only: liveness (`RunsEnd`, `EventuallyClosed`, `EveryCallIsAnswered`: TLAPS
does not prove ENABLED or fairness here). Every invariant and every action property of the
passing runs is a theorem; the sequential ones of `Trade` for one session on its own.

## 5. Plan

1. *Done*: queue, loop, commands; type, ownership, order and finality theorems; the budget
   invariant, and the refinement of `Approvals`.
2. *Done*: the books (`Trade`), the adapters, the assistant.
3. *Done*: the properties of `Adapters` and `Chat`, the counters, verdicts, orphans and waves
   of the batch, typing, shifts and offers of the books, the ledger, the inventory account
   and the party balances as theorems, and what holds of the books for one session on its own.
4. *Done*: the desktop's main process. Next: the twins of the document handlers as variants of
   the actions of `Trade`.
5. *Done*: the safety properties of `Desktop` as theorems.

## 6. Not modelled

* `revalueForeignBalances` and `applyPaymentToInvoice` (`accounting/api.ts`), which nothing
  calls, and `core/services/postingService.ts`, which no production code calls.
* CRM: updates of rows without rules that span two of them, and the conversion of a lead.
* Authentication, permissions, the relay's statement filter.
* Of the desktop's main process: files, windows, updates, the seed and reset commands, the
  statement filter; the Electron adapter behind its bridge.
* Backup, update check, import and export: file and network I/O.
* Decimal arithmetic of taxes, wages, rates of exchange and average costs.
* The planning of a batch before it is stored (`resolveBatchItems`), the search and scoring
  of `ai/jev`, and everything that only presents data.
