# TLA+ models of the PAE accounting backend

The backend takes accounting documents of Colombian companies, extracts their
transactions with an LLM pipeline, lets a chain of agents turn them into journal
entries, audits those, and posts them to a ledger, from which it builds financial
statements and tax returns. This directory holds TLA+ modules of the parts where a
mistake costs money: how an *ingest job* stages a document and a *process job* drives the
agents, how their output is written to the ledger, what happens to jobs and transactions
when runs are cancelled, time out, are retried, overlap or are lost in a restart; which
taxes are booked; what statements and returns say about the books; and whether the
database schema can be upgraded and rolled back in the orders the revisions allow.

## 1. The system

| Part | State it keeps | Operations | Code |
|---|---|---|---|
| HTTP handlers of process jobs | none of their own | start, audit-confirm, cancel (status, result and trace only read) | `app/api/v1/process.py` |
| Process job coroutine | asyncio tasks, `PROCESS_PIPELINE_SEMAPHORE` (2 slots), one SQLAlchemy session per run | wait for a slot, claim transactions, start the pipeline, time out after 300 s, finish, chain a follow-up job, clean up | `app/services/jobs.py`, `app/workflows/dispatch.py` |
| Agent graph | the `AgentState` dictionary of one run | supervisor, contador, tributario, auditor, db_persist, two terminals | `app/agents/graph.py`, `app/agents/routing/` |
| Write phase | `DB_WRITE_SEMAPHORE` (1 permit) | acquire, cancellation check, pre-persist audit, loop over the batch, duplicate guard, post, lines, close, retry | `app/agents/persist_node.py`, `app/core/retry.py` |
| Tables | `process_jobs`, `transactions_pending`, `transactions_posted`, `journal_entry_lines` | the repository functions | `app/services/db_service.py`, `app/models/database.py` |
| Ingest pipeline | `ingest_jobs`, `ingest_files`, scratch files, `INGEST_PIPELINE_SEMAPHORE`, the company's pathway lock | upload, classify, review, confirm, cancel, merge, reconcile; stages `transactions_pending`; TTL sweep of files | `app/api/v1/ingest.py`, `app/agents/ingest_agent.py`, `app/agents/routing/ingest_router.py`, `app/services/ingest_file_service.py` |
| Inngest workflows | durable steps of the Inngest service | the same jobs as durable functions, confirmation by event | `app/workflows/functions/` (off by default: `workflow_engine = "inline"`) |
| Ledger edits | the tables above | create, patch, reprocess and delete transactions, manual adjustments, refresh of the statements | `app/api/v1/transactions.py` |
| Statements and reports | `financial_statements`, `financial_statement_lineage` | build the first level, derive, upload (Via B), query the ledger | `app/services/financial_statement_service.py`, `app/services/db_service.py`, `app/services/report_builders/`, `app/api/v1/reports.py` |
| Taxes | settings, rates, UVT, minimum bases, special taxes and their accumulators, losses, adjustments, concepts | the arithmetic of the tributario, edits of the tables | `app/agents/tributario_agent.py`, `app/api/v1/settings.py`, `app/api/v1/special_taxes.py`, `app/api/v1/tax.py` |
| Declarations | `tax_declaration_drafts` | preflight, generate, fill in, review, file, reopen | `app/services/tax_declaration_service.py`, `app/services/preflight_service.py`, `app/services/dian_forms/` |
| Schema | the database's tables, columns, indexes, types and policies | upgrade, downgrade | `alembic/versions/`, `app/models/database.py` |
| Parsing, LLM clients, retrieval, chat, exports, auth | caches and external services | | see `PROJECT.json` |

`PROJECT.json` lists every part with its status, and under `hazards` what is hard to
test, each at its line.

**How they interact.** A handler creates a `process_jobs` row and an asyncio task. The
task takes a slot, marks the transactions of the document PROCESSING, and hands them to
a thread of the graph executor. The thread runs the agents and then the write phase,
which talks to the database by itself; in particular it writes the job's status. The
coroutine waits for the thread, 300 seconds at most, and then writes the job's status
*again*. A thread cannot be killed: after a timeout or a cancellation it goes on.

**What makes it hard.** Four parties write `process_jobs.status` (start handler,
coroutine, thread, cancel handler) and three write `transactions_pending.status`. None
of them holds a lock over a read and the write that depends on it; what protects them is
that handlers and coroutines share one event loop (one gunicorn worker, `Procfile`), the
write semaphore, one guarded UPDATE (audit-confirm), and the order of the statuses. The
posted row and its lines are separate commits. Retries start `_run_persist` again after
any of them. An ingest job is in the same position: its pipeline thread, the handlers of
the user and the reconciliation on read all write its status and its files. Statements are
stored copies of the books, built in several commits while the pipeline posts, refreshed
by a handler that swallows its errors. Taxes are recognised in an entry the language model
proposed, by amounts and account prefixes, from tables the accountant edits meanwhile; the
returns then read the same books and other tables.

**What makes it correct.** One document, one ledger entry (no double posting by
re-uploads, retries, zombies, confirmations or restarts); no transaction in two pipelines
at once (true of one slot; with two, as long as no review is confirmed); nothing unaudited is posted unless the user said so; a cancelled job stays
cancelled; jobs and transactions do not get stuck; permits and slots are neither lost nor
invented; the LLM loops end. A company is locked to one pathway before anything of it is
written, and files live as long as their job needs them. Every report of the same books
says the same; a statement does not count what was deleted; a document's taxes are in the
books once, on the right side, and the entry still balances; a return says what the books
say, and what was reviewed is what is filed. Every order of upgrades and downgrades leads
to the schema the code expects.

## 2. The modules

| Module | Models | Depends on |
|---|---|---|
| `PersistNode` | the write phase: one `Run` = one pipeline thread of a job (`first`, or `force` after a confirmed review) | |
| `ProcessJob` | handlers, coroutine, slots, timeout, clean-up, chaining, restart, around the threads of `PersistNode` | EXTENDS `PersistNode` |
| `AgentRouter` | the supervisor's state machine and the agents as it sees them | INSTANCE `PipelineContract` |
| `PipelineContract` | abstract specification: what `jobs.py` relies on when it invokes the pipeline | |
| `IngestJob` | handlers and pipeline runs of ingest jobs, files, pathway lock, staging | |
| `Ledger` | queries of the ledger, the report builders, the pure part of the financial statements | |
| `Statements` | stored statements, their lineage, deletion, reprocessing and refresh | EXTENDS `Ledger` |
| `TaxTables` | the tables of rates and settings, their validity windows and edits | |
| `Accounting` | the entries: journal builder, the contador's corrections, the entries an ingest posts by itself | |
| `Taxes` | the arithmetic of the tributario and the enrichment of an entry | EXTENDS `TaxTables`, `Accounting` |
| `Declarations` | the forms as catalogues, their builders, the gate of the F110, generation and update of a draft | EXTENDS `Taxes`, `Ledger` |
| `Preflight` | what the screen says before a return is generated | EXTENDS `Declarations` |
| `TaxCycle` | documents through the agents to the books, edits of the tables, drafts | EXTENDS `Preflight` |
| `SchemaOps`, `Revisions`, `Models` | DDL operations; each revision as two lists of them; the object model as a set of facts | |
| `Migrations` | databases that apply and undo revisions | the three above |
| `MCPersistNode`, `MCProcessJob`, `MCProcessLive`, `MCStatements`, `MCTaxCycle` | instances for TLC | |
| `PersistNode_proofs`, `AgentRouter_proofs`, `IngestJob_proofs` | theorems | EXTENDS the module, TLAPS |
| `ProcessJob_proofs` | theorems about process jobs, over those of the write phase | EXTENDS `ProcessJob`, `PersistNode_proofs` |
| `OneSlot_proofs` | theorems about a server with one slot | EXTENDS `ProcessJob_proofs` |
| `Ledger_proofs` | theorems about sums over the books: the reports agree, the balance closes with the entries, subsidiary ledgers chain, cash flow and changes in equity close | EXTENDS `Ledger` |
| `Statements_proofs` | theorems about the stored statements, what is derived from them, and the screens | EXTENDS `Statements`, `Ledger_proofs` |
| `TaxCycle_proofs` | theorems about drafts, the screen before a return, and the balance of entries with their taxes | EXTENDS `TaxCycle`, `Ledger_proofs` |

`PROJECT.json` maps each definition to the lines it stands for. A definition named like
its neighbour with a suffix (`AcquireTimesOutReleasing`, `ClaimableUnposted`,
`AcceptCounting`, ...) stands for no code: it is a plausible bug, put in place of the
definition after it to see that a property notices (`mutants` in `PROJECT.json`).

### PersistNode

A step is one commit, or one read on which the next commit depends. `pc[r]` is where the
thread is; the code position behind each value:

| pc | code |
|---|---|
| `agents` | the graph before `db_persist` |
| `acquire` | `DB_WRITE_SEMAPHORE.acquire(timeout=120)` |
| `check` | the cancellation check on a fresh session, then the pre-persist audit |
| `open` | `update_process_job(RUNNING, "persisting")` |
| `next`, `dup` | head of the loop over the batch, `find_duplicate_posted` |
| `post`, `lines` | `create_transaction_posted`, `persist_journal_entries` |
| `closing`, `release` | job COMPLETED / ingest COMPLETED, `finally: release()` |

Abstracted: amounts, accounts and taxes. A transaction is known by its status and its
natural key `NatKey[t]` (company, issuer, day, total), `NoKey` when a field is missing and
the code therefore does not ask for duplicates. `blocked[r]` is the verdict of the
pre-persist auditor. `Rejected(r)` names the places where the code raises a non-transient
error; a line is rejected only for its missing date. `faults` bounds database failures,
each of which may strike before any commit (`TransientFault`), in the swallowed duplicate
query (`DupCheckFails`) or in the best-effort cancellation check (`CheckFails`).
Not modelled here: the tables the write phase reads only; `mode = "ingest"` is in `IngestJob`.

### ProcessJob

`co[r]` is where the coroutine of a run is, `seen[r]` the status of the job in the
identity map of its session, `loop` what the event loop is in the middle of. While `loop`
is not idle no other handler or coroutine runs, but threads do: this is exactly the
atomicity that asyncio gives. Steps within a handler are separate wherever a thread could
tell: the cancel handler reads the status and writes later (`CancelRead`, `CancelWrite`),
the sweep reads PROCESSING transactions and writes ERROR later (`SweepRead`,
`SweepWrite`). `SlotTimeout` leaves the helper thread that waits for the semaphore behind
(`orphans`), because `wait_for` cannot interrupt it; `OrphanAcquires` is that thread
getting the permit. `Crash` forgets coroutines, threads and semaphores and keeps the
tables; `main.py` has no recovery code, so nothing else happens at start-up.

The guard after the pipeline returned (`Finish`) reads `seen`, not the table: the query
goes through the session that has loaded the job before, and SQLAlchemy does not refresh
an instance that is in the identity map and not expired (the last commit of that session
was followed by a refresh).

### AgentRouter and PipelineContract

One action per branch of `route_process` (with the validation node it calls), one per
agent, one per terminal. `hops` counts graph nodes. The LLM's answers are free: an output
can be malformed, name accounts that are not in the PUC, be unbalanced, lack a date; an
opinion can be malformed, approve or reject, independently of the output. Branches of
`route_process` that no state of a process run reaches (unfixable blockers in the last
report, findings for `ingest`, `persist` or `tributario`) are left out: the last report at
that point is always the contador auditor's, whose findings are all fixable by the
contador. `judged` is a history variable: the opinion in the state is about the present
output.

`PipelineContract` has three phases and four outcomes. `AgentRouter` implements it under
the mapping `Phase`, `Decided`: a run persists at most once and as its last act, a forced
run never asks for a review, and every run ends.

### IngestJob

`job[i]` is a row of `ingest_jobs`, `blob` and `scratch` the two places of its bytes,
`staged[i]` how many rows of `transactions_pending` it has, `lock` the company's pathway.
`pc` of a run follows the pipeline: slot, re-hydration of the files, routing,
classification, review or lock, parsing, validation, writer, staging, clean-up. Handlers
are atomic between their awaits; runs are threads and interleave with everything. A run of
the inline engine dies with the process; one of the workflow engine (`Fanout`) is started
again, skips a job in a terminal status, and does not take the semaphore. The outcome of
classification, parsing and validation is a free choice. One company is enough: nothing of
a job depends on another company's.

### Ledger and Statements

An entry's lines are records of account, amounts, day and third party; `Ledger` translates
the queries of `db_service.py` with their own filters and signs (they are *not* reduced to
one another: that they agree is a property) and the pure functions that compute statements
from them. A stored statement (`estados`) remembers the set of transactions that were
posted when it was built, `de`; a derived one remembers its sources. Each commit of a
handler is a step, between which the pipeline may post; handlers do not interleave with
one another because their bodies never await. Every posted transaction has status POSTED,
so the status filters of the queries keep everything; a stored row is built from one
snapshot; the branch of the refresh that re-derives is unreachable under the foreign keys
of the lineage, and is left out.

### TaxTables, Accounting, Taxes

`TaxTables` keeps a validity window per row (`desde`, `hasta`, months instead of days) and
answers a lookup with the *set* of values it may return: when windows overlap and the query
orders by nothing that tells them apart, the database decides. `Taxes` computes one
document's withholdings, IVA and ICA and appends their lines; text is a set of keywords,
amounts are whole pesos with the code's rounding. Collisions of keywords inside words are
not modelled.

### Declarations, Preflight, TaxCycle

A form is a catalogue: casilla -> how it is added up. The builders fill the other casillas
from the ledger, and `build_draft_from_catalog` evaluates the rest. Preflight's checks are
known by their codes. `TaxCycle` runs one document at a time through contador, tributario
and the decision of the supervisor (which node runs after a rejection is `AgentRouter`'s
matter), posts it, and interleaves edits of every table and the life of drafts. An update
of a draft's field is two steps, because the handler reads a draft and writes all its
fields back after other requests may have run; the other handlers are atomic.
`asientos_for_tx` is applied to one transaction per batch.

### SchemaOps, Revisions, Migrations

A schema is a set of facts (table, column with type and nullability, index, unique
constraint, enum label, policy). A revision is two lists of operations; an operation on
something missing, or a creation of something present, breaks it, unless the revision
checks first (`_column_exists`, `IF EXISTS`). Branches may be applied in any order their
graph allows and the last ones undone at any time. Data (seeds, backfills) is not kept,
so a revision that only moves data is empty.

## 3. The runs

| Run | Instance | States | Shows |
|---|---|---|---|
| `persist_node` | 2 jobs x (first, force), 3 transactions (two with one key, one without), 2 attempts, 1 fault | 752,161 | `WriteExclusive`, `OneRowPerKey`, `OkCoversBatch`, `HalfPostedIsFailure` |
| `process_job` | 2 jobs of one document, 2 transactions (one without a key), 2 slots | 3,315,565 | `DispatchOnce`, `FirstBatchesDisjoint`, `PostedNotReclaimed`, `TwiceOnlyByReview`, `ProcessingIsExplained`; the type invariant also bounds the slots in use |
| `process_live` | a Via A and a Via B document with one job each, 1 slot, 1 fault, 1 restart, fairness | 563,389 | `JobSettles`, `PermitReturns` |
| `agent_router` | the limits of the code: 3 attempts, budget 2, 5 failures, 3 rejections | 35,306 | `PersistedIsSanctioned`, `ReviewHasRecord`, `FullAttempts`, `BoundedLoops`, `KeepsContract` |
| `ingest` | 2 uploads of a company, 2 runs, 1 slot, 2 transactions each, 1 request after the uploads, 1 fault or restart, fairness | 482,767 | `LockedBeforeWritten`, `FilesReleased`, `StagedOncePerAttempt`, `LockNeverMoves`, `JobSettles` |
| `migrations` | every reachable set of revisions | 211 | `StepsApply` (`UpgradeApplies` and `RollbackApplies`), `HeadHasModels` |
| `statements` | 3 entries over two years, 3 periods, 4 requests, both pathways | 1,138,379 | `ReportsAgree`, `StatementsCoverLedger`, `DocumentKept`, `LineageKept`, `ReadyCanBeDerived`, `CashFlowCloses`, `EquityRollsForward` |
| `tax_cycle` | 14 documents with the entries an LLM proposes for them, 5 forms, 3 steps, 2 drafts | 889,383 | `EntriesBalance`, `TaxesBookedOnce`, `ReturnsMatchBooks`, `DraftsFrozen`, `PreflightIsHonest` |
| `empty_ledger` | as `statements` | violated | `EmptyLedgerEmptyReports` |
| `pending_index` | as `persist_node` | violated | `OneRowPerPending` |
| `cancel_guard` | as `process_job`, 1 slot | violated | `CancelSurvivesFinish` |
| `slot_leak` | as `process_job`, 1 slot | violated | `SlotsAccounted` |

**What the violated properties show.**

* `CancelSurvivesFinish` is the comment at `jobs.py:392` ("do NOT overwrite it with a
  terminal ... status"). The user cancels while the thread is at work, the pipeline
  returns, the guard reads the cached RUNNING, and the job is COMPLETED, FAILED or waiting
  for a review. The unit test of the guard replaces `get_process_job`.
* `SlotsAccounted`: a job that times out in the queue costs a slot for ever; with two such
  jobs no job runs until a restart, although the user is told to retry in a few minutes.
* `OneRowPerPending` is the 1:1 relation a migration announces and a later one drops
  again: an attempt that fails between the row and its lines is retried, and a transaction
  without a natural key is posted a second time.

* `EmptyLedgerEmptyReports` is the docstring of the refresh after a deletion
  (`transactions.py:505`): with no journal left the statements built from it go. Once a
  period was derived, the foreign keys of the lineage refuse the first DELETE, the
  exception is swallowed, and the reports keep showing the deleted document.

**What the passing properties leave room for.** Some properties are stated with the
exception the code makes, and the exception is part of what they show:

* `LockedBeforeWritten` excuses a database fault, after which `route_ingest` goes on with
  `build_from_scratch` unconfirmed. That Via A and Via B exclude each other
  (`ingest.py:605`) is *not* guaranteed: it is checked at upload, before any run holds the
  lock, and a company with uploads of both kinds keeps what the first run wrote. A
  confirmation, cancellation or merge that meets a running pipeline is overwritten by it.
* `StatementsCoverLedger` and `DocumentKept` hold as long as nothing was derived (see
  above).
* `CashFlowCloses` and `EquityRollsForward` need sources of the same books (`Coherente`): rows
  built one by one while the pipeline posts need not be. They also need books the builders
  can read. Both ask for six-digit accounts: where a six-digit and an eight-digit account of
  one branch are both posted, `_leaf_accounts` drops the shorter as a subtotal. The cash flow
  (`MetodoExplica`) adds up only the groups 11 to 16, 21 to 26 and 31 and dividends on 3705;
  it takes a provision (519) twice, as an expense without cash and as a change of the
  receivables; and it expects depreciation on 159. Equity (`PatrimonioEnComponentes`) has to
  be on the components the statement lists, with no result of the year posted by hand (36,
  which the balance adds itself).
* `EntriesBalance` promises that the tributario keeps the balance of a proposal only where
  the proposal can take its taxes (`Coherente`): the counterparty has a line, no amount is
  negative, and that line holds the IVA exactly when another line already books it. The
  tributario guesses the last by comparing amounts and account prefixes; where the guess is
  wrong the entry is off by the IVA, and it is the pre-persist audit and `validate_balance`,
  not the tributario, that keep it out of the books.
* `ReportsAgree` says "the balance closes exactly if the lines do" of the lines of classes 1
  to 6: the balance sheet drops the others, so an entry that uses class 7 to 9 opens it.
  Nor does the IVA report read all of 2408: it agrees with the account when each movement is
  on the side of the subaccount the report looks at (`IvaPorSuLado`).
* `TaxesBookedOnce` leaves out two kinds of entries whose taxes the code gets wrong: those
  of which the posting keeps only a debit and a credit equal to the document's total
  (`persist_node.py:387`), and sales whose proposal already carries the customer's
  withholdings, as the prompt asks (`prompts/contador.py:53`), which the tributario books
  again.
* `PreflightIsHonest` leaves out a reviewed reconciliation over which a newer one was
  begun: the screen says ready, the generation refuses.
* `StepsApply` leaves out the downgrade of `515fdf0e01b9`, which PostgreSQL refuses.

**Where code and intent differ, met while modelling.** The period of a tax run is never
passed on (`tributario_agent.py:1143`), so old documents get the rates of the day they are
processed. The F300's and F350's gross figures include credit notes. The ICA form looks for
the customers' ReteICA on 2368, the tributario books it on 135517. `get_impuesto_neto_anio`
reads casilla 88, the net tax is 94. A fiscal loss stays available after a return used it
(`register_compensacion` has no caller), and the accumulator of a periodic special tax
counts a document on every run of the tributario. These are single facts of the code,
which the models reproduce; no run is spent on them.

**Bounds.** Two jobs are enough for the interplay of a cancelled or timed-out run and its
successor, of two jobs for a re-uploaded document, and of a chained job; a third job of
one document cannot start before the first two are inactive. Two attempts show the
difference between a retry that remains and one that does not; the code's three add
nothing but length. `process_job` has the two slots of the code, so that two pipelines of a
document really overlap; one slot (`process_live`, `slot_leak`) makes the queue, the
timeout in it and the leaked permit happen with two jobs. Restarts and faults are zero in
`process_job`, where the zombies multiply the states, and one in `persist_node` (faults)
and `process_live` (both); the theorems have no such bounds. In `ingest`, two documents are needed for the lock and the merge, one request and one
fault are each enough to meet any step of a run. In `statements` the three entries cover
every class the builders distinguish, two consecutive years give a prior balance, the
month inside the first year gives overlapping periods, and four requests build, derive,
delete and look again. In `tax_cycle` three steps (`MaxPasos`: documents, edits and drafts
together) are a document, an edit and a return, or a return that others depend on; no step
is taken while a draft is half filled in, which nothing else reads; fields are filled in
in their order, the last two concurrently; the UVT is one peso, so that minimum bases and
thresholds lie between the amounts of the catalogue of documents. `migrations` has no
bound. `Chain` creates a follow-up job only while `Jobs` has an unused one. The jobs are
symmetric in the two safety runs; runs with temporal properties use no symmetry. Deadlock
is not checked: a finished instance has nothing more to do.

**Fairness.** `WF` of each thread's steps, of each coroutine's steps and of the event
loop's steps: the operating system schedules threads, asyncio runs ready tasks, timers
fire. Nothing is assumed of users, of the ingest pipeline, of faults and of restarts.
`AcquireWrite` and `AcquireTimesOut` share one fairness condition, so nothing is assumed
about who gets the permit: a wait of 120 s may always end in the timeout. `JobSettles`
excuses runs with a restart or a database fault. With a restart the property is false, and
so it would be with a fault, because a failure while a job's status is written is only
logged; `hazards` names both. In `ingest`, `WF` of each run's steps and `SF` of taking
the pipeline's semaphore, whose waiters are woken in turn: every holder gives it back. The
other safety runs state no fairness.

## 4. What is proved

Every invariant and action property that a passing run checks is a theorem, except those
under "Only model-checked" at the end of this section.

All theorems hold for every value of the constants that satisfies the named assumptions,
which TLC evaluates on the runs:

| Module | Assumptions | Why the code justifies them |
|---|---|---|
| `PersistNode` | `NoTxAssumption`, `AttemptsAssumption`, `FaultsAssumption` | no transaction is the absent one, at least one attempt (`retry.py`), a bound is a number |
| `ProcessJob` | `JobsAssumption` (the set of jobs is finite), `SlotsAssumption` (at least one slot), `CrashesAssumption`, `IngestAssumption` | slots are counted by the runs that hold one; every job and transaction has a document (foreign keys) |
| `AgentRouter` | `RouterAssumption` | the limits are natural numbers, attempts and failures at least one |
| `IngestJob` | `IngestNat`, `IngestSets` (the set of runs is finite) | `StagedOncePerAttempt` counts runs; a server has started finitely many at any moment |
| `Statements` | `AjustesAssumption`, `AsientoAssumption`, `PeriodosAssumption`, `ViasAssumption`, `PedidosAssumption` | adjustments are transactions; a transaction has finitely many lines, with codes of digits (at most nine) and numbers as amounts, of either sign; days are numbers; a company is of a pathway |
| `TaxCycle` | `TablasAssumption` (at most one UVT of a year to start with), `TasasAssumption`, `DocumentosAssumption`, `PeriodosAssumption` | the year is the table's key; rates, amounts and days are numbers, rates and amounts of either sign: the settings page asks for no `ge=0`, and what the model proposes is any list of lines |

So there may be any number of jobs, transactions and documents, any assignment of keys,
any retry limits, any number of slots, faults and restarts.

**`PersistNode_proofs`.** `PersistTypeOK` (`TypeCorrect`), `WriteExclusive` (`Exclusion`),
`OneRowPerKey` (`NoDuplicates`), `OkCoversBatch` (`OkIsHonest`) and `HalfPostedIsFailure`
(`NoHalfPosting`) are consequences of the inductive invariant `PersistInv`:

* `PermitHeld` ties the permit to the write phase: it is taken exactly when one thread is
  in it. Without it a thread could release twice and exclusion would not be inductive.
* `HasTx`: a thread at `dup`, `post` or `lines` has a current transaction of its batch.
* `KeyStillFree`: at `post`, the key of the current transaction has no posted row. This is
  the stale read of the code (the guard asks, another statement inserts), and it is
  inductive only because of `PermitHeld`: nobody else can post in between.
* `RowPosted`: at `lines`, the row of the current transaction exists.
* `DoneIsKnown`: what a run has dealt with (`batch \ todo`) is covered, which is
  `OkCoversBatch` before the result exists.
* `HalfPostedExplained`: a row without lines is the current one of its run, or of an
  earlier attempt, or its run failed. `NoResultYet`: a run in progress has no result.

The proof of the step is done once for the steps of a thread (`ThreadStepInv`, one case
per action), so that modules which compose threads with other parties can reuse it, and
then for the callers.

**`AgentRouter_proofs`.** `RouterTypeOK`, `PersistedIsSanctioned`, `ReviewHasRecord` and
`FullAttempts` follow from `RouterInv`: an opinion that the supervisor reads after the
auditor is about the present output (`OpinionIsFresh`); the shared counter is zero where
an agent gets a new output (`CountIsReset`); a run on its way to the review has its record
and is not forced (`ReviewIsRecorded`); outcomes exist only at the end (`EndsOnce`);
rejections never exceed what the budget lost (`BudgetCounts`). `KeepsContractSafely` proves
that initial states and steps of the graph are those of `PipelineContract` (or stutter).

`BoundedLoops` (`LoopsAreBounded`) bounds three nested loops: attempts of an agent within
the rejections of an output within the rounds of the contador. The argument is a variant
that is an invariant: `WithinBound` gives every node of the graph the number of nodes that
may still follow in this round, from the attempts left, and says that the hops made, these,
and a whole `Round` for each unit of the budget fit into `HopBound`. The bound is tight
with the limits of the code (45 nodes).

**`IngestJob_proofs`.** All safety properties of the `ingest` run are theorems:
`IngestTypeOK` (`IngestTypes`), `LockedBeforeWritten` (`LockFirst`), `FilesReleased`
(`BytesReleased`), `StagedOncePerAttempt` (`StagedOnce`) and the action property
`LockNeverMoves` (`LockOnce`). The last needs no invariant: every write to the lock is the
conditional update. The others follow from `IngestInv`:

* `JobsExist` and `AbsentIsBare`: a run works on a job that exists, an open upload is of one
  that does not, and a document that was not uploaded has no bytes and no rows. Handlers
  write the status whatever it was, so the other parts need to know whose job it is.
* `PathKnown`, `LockTaken`: a confirmation names a pathway and a run takes it to the lock;
  so behind the router the company is locked, unless a fault led there. This is what makes
  `LockedBeforeWritten` inductive.
* `BlobOwned`: the bytes of a job that has ended, *or that a status query may end*, belong to
  a run that will come to its clean-up. The second half is why `FilesReleased` is not
  inductive by itself: `Reconcile` completes a job from outside, and only a job with staged
  rows, which a run still owns.
* `PermitHeld`, `StageFits`: at most one run stages, and what it has still to stage fits
  into the write phases begun. `OneStep`: the engine has one run of a document, so that a
  restart, which sends it back to its start, costs one write phase and not several.
  `AttemptsExplained` counts the runs that have begun their write phase.

The lemmas about footprints (`ThreadFootprint`, `HandlerFootprint`) say once what a step
leaves alone; each part of the invariant then has a lemma with one case per kind of step.

**`ProcessJob_proofs`.** All safety properties of the `process_job` run are theorems:
`ProcessTypeOK` (`JobTypes`), `DispatchOnce` (`NoDoubleDispatch`), `FirstBatchesDisjoint`
(`FirstRunsDisjoint`), `PostedNotReclaimed` (`NeverReclaimed`), `TwiceOnlyByReview`
(`PostedTwice`), `ProcessingIsExplained` (`NothingStuckUnexplained`); and `WritesUnderJobs`
says that what `PersistNode` promises under its reduced callers it promises under the real
ones, restarts included. The first four and the last follow from `JobInv`:

* `JobTypeOK` contains the invariant of the write phase without its callers (`WriteInv`), and
  `ThreadStepWrite` is reused for the steps of threads: handlers and coroutines only write
  statuses (`StatusesOnly`) and start threads.
* `SlotsInv`: whoever drives a pipeline holds a slot, and a helper is only left behind by a
  run that is over. Every step moves the coroutines in one of eight ways (`CoMove`).
* `DispatchInv`: a job that does not exist was not dispatched, a review is asked for only by
  the first run and when that is over, so that the guarded UPDATE of the confirmation
  succeeds once; what the event loop is in the middle of belongs to a run it drives.
* `ClaimInv`: what a run was given is not pending any more, and what a first run has selected
  but not yet marked is in nobody's hands (`Selected`): the stale read between the selection
  and the mark is harmless because nothing else of the loop runs and no thread makes a
  transaction pending.
* `RowInv`: rows are of runs that were launched; a row without lines has an explanation,
  unless a restart ended its run.

`ProcessingIsExplained` speaks of the moments when the loop is idle; the invariant behind
it, `ReasonInv`, has to name a reason at every moment (`HasReason`). A run owes the
transaction (`StillOwed`: its thread has still to deal with it, or has ended in an error or
a review); a review waits for it; the loop is about to sweep it, or has just claimed it; or
one of the three known reasons. A thread that will find its job CANCELLED owes nothing: the
sweep of the cancellation must then have it. That a sweep leaves nothing behind is `Swept`
in `FrameInv`: between the read of the PROCESSING rows and their write, threads only take
transactions out of that status and nothing is claimed. That a run which ends well owes
nothing is `ChainAfterOk`; that the coroutine never takes the exit for CANCELLED jobs, which
would sweep nothing, is `SeenRunning`: the very staleness that `CancelSurvivesFinish` refutes.

**`OneSlot_proofs`.** With `Slots = 1` no transaction is in two pipelines at once
(`OneSlotBatches`) and no two runs post the same one (`OneSlotPosts`), keys or not. The
argument (`SerialInv`): a thread that nobody awaits any more has only transactions that are
POSTED or ERROR, because the clean-up of its run swept the document before it gave the only
slot back; so what the next run selects is in nobody's hands. With the two slots of the
code this fails, and the `process_job` run has states where it does: a job is cancelled, its
pipeline returns and overwrites that with a review, the user confirms, and the forced run
claims what a second job of the document has PROCESSING. `TwiceOnlyByReview` is what remains.

**`Statements_proofs`.** `StatementsTypeOK`, `LineageKept` (`LineageStands`), `DocumentKept`
(`DocumentIsKept`), `StatementsCoverLedger` (`StatementsFollowLedger`) and
`ReadyCanBeDerived` (`ReadyIsAccepted`) follow from `StatementsInv`. Rows go only in sets
that leave no derived statement behind (`Borrable`), so the sources of a derived row stay.
A statement that still counts a deleted transaction is one the refresh under way has yet to
rebuild (`PorRefrescar`); a refresh that a derived statement aborts is why the property
speaks of ledgers without any. `ReadyCanBeDerived` relates two queries that look for the
same rows in different ways, and needs that a lookup has a first row: `Ledger_proofs` finds
the latest of a bounded set of dates (`Maximo`) from the well-foundedness of inclusion of
finite sets, which needs no induction.

`CashFlowCloses` (`CashFlowsClose`) and `EquityRollsForward` (`EquityRolls`) speak of the
derived row a step adds. `NuevasSon` says which row that is, from which sources; a first-level
row is what a builder made of the lines that were posted then, and an uploaded one adds
subtotals to it, which `leaf_accounts` takes out again (`HojasDeFila`). `FuentesCoherentes`
then says that opening and closing balance, income statement and journal are all of one set
of lines, and the rest is `Ledger_proofs`:

* A balance is read through its leaves, which are the debit or credit balances of six-digit
  accounts (`SaldosDelDiario`, `HojasDelDiario`). The difference of a sum of leaves between two
  balances is what the journal moved under the same prefixes (`MueveHasta`, `Delta`).
* `ElFlujoCierra`: the fourteen figures of the indirect method, cash itself among them,
  partition the entries of the period (`ClaseDeParte`, `EntradasPorPartes`). So the cash the
  statement explains and the cash the balances show differ by debits less credits of these
  entries, which is at most one peso, and the check tolerates no less than that.
* `ElPatrimonioRueda`: components are groups of class 3, their movement is the difference of
  leaves, and what is in the equity of the balance without being on an account of class 3 is
  the result of the year, the row 360505 the builder adds (`PatrimonioDelDiario`).

**`Ledger_proofs`, and `ReportsAgree`.** `ReportsAlwaysAgree` holds for any entries, accounts,
catalogue, days and periods; it combines three theorems about any set of lines: the reports
of one period are the same sums (`ElPeriodoCuadra`), a balance sheet closes exactly when the
lines it counts do, wherever catalogue and credit balances move an account (`ElBalanceCuadra`),
and subsidiary ledgers chain (`LosAuxiliaresEncadenan`). A sum is `SumFunctionOnSet` of the
community modules, a fold: a recursive function under a `CHOOSE`. The library's induction
theorems cannot be used, so the argument is by hand:

* `InduccionFinita`: a family of subsets of a finite set that holds the empty set, and with a
  set what one more element makes of it, holds the whole. The family is a set, written out
  (`{T \in SUBSET S : ...}`), never an operator; the proof takes a smallest subset outside it.
* `AcumuladaExiste`, `AcumuladaUnica`: the recursive function exists and is unique, so the sum
  satisfies its equation (`SumaElegido`); then that any element may be taken first
  (`SumaDesde`), and the sum over a disjoint union, of a difference, over a partition and
  under a filter (`SumaUnion`, `SumaMas`, `SumaPorPartes`, `SumaFiltrada`).
* `SaldosDeudores`, `SaldosAcreedores`: balances per account add up to what the lines move;
  `TotalDeClase`, `TotalesSon`, `SeisClases` bring this to the six classes, `BalanceCierra` to
  assets against liabilities, equity and profit. What moves an account between classes 1 and
  2 keeps their difference, which is all the proof needs to know of the catalogue.

**`TaxCycle_proofs`.** `DraftsFrozen` (`DraftsAreFrozen`): a status goes one step at a time,
nothing is reviewed with a casilla pending, and a reviewed or filed return changes only
through an update that had read it as a draft before, the one gap the code leaves. It needs
that every update under way did read a draft with its casilla pending (`Ediciones`).
`PreflightIsHonest` (`PreflightTellsTheTruth`) relates the screen's checks to the
guards of the generation: they compare the same revenue with thresholds from two lookups of
the UVT, which are the same number because a year has one (`UnaUvt`, kept by every edit of
the tables).

`EntriesBalance` (`EntriesAlwaysBalance`) is about every proposal, of any length, and any
rates. Its first half is arithmetic over a sequence of lines: the counterparty line (`Mayor`)
changes by IVA less withholdings, the lines appended carry the same on the other side, and
whether the IVA was in that line or in a line of its own is what `Coherente` settles; a credit
note mirrors all sides, special taxes come in pairs. The difference of debits and credits is
the same *number* before and after, not within a tolerance. The second half is that every way
to the books ends in `validate_balance`: built from the contador's entry, from the ingest's
amounts, or from part of a batch. Both follow from `BooksInv`: the tables hold whole amounts
after every edit (`TablasEnteras`), a run under way has an entry that is the proposal or the
proposal with its taxes (`RunOK`), and each posted entry has its peso (`LibroOK`).

**Only model-checked.**

* *Liveness*: `JobSettles` (of process and ingest jobs), `PermitReturns` and the termination
  half of `KeepsContract`.
* *What particular entries say*: `TaxesBookedOnce`, `ReturnsMatchBooks`. They name accounts:
  which lines of an entry are a tax, which casilla of a form an account feeds. For free
  proposals they are false
  (a contador may write anything on 240802), so they are checked for the catalogue of entries
  and documents of the instances, with every tax table and order of steps the runs reach.
* *`StepsApply` and `HeadHasModels`* speak of concrete lists of revisions: TLC visits every
  state there is, and there is no parameter a theorem could generalise.

## 5. What is not modelled

* *The Inngest process workflow* (`workflows/functions/process_pipeline.py`): its steps, its
  retries and its hour's wait for the confirmation event belong to an external service and
  are off by default. The known hazards (an event sent before the wait begins is lost, the
  step runs without the pipeline's semaphore) are in `PROJECT.json`. The ingest workflow is
  modelled.
* *Patches of single fields* of a staged transaction: the natural key of a transaction is
  a constant of `PersistNode`, on which its proofs rest.
* *Batches of several transactions* through the tributario, and the exact day within a
  month, in `TaxCycle`; retry budgets there (they are `AgentRouter`'s).
* *The suspense account recovery of the contador*: it needs an unbalanced entry to be
  rejected by a validator that only warns (`models/agent_outputs.py:276`).
* *Two server processes*: the deployment runs one worker (`Procfile`, `app.yaml`), and the
  atomicity of the handlers rests on that.
* *Text*: prompts, messages, parsing, keyword collisions, formatting, layout of forms,
  exports, certificates and exogenous reports, the calendar of deadlines (a table of days
  by the last digit of a NIT).
* *Read-only screens* of Via B (`via_b_service.py`), dashboards, chat and retrieval.
* *External services*: LLM providers, the vector store, the identity provider, object
  storage. Their answers are free choices where a model depends on them.

## 6. Plan

1. *Proofs*: which transactions a restart strands (`ReasonInv` for the states after restarts
   and faults); `TaxesBookedOnce` for every proposal that puts no tax on a tax account of its
   own, on the lemmas about sums that `EntriesBalance` has brought.
2. *Staged transactions as they are edited*: the natural key as state of the write phase,
   with its proofs.
3. *Inngest*: the process workflow as another implementation of the abstract job, if it is
   ever switched on.
