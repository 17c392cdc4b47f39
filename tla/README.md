# LedgerByte: specifications of the accounting core

TLA+ specifications of the API in `apps/api` (NestJS services over PostgreSQL
through Prisma) and of the arithmetic in `packages/accounting-core`. They model
what happens to the rows when requests interleave, fail half way, or follow each
other in an order nobody wrote a test for. TLC checks them on small instances;
TLAPS proves the most important of them for every number of documents, workers
and amounts.

- [The system](#the-system)
- [How requests are modelled](#how-requests-are-modelled)
- [Modules](#modules)
- [Runs](#runs)
- [What the violation run shows](#what-the-violation-run-shows)
- [Proofs](#proofs)
- [Not modelled](#not-modelled)
- [Plan](#plan)

## The system

A request reaches a controller, which calls one service. The service reads rows,
checks them, and then writes inside `prisma.$transaction`, calling other services
with the transaction it holds: the number sequence for a document number, the
fiscal-period guard for the posting date, the accounting service's tables for
the journal. There are no queues between them: components interact through
calls and through shared rows. PostgreSQL runs at its default isolation, READ
COMMITTED, and many requests are served at a time. A few workers (recurring
transactions, email retries) poll tables on a timer.

| component | state | operations | hard part | what makes it correct |
|---|---|---|---|---|
| sales invoices | status, total, balance due (base and transaction), journal id | create, update, finalize, void, remove | finalize works from an earlier read; void races payments | balance = posted less applied; posted invoices are frozen; void leaves nothing applied |
| customer payments | status, received, unapplied (base and transaction), direct and later allocations | create, applyUnapplied, reverseUnappliedAllocation, void | two claims on two tables; idempotency keys; void counts before it claims | every unit of money is unapplied, allocated or refunded, once |
| credit notes | status, total, unapplied, original invoice, allocations | create, update, finalize, void, remove, apply, reverseAllocation | unlocked aggregate over the other notes; cascaded deletes | every unit is unapplied, allocated or refunded, once; the AR account ties out |
| customer refunds | status, source, amount | create, void | races allocation of the same unapplied amount | as for payments and credit notes |
| journal entries | status, date, totals, lines, reversal link | create, update, post, reverse | update, post and reverse write by id | posted lines never change; one exact reversal at most |
| journal triggers | none | freeze of posted lines | the last line of defence behind stale reads | the same |
| fiscal periods | status, start and end | create, update, close, reopen, lock, posting-date guard | guard and writes are not one step | disjoint; locked for good; closed periods take no posting |
| number sequences | prefix, next number, padding | next, update | row lock of an open transaction; rollback; stale settings | no number lost, the next one free |
| accounting arithmetic | none | conversion, settlement split, totals, reversal lines | rounding to four decimals, final residual | partial settlements sum to the captured base |
| foreign exchange | rates, carrying balances, revaluation runs | capture, settle, revalue, reverse | settlement races revaluation | carrying basis conserved |
| supplier payables | purchase bills, debit notes, payments, refunds | mirror of receivables | the same races in a foreign currency, two balances per row | AP account ties out; parts sum to the whole in both currencies |
| accounting close | close cycles with versions and keys | prepare, review, close, lock | retried and competing commands | a locked cycle matches its period |
| bank statements and reconciliation | imports, transactions, matches, reconciliations | import, match, categorize, submit, approve, close, void | matching races closing | a closed reconciliation is frozen |
| bank movements | transfers, deposits, cheques, card settlements | post, match to a statement row, unmatch, void | rows freed by id | a matched document has the row, and alone |
| inventory, purchasing, sales fulfilment | stock movements, order and receipt quantities | receive, issue, return, match, adjust | quantities issued against the same line | stock never below zero; no line over-received |
| fixed assets | assets, depreciation lines, disposals | run, post, reverse | a period depreciated twice | accumulated depreciation bounded by cost |
| recurring transactions | templates, executions, leases | claim, run, retry | lease expiry, duplicate workers | one document per occurrence |
| email | outbox rows, attempts, locks | queue, claim, send, retry, provider events | crash between send and mark, stale locks | delivered once unless an answer or a lock was lost |
| webhooks | outbox of events | enqueue, deliver, retry | as for email | each event delivered or dead |
| authentication | sessions, refresh tokens, attempts | login, refresh, revoke | reuse and throttling | revoked means unusable |
| billing | subscriptions, provider events | start, change, cancel, webhook | duplicate and reordered events | state follows the latest event |
| ZATCA, UAE e-invoicing | invoice chain, submissions | sign, submit, retry | chain order | the chain has no fork |
| contacts, reports, settings, documents, audit log, tooling, web client | read models and single rows | query, edit | none of protocol | out of scope |

`PROJECT.json` lists every component with its sources and the hazards of the code
at the line where they bite.

## How requests are modelled

A *worker* is a request being served. A handler that decides on something it read
before its writes, and that may have changed by then, is a `...Read` action, which
stores what the handler keeps in `request[w]`, and a `...Commit` action, which does
all the writes of the transaction. Claims (`updateMany` with a `where` that repeats
the condition, then a test of `count`) lock the row until commit, so claims and
the writes after them are one step and their conditions are conjuncts of the
commit. A handler whose claims repeat everything it read is one action. `Abort`
ends a request anywhere before its commit with the rows unchanged: a thrown
exception, a closed period, a lost connection, a deadlock victim. The loss of a
response after the commit needs no action, since the client keeps no state: a
repeated request is another request with the same key, refused by the unique
index on the idempotency key.

Writes by id, without a claim, are where the code relies on luck. Where a property
fails because of them the property names the exception instead of the model
leaving the write out: by a ghost variable that records that such a write passed
over a change it had not seen (`excuse` in EmailOutbox, `raced` in
BankReconciliation, `unseen` and `raced` in Ledger), or by naming the rows left behind (`ControlAccountTiesOut`).

Fairness is stated in one module. The recurring worker is called by a cron of
the deployment (`vercel.json`, every five minutes) for as long as the system runs, so an
invocation that can go on, goes on: `WF` of `WorkerNext`, of `Execute` and of
`RecordFailure` for each worker, and of the backoff of each run, which is time
passing. Nothing is assumed of requests. Invocations may die at any step; the
liveness properties ask that they do not do so for ever (`WorkersSurvive`), because
one that always dies before it writes proves nothing about the code. The other modules
have only safety and action properties: nothing in them has to happen without a
client asking for it.

`CHECK_DEADLOCK` is off where every id of an instance can be used up and every
document voided or every number issued, after which no request is left to make; it
is on for the ledger, the recurring runs and the e-mail outbox.

## Modules

**Totals** sums amounts as the number of their units, without recursion, so that
the provers can use the theorems about cardinality.

**Receivables** is the customer side: invoices, payments, credit notes and refunds,
with the net debit `receivable` their journals leave on the AR control account. Its
actions carry the names of the service methods. A row keeps the columns its guards
read; `posted` is the amount of the journal that finalize posted and no void reversed. `"DELETED"` rows
keep their last contents for the properties; `"CASCADED"` allocations went with
their credit note by `ON DELETE CASCADE`. Documents are in base currency at rate
one and belong to one customer: `SourceBase` and `SettlementBase` are
`allocateForeignSettlement` there, including the *final* allocation that takes
the whole residual balance.

**Ledger** is the general ledger: journal entries with the trigger
`freeze_posted_journal_line` and the unique index on `reversalOfId`, and the fiscal
periods with their posting-date guard. A balanced set of lines is the signed amount
it moves and the total of one side; a reversal swaps its sides. `update` deletes the lines
and creates its own in two statements, so that of two updates of a draft the second may
leave the lines of both (`LinesAfter`). `post` and `reverse` take three steps: read,
`CheckPostingDate`, commit. `unseen[w]` is what others wrote, since the reads of `w`, over
what its write relies on: the lines or the date of its entry, or the periods. `raced` are
the entries whose header, and the periods whose dates, were last written over such a
change; the next write that has seen everything takes a row out of it again.

**NumberSequences** is the number sequence of one scope. `Issue` increments the row
inside a transaction that is still open: nobody else sees it and the row is locked
until `CreateDocument` commits or `Abort` rolls back. A document number is the
length and value of its digits, so that prefixes that end in digits and different
paddings are compared as the text is. `skipped` is a history variable, the numbers a
setting jumped over. Its specification is `NumbersSpec`, so that one module can extend it
together with EmailOutbox.

**OpenItems** is what a subledger promises, without reads, rates or kinds of
document: an item opens with an amount and closes once; a use takes amounts from
open items, never more than remains, and is given back once and in full.
Receivables and Payables implement it (`ImplementsOpenItems`): invoices, bills,
payments and credit notes are items, payments (for their direct allocations), later
allocations, credits and refunds are uses. `ItemsTaken` is the refinement mapping.

**Payables** is the supplier side in a foreign currency. A row has its open amount
twice, in the transaction and in the base currency; `SplitOf` is
`allocateForeignSettlement` with its rounding to four decimals (counted in units of
the last one), and a revaluation gives a bill a *carrying layer*, a second base amount
that settlements consume and reversals restore. A revaluation is of the open bills of its
day: `date` of a bill is the later of its bill date and its finalization, and later bills
are left out (`Eligible`). The AP control account `payable`
is what the journals post.

**Recurring** is the schedule of recurring transactions: templates, runs of their
occurrences, cron invocations that prepare due occurrences and execute pending runs,
manual runs and the legacy route. Every write is one SERIALIZABLE transaction; what a
process selected before it may be stale, its commit may go unanswered, and it may die
anywhere. A draft a run generates is counted in `documents`.

**EmailOutbox** is the e-mail outbox with the retry worker that claims rows under a
lock that goes stale, the older processor that takes no claim, and the provider with its
events. Time is relative, so it needs no bound.

**BankReconciliation** is the bank statement: import, match, categorize and ignore of
rows, the deposit batch matched to a row, and the reconciliation that goes from draft
over approval to closed, records the settled rows of its period and locks them.
`raced` says which kind of unseen change some write has passed over; `Tolerated` are
the races after which an instance goes on.

Receivables and Ledger are separate because the subledger handlers write journals
that are posted when they are created. A journal reversed by hand under its document
is the composition's subject (see the plan).

| module | code |
|---|---|
| Receivables | `sales-invoices/sales-invoice.service.ts`, `customer-payments/customer-payment.service.ts`, `credit-notes/credit-note.service.ts`, `customer-refunds/customer-refund.service.ts`, `allocateForeignSettlement` of `packages/accounting-core` |
| Ledger | `accounting/accounting.service.ts`, `fiscal-periods/*.ts`, the FX amounts migration (trigger), `getJournalTotals`, `createReversalLines` |
| NumberSequences | `number-sequences/number-sequence.service.ts` |
| Payables | `supplier-payments/supplier-payment.service.ts`, `purchase-bills/purchase-bill.service.ts`, `purchase-debit-notes/purchase-debit-note.service.ts`, `foreign-exchange/fx-carrying-balance.service.ts`, `foreign-exchange/fx-revaluation.service.ts`, `allocateForeignSettlement` |
| OpenItems | no code of its own: what both subledgers promise |
| Recurring | `recurring-transactions/*.ts` and its cron controller |
| EmailOutbox | `email/email-retry-worker.service.ts`, `email/email.service.ts`, `document-delivery` |
| BankReconciliation | `bank-statements/bank-statement.service.ts`, `bank-deposits/bank-deposit.service.ts`, `bank-reconciliations/bank-reconciliation.service.ts` |
| ReceivablesProofs, PayablesProofs, OpenItemsProofs, LedgerProofs, OutboxAndNumbersProofs, RecurringProofs, BankReconciliationProofs, TotalsProofs | theorems about the modules above; OutboxAndNumbersProofs has those of EmailOutbox and NumberSequences |
| MCReceivables, MCPayables, MCLedger, MCNumberSequences, MCRecurring, MCEmailOutbox, MCBankReconciliation | symmetry sets and small values |

## Runs

Passing runs:

| run | instance | question |
|---|---|---|
| receivables_payments | 1 invoice, 2 payments, 2 later allocations, 1 refund, 2 workers, amounts 1..3 | Can two requests take, or give back, the same money? `InvoiceConserved` and `PaymentConserved` say that every balance is what was posted or received less what is active against it. `PostedInvoicesFrozen`: does a stale update reach a finalized invoice? |
| receivables_all | one row of each kind, 2 workers, amounts 1..2 | Every handler against every other. `ApplicationsBacked`: does something active rest on a voided document? `CreditNoteConserved`: is a credit spent twice? `TypeOK`: does a balance go below zero? `ControlAccountTiesOut`: is the AR account the sum of the open documents, but for what a void race leaves? `ImplementsOpenItems`: is every handler one step of the abstract subledger? |
| payables_races | 1 bill, 1 payment, 2 later allocations, 1 debit note, 1 revaluation, 2 workers, amounts 1..2, rates that round | `TypeOK`, `BillConserved`: does anything go below zero, does a bill's balance agree in both currencies with what is in force against it, in parts and in full? `ControlAccountTiesOut`, `ImplementsOpenItems` as above. |
| payables_two_bills | 2 bills, 1 payment, 1 later allocation, 2 revaluations on 2 days, 2 workers, amounts 2 and 5 | `PaymentConserved`: do the rounded parts of a payment over two bills stay within the whole? `LayerConserved`: does a carrying layer follow the settlements under it, down to nothing? `RevaluationsStand`: is a revaluation reversed only while no later one and no settlement was built on it? |
| ledger_races | 3 entries, 1 period, 2 workers, lines of -2, or -4 where two updates leave both | `PostedLinesFrozen`, `ReversalMirrors`, `ReversedOnce`: whatever races an entry meets, lines of posted entries are unchanged and a reversal is unique and exact. |
| ledger_unseen | 1 entry, 2 periods, 2 days, 2 workers, lines of 1, or 2 where two updates leave both | `PeriodsDisjoint`, `TotalsMatchLines`, `ClosedPeriodsBlockPostings`: do periods overlap, headers disagree with their lines, or postings reach closed periods, other than by a write over something unseen? |
| numbers_races | 3 documents, 2 prefixes, 2 workers, numbers up to 4 | `NoGaps`: is a number lost when a transaction fails or a setting races it? |
| recurring_worker | 1 template over edited schedules, 1 worker, 1 legacy request, 2 days, 2 attempts | `DocumentsMatchRuns`: is an occurrence drafted twice? `NoOccurrenceLost`: does the schedule pass one without a row? `ScheduleAheadOfRuns`: can an edit make preparation fail for ever? |
| recurring_liveness | 1 template, 1 key, 1 worker called again and again, 1 request | `RunsSettle`, `DueOccurrencesPrepared`: does every pending or retriable run end, and is every due occurrence taken up? |
| email_runs | 1 row, 2 workers, 1 processor, locks stale after 1 tick, runs of 2 | `DeliveredOnce`, `LocksReleased`, `ResultsOfClaimHolder`, `BouncedNotRetried`: duplicates, leaked locks, results of a run that lost its claim, bounces between list and claim. |
| bank_races | 1 row, 1 import, 1 deposit, 2 reconciliations, 2 days, 2 users, 2 workers, up to the first race | `CategorizedOnce`, `DepositsMatchRows`: is a row settled twice, or its deposit left without it? `ClosedPeriodsDisjoint`, `ClosedRowsRecorded`: are closed periods disjoint and frozen? |

Why these bounds are enough to be interesting: a race in this code is between two
requests on one row, hence two workers; a third id of the raced kind lets a
reversed or voided row be replaced. Amounts up to 2 or 3 make partial, exact and
excess claims all occur: with 1 only, an application is always the whole balance.
Two days are the fewest on which periods can be disjoint, share one day or contain each
other. Numbers up to 4 let a setting fall below, on and above the
next number. In `payables_races` the bill of 2 is settled by one amount, or by 1 and then
1, where rates that are no multiple of `RateScale` leave a residual between the partial
and the final settlement; its second bill date lies after the day of the revaluation.
Two bills are the fewest a payment splits over, and two days the fewest for a revaluation
on a revaluation. In `payables_two_bills` a payment of 5 at 0.25 is worth 1, and so is each
of its parts of 2, so that the second part of the payment is capped at what is left; a bill
of 4 is settled in full by two parts of 2, with a carrying layer or without, and a
layer can be restored by the reversal of the run after it. That a later bill is left
out beside one that is revalued, and that payments of several amounts meet more than one
layer, needs larger instances; the theorems have them. A lock that goes stale before a run ends needs only that a run may last
longer than `Stale`. In `bank_races` the row lies on the first of two days, so that a
period holds it, ends on it, or misses it; two reconciliations are the fewest that
overlap. There the run stops at the first race (`Tolerated = {}`): what may happen
after a write has passed over a change is not what the properties are about, and
would be most of the states. The types of the models have no bound, and what the proofs establish
holds for any instance.

Each property of a passing run has a mutant, a plausible bug in the same code (a
claim by status alone, a missing reversal journal, an index left out), under which
the same run fails.

### What the violation run shows

`recurring_last_occurrence` checks "End dates complete a schedule after its final
occurrence" (`docs/accounting/RECURRING_SCHEDULE_AND_TIMEZONE_POLICY.md:15`). Preparing
the last occurrence sets the template `COMPLETED` in the transaction that creates the
run; execution wants an `ACTIVE` template, and the recovery query lists the runs of active
templates only. The final run of every schedule with an end stays `PENDING`.

### What the models show besides

These interleavings are behaviours of the models; the properties above name them as
exceptions.

- void of a payment counts later allocations and refunds before it claims the payment
  (`customer-payment.service.ts:1187`): one that commits in between stays posted on a
  voided payment.
- finalize claims an invoice by its status alone (`sales-invoice.service.ts:706`): an
  update in between leaves the journal and balance of the old total.
- a credit lowers `balanceDue` and not `transactionBalanceDue`
  (`credit-note.service.ts:309`): the next final allocation books the difference as
  realized FX although nothing is foreign.
- `create` of a supplier payment prices allocations by bills it read before it locked them
  (`supplier-payment.service.ts:541`): two payments of half a bill are both priced as
  partial, and the bill, paid in full, may keep a base residual nothing can settle.
- the posting-date guard reads without a lock (`fiscal-period-guard.service.ts:19`): an
  entry can be posted after its period closed. Periods created together can overlap; the
  guard then asks the one that starts first, which may be open when the other is closed.
  One locked while it is being reopened is open again.
- two updates of one draft can leave the lines of both under the totals of one
  (`accounting.service.ts:145`), and `post` writes the totals it read over those of an
  update in between.
- an update without lines changes the date of an entry posted since
  (`accounting.service.ts:148`), and a later `post` writes `POSTED` over `REVERSED`.
- a setting checked against a stale row lowers a sequence onto issued numbers
  (`number-sequence.service.ts:196`): every later create fails on the unique index.
- credit notes validated together can exceed their invoice, and `remove` deletes by id a
  document finalized since it was read.
- the e-mail processor without claims sends a row a worker holds (`email.service.ts:782`).
- ignoring a row, voiding an import and releasing a deposit write statement rows by id
  (`bank-statement.service.ts:592`, `bank-deposit.service.ts:477`): a row categorized
  since is unmatched again and can be categorized, and journalled, twice. A deposit posted
  again by a stale `post` keeps its row, and voiding it then skips the check for closed
  periods.
- a closing locks nothing it has checked (`bank-reconciliation.service.ts:272`): two
  overlapping reconciliations can close together, and a row can change under a closing.

## Proofs

`tlapm` proves, from the assumptions on constants named in each module (finite sets
of rows, positive amounts, rows of different tables under different ids, `None` no id
and no number, idempotency keys no days, a claim token of one run, paddings from 3 to 10 as the
settings accept them):

| theorem | statement |
|---|---|
| `ReceivablesProofs!TypeCorrect` | `Spec => []TypeOK`: in particular no balance is ever negative |
| `ReceivablesProofs!InvoicesConserve` | `Spec => []InvoiceConserved` |
| `ReceivablesProofs!PaymentsConserve` | `Spec => []PaymentConserved` |
| `ReceivablesProofs!CreditNotesConserve` | `Spec => []CreditNoteConserved` |
| `ReceivablesProofs!ApplicationsAreBacked` | `Spec => []ApplicationsBacked` |
| `ReceivablesProofs!PostedInvoicesKept` | `Spec => PostedInvoicesFrozen` |
| `ReceivablesProofs!ControlAccountTies` | `Spec => []ControlAccountTiesOut` |
| `ReceivablesProofs!OpenItemsImplemented` | `Spec => ImplementsOpenItems`: the refinement of OpenItems |
| `PayablesProofs!TypeCorrectness` | `Spec => []TypeOK`: no balance, carrying layer or remainder of a payment is ever negative |
| `PayablesProofs!BillsAreConserved` | `Spec => []BillConserved` |
| `PayablesProofs!PaymentsAreConserved` | `Spec => []PaymentConserved` |
| `PayablesProofs!LayersAreConserved` | `Spec => []LayerConserved` |
| `PayablesProofs!RevaluationsStay` | `Spec => []RevaluationsStand` |
| `PayablesProofs!ControlAccountTies` | `Spec => []ControlAccountTiesOut` |
| `PayablesProofs!OpenItemsImplemented` | `Spec => ImplementsOpenItems`: the refinement of OpenItems, in the transaction currency |
| `LedgerProofs!TypeCorrect` | `Spec => []TypeOK` |
| `LedgerProofs!ReversalsMirror` | `Spec => []ReversalMirrors` |
| `LedgerProofs!ReversedAtMostOnce` | `Spec => []ReversedOnce` |
| `LedgerProofs!LinesFrozen` | `Spec => PostedLinesFrozen` |
| `LedgerProofs!PeriodsStayDisjoint` | `Spec => []PeriodsDisjoint`, for any number of workers |
| `LedgerProofs!TotalsStayRight` | `Spec => []TotalsMatchLines` |
| `LedgerProofs!ClosedPeriodsBlock` | `Spec => ClosedPeriodsBlockPostings` |
| `OutboxAndNumbersProofs!NumberTypes` | `NumbersSpec => []NumbersTypeOK` |
| `OutboxAndNumbersProofs!NumbersNotLost` | `NumbersSpec => []NoGaps` |
| `OutboxAndNumbersProofs!OutboxTypes` | `Spec => []TypeOK` of EmailOutbox |
| `OutboxAndNumbersProofs!DeliveredAtMostOnce` | `Spec => []DeliveredOnce` |
| `OutboxAndNumbersProofs!NoLockIsForgotten` | `Spec => []LocksReleased` |
| `OutboxAndNumbersProofs!ClaimHoldersCount` | `Spec => ResultsOfClaimHolder` |
| `OutboxAndNumbersProofs!BouncedStay` | `Spec => BouncedNotRetried` |
| `OpenItemsProofs!TypeCorrect` | `Spec => []TypeOK` of the abstract subledger, for finitely many uses |
| `OpenItemsProofs!ItemsConserve` | `Spec => []Conserved`: what remains and what is taken make up the amount |
| `RecurringProofs!OneDraftPerRun` | `Spec => []DocumentsMatchRuns` |
| `RecurringProofs!TypeCorrectness` | `Spec => []TypeOK` |
| `RecurringProofs!ScheduleStaysAhead` | `Spec => []ScheduleAheadOfRuns` |
| `RecurringProofs!NothingLost` | `Spec => NoOccurrenceLost` |
| `BankReconciliationProofs!TypeCorrect` | `Spec => []TypeOK` |
| `BankReconciliationProofs!RowsCategorizedOnce` | `Spec => []CategorizedOnce` |
| `BankReconciliationProofs!DepositsHaveTheirRows` | `Spec => []DepositsMatchRows` |
| `BankReconciliationProofs!ClosedPeriodsApart` | `Spec => []ClosedPeriodsDisjoint` |
| `BankReconciliationProofs!ClosedPeriodsFrozen` | `Spec => []ClosedRowsRecorded` |

**Receivables.** The conservation laws are inductive only together with: the types;
well-formed requests (what a worker keeps was an amount some request may name, on
rows that exist); references (an active allocation names a payment and an invoice,
a refund its source); and that nothing has been taken from a row before it is posted.
Without the last, finalizing an invoice could find allocations already counted against
it. Each action changes at most one summand of each sum; the lemmas of
`TotalsProofs` say what changing one amount does to a total, and each step lemma
applies them to the sums its action touches. That balances stay natural numbers
needs none of the laws: every claim repeats its comparison.

The results about several documents rest on what a step does to the rows, row by row:
`StepChangesRows` shows once that every handler makes one `RowChange` or none, and the
proofs after it never look at a handler again. `ApplicationsBacked` is inductive with
the types and with `AllocationsOfPayments`: a later allocation never names a payment that
is still to be created, which would be posted under it. `ControlAccountTiesOut` needs
`Unposted`, that what is not finalized has no journal amount, for which `posted` is the
amount of the journal in force: voiding reverses that journal and sets `posted` to zero.
Each change then moves one summand of the seven sums of the subledger by what it moves
the account, and a change of several rows at once (a payment over many invoices, a credit
note deleted with its allocations) uses `TotalPlus`, the sum of sums. For the refinement,
the lemmas on the mapping give the state, amount and remainder of every item and what
every use takes, before and after a change; the changes are then actions of OpenItems
item by item. The distinct ids of the tables make the union of their rows a set of items
and of uses.

**Payables.** The hard step is the commit of a payment, which folds the allocations of the
request into a plan (`PlanOne` over the list). `PlanLaws` follows it allocation by
allocation, by the induction of `TotalsProofs` over the length of the list: what is planned
and what is left make up the payment in both currencies, no bill is planned twice, and what
is left never goes below zero, because `SettlementShare` of a part is at most what is left
and of the rest is all of it. The rounding itself needs no more than that a rounded
amount is a natural number: shares are bounded by comparison, as in the code.

After that every handler is one `RowChange` (`StepTypes`), and a change of payments or
allocations is a `Settlement` or a `Restoration`: at most one split for each bill joins
the splits in force, or leaves them. What is in force against a bill is measured in four
ways (transaction, document, source and settlement amounts, and these of one revaluation
only), and the lemmas on `Taken` say of any measure what joining or leaving adds. `BillLaws` and
`PaymentLaws` are the conservation properties with "nothing is in force against a row before
it is posted".

`LayerConserved` is not inductive, because reversing a run brings back the layer of the run
before it. `CarryLaws` therefore says the same of the whole chain of posted runs under a
bill: the layer is what the last posted line revalued less what was settled under it
(`LayerLaw`), and each earlier line revalued what the next took over and what was
settled under it (`ChainLaw`), and alone has that next one; splits in force name posted
lines (`SplitLaw`). A line that `reverse()` finds untouched then has nothing settled under it,
and the law of the line below is the law of the restored layer. `RevaluationsStand` follows.

`ControlAccountTiesOut` rests on all of these and on `DebitLaws` (a debit note is its
unapplied amount and its active allocations): voiding a bill posts its total, and
only the law of the bill says what of that is not carried any more. Each change moves one
of the six sums, or several of them, by what its journal posts; revaluations move the
carrying values of all their lines at once, `CarriedRevalued` by sums of sums.

**Ledger.** `ReversalMirrors` is not inductive alone, since a worker about to commit a
reversal holds the swapped lines it read. `RequestMirrors` says that those are still
the entry's lines swapped, which holds because the entry was posted when it was
read, and posted lines are frozen by the triggers; `ReversalsPosted` says that a row
that reverses another is itself posted, so that no edit reaches its lines. Each step
lemma proves the invariant for the next state together with `KeepsPosted`, from which
`PostedLinesFrozen` follows.

The three results about periods and totals hold for any number of workers: each names the
writes that passed over something unseen, and is what the code ensures of all others.
`SeenInv` adds what carries them from a read to a write. `EntryHolds`: the lines and the
date an update or a posting read are still the entry's, or are among `unseen[w]`.
`PeriodsHold`: while no period was written unseen, the dates of a new or moved period still
overlap no other, and a date that was checked is still allowed. A write of periods adds to
`unseen` of every request that relies on them (`PeriodsWritten`), which is all that
another request's step has to show; the step that ends a request has the law of what it
writes from its own part.

**NumberSequences.** `NoGaps` needs `OneIssuer`: one open transaction at most has
incremented the row, and the number it will commit is still the one everybody else would
be given. A setting cannot break that, because its write waits for the row. The types need
that a setting is read only once the row exists, and that a number has at most ten digits
and is padded to at most ten: the text of a number is the prefix shifted by a power of ten,
which the proof takes case by case.

**EmailOutbox.** None of the properties is inductive: a worker that is between its claim
and its result has everything they are about in its own variables. `Laws` has three parts.
`RunLaw`: what a run lists and works on was queued, it has attempts left, and a row a
processor took carries the excuse `claimless`. `RowLaw`: a row is locked by a run in a phase in
which it holds the lock (`Holds`), and a row that is not there is empty. `DeliveryLaw`: while a
row has no excuse, the workers that work on it are one, which holds its lock; if the row was
delivered, that worker knows it and will write `SENT`, and otherwise it is `SENT`, down, or
locked, so that the next claim has to take a lock over, which is an excuse. That makes
`DeliveredOnce` a consequence, and needs the conditional update of the claim, the token in
the update of the result, and the exclusion of rows that are down, each at its place.
`ResultsOfClaimHolder` and `BouncedNotRetried` follow from the invariant and from what the
steps leave alone (`StepsLeaveAlone`): only a result counts an attempt on a row that
exists, and only a claim, which looks at the row again, makes a worker its holder.
The assumption `TokensDistinct` says that a claim token names one run: the code makes a worker's of the
actor, the row and the millisecond, so two claims of one row by one actor in the same
millisecond are left out. The theorems are for any rows, workers and processors, any number of
attempts and any time-outs, where the run has one row and two workers.

**OpenItems.** `Conserved` is inductive with the types and with "nothing is taken from an
item that has not opened"; each action is a lemma over `TotalsProofs`. Receivables and
Payables implement OpenItems (`OpenItemsImplemented` of either), so the law is what every
implementation inherits. Its last section states each action item by item: what an
implementation has to show of the item and the use that change, and that all others stay.
Payables instantiates it as `Abstract`. In the transaction currency the mapping
knows nothing of rates, layers or debit notes: a bill's item falls by the transaction amounts
of its splits, and revaluations and debit notes are stutters.

**Recurring.** A generation happens only in a transaction that finds the run not yet
generated, and no other action reaches `documents`; a failure recorded late finds the
status it would overwrite. That proof needs no types: it splits on whether an action's run
is the one at hand, and the invariant is the property itself with `run` and `documents`
functions over `Runs`.

The schedule needs `ScheduleInv`: the types; `TemplatesKept`, that the next occurrence of
a template lies on its schedule, that a template that does not exist has no runs and that
what a request created exists; and `ProcessesKnown`, that the runs a process remembers
exist, and that a legacy request about to move the schedule has a run for the occurrence
it moves past. With arithmetic that gives `NoOccurrenceLost`: occurrences are multiples of
the interval from the start (`MultiplesApart`), a batch holds every occurrence up to its
latest day (`BatchTypes`), and the schedule moves at most one interval past that. A
template whose schedule is complete keeps its `nextRunAt`, which is why `ScheduleAheadOfRuns`
is about templates in use only. The library's induction theorems cannot be instantiated
here, but that `<` on `Nat` is well-founded can be used: `SetInduction` (a set of numbers
with 0 and closed under successor is `Nat`) follows, and division with remainder and
the type of `Selected`, the rows of a query in their order, are proved with it.

**BankReconciliation.** Each law holds until a write passes over the change that would
have refused it, so what carries it from a handler's reads to its write is a statement
about requests: while nothing has overtaken a request (`since`), what it read is still
so. `Knows` says it of the row or deposit that is written by id, `Cleared` of the closed
periods a closing may not overlap, `Expects` of the rows in no closed period, of the
items not yet recorded, and of the snapshot a closing holds. A second closing of the same
reconciliation finds the items of the first equal to its own, which is why
`skipDuplicates` records nothing wrong. `SettlingInv`, `ClosingInv` and `FrozenInv` are
the three parts; the last needs the deposits' law, because voiding a deposit checks the
period only of a matched one. The theorems are for any rows, deposits, reconciliations and
requests, where the run has one row and one deposit; they say nothing past the
race, as the code promises nothing there.

Only model-checked: `RunsSettle` and `DueOccurrencesPrepared` of Recurring, which are liveness
under fairness, and the violation run. Out of reach of the prover: liveness, `ENABLED`,
and what a recursive definition computes when it is not a set of numbers that the induction
is over.

## Not modelled

- Foreign currency on the customer side: Receivables is at rate one, where the conversion
  of an amount is the amount. Payables has the rounding, the carrying layers and the
  revaluations, at one currency and at rates that are inputs.
- Line items, taxes and discounts: a document is its total. Validation of accounts,
  customers and permissions only refuses requests, which `Abort` covers.
- One AR and one AP account stand for accounts 120 and 210; the other sides of the journals
  are left out.
- `remove` of a payment or refund: it accepts only `DRAFT` rows, and nothing creates one.
- FX readiness before close and lock: it only refuses. `transitionWithFxReadiness`
  has no caller. Supplier refunds, refused in a foreign currency, mirror customer refunds.
- The collision of prefixes that end in digits: `INV-1` with padding 3 issues
  `INV-1001`, and so does `INV-` at number 1001 once the prefix was shortened. The
  text of the model tells them apart or not as the code does, but the bounds of
  `numbers_races` do not reach it.
- What a recurring run drafts, besides that it does; the entitlement check that ends a whole
  batch (`recurring-run.service.ts:221`) is one of the deaths of a worker, and
  `WorkersSurvive` excludes the organization that fails it for ever.
- The comparison of bank rows with the ledger and the lines of a deposit batch. Cheques and
  card settlements repeat the protocol of deposits.
- Accounting close, inventory, purchasing, fulfilment, assets, webhooks, sessions, billing:
  each has a protocol of its own and is left for later. ZATCA and UAE e-invoicing are
  generation, signing and validation of documents but for a submission state.
- Reports, PDF, audit records, search and the web client keep no state these
  properties read; with generated types, translations and test scripts they are most of
  the repository's lines.

The components left out altogether are in `PROJECT.json` with the reason.

## Plan

Done, in order: Totals, Receivables, Ledger, NumberSequences and their proofs; OpenItems with its
proofs and the refinements; Recurring with its proofs; EmailOutbox with its proofs; Payables
with its proofs; BankReconciliation with its proofs.

1. **Close**: close cycles with their versions and idempotency keys over the fiscal periods.
2. **Books**: Receivables with Ledger: manual reversal of a document's journal.
3. **Stock**: quantities issued, received and returned against order and invoice lines, and the
   moving average.
4. Webhooks after the pattern of EmailOutbox; sessions; billing events; depreciation runs;
   the submission state of e-invoices.
