# Lending service: TLA+ models, checks and proofs

This directory holds a verification development of the lending service (`src/src`, with its
database migrations in `src/db/migrations`). It models the life of a loan from application to
write-off, the payments and postings on the way, and the publication of events; it checks the
models with TLC on small instances and proves the central properties with TLAPS for every
value of the constants.

Paths below are relative to the repository; `services/` stands for `src/services/` and
`runtime/` for `src/runtime/`.

## 1. The system

The service is an Express application over one Postgres database (READ COMMITTED, one
transaction per `withTenantTransaction`), with HTTP clients for a ledger, a payment service
and an approval service, and a RabbitMQ publisher fed from an outbox table. Any number of
requests run at once, in one or several processes; there is no lock but row locks, unique
indexes and triggers. Nearly every command that moves money has the same shape: a first
transaction records what will be done, a call to another service does it under an idempotency
key, a second transaction writes the books. A request may die between any two of these, and
its client may send it again.

| Component | State | Operations | Talks to | What is hard | What makes it correct |
|---|---|---|---|---|---|
| Disbursement saga (`services/loan-disbursement-service.ts`) | `loan_disbursements`, `loans.status`, outbox | `start` | approval, ledger, payment | five awaits, unguarded status writes, two unique indexes, retry at every step | money in order and at most once; final rows true; one payout per loan |
| Allocation (`allocateRepayment` in `services/loan-repayment-service.ts`) | none | pure | repayment | amounts at the boundaries | policy priority, nothing over- or under-allocated |
| Repayment and reversal (`services/loan-repayment-service.ts`, `-reversal-service.ts`) | `loan_repayments`, batches, lines, credits, reversals, installments, `loans` | `allocateConfirmedPayment`, `reverse` | ledger | allocation goes stale before it is applied; replays; ledger and books separate | balances, installments, evidence and ledger agree; nothing recorded is lost |
| Outbox publisher (`runtime/outbox-publisher.ts`, timer in `main.ts`) | `loan_outbox_events`, channel | poll, claim, publish, mark | RabbitMQ | leases, several processes, overlapping polls, lost confirmations | at least once; PUBLISHED only if delivered; duplicates only after faults |
| Write-off and recovery (`services/loan-resolution-service.ts`) | `loan_write_offs`, recoveries, `loans.status` | `writeOff`, `postWriteOffRecovery` | approval, ledger | two write-offs of one loan; repayment meanwhile | written off once; recoveries within it |
| Restructure (`services/loan-restructure-service.ts`) | `loan_restructures`, schedules, balances | `restructure` | approval, ledger | balances overwritten from an early read; retry of a zero-difference posting | schedule and balances agree; retry converges |
| Servicing (`services/loan-servicing-service.ts`, not wired in `main.ts`) | accruals, delinquency, penalties | `accrueInterest`, `assessDelinquency`, `assessPenalty` | ledger | stale writes over a settlement; cap checked apart from the charge | cap kept; a settled loan stays settled |
| Offers (`services/loan-offer-service.ts`) | offers, contracts, schedules, loans | `issue`, `accept` | - | expiry against acceptance; supersession | one contract per application |
| Applications (`services/loan-application-service.ts`) | applications, evidence snapshots | `submit`, `evaluate` | identity/eligibility | stale evidence and exposure | decision rests on current evidence |
| Manual underwriting (`services/manual-underwriting-service.ts`) | review cases, decisions, conditions | `open`, `assign`, `recommend`, `decide`, `resolveCondition` | approval | leases, versions, separation of duties | one decision, by the right people |
| Products (`services/loan-product-service.ts`) | products, versions | `createProduct`, `createVersion`, `publish` | approval | status read before the approval | one current version |
| Customer quotes and repayment requests (`services/customer-lending-service.ts`) | quotes, repayment requests | `quoteLoan`, `quoteRepayment`, `requestRepayment` | payment, authorization | races for a quote; death between insert and payment | one request per quote |
| Internal clients and tokens (`runtime/internal-http-client.ts`, `security/parc-service-auth.ts`) | token cache | approvals, authorizations, `token` | issuer, approval service | one cache for all customers, expiry under way | acting for the right customer |
| HTTP, wiring, schema roles | - | - | - | - | not modelled |

## 2. Modules

| Module | What it is | Corresponds to |
|---|---|---|
| `DisbursementMoney` | abstract specification: the line of stages the money of one disbursement goes through | what the saga promises |
| `Disbursement` | the saga: rows, indexes, the outside services, calls with a program point | `LoanDisbursementService.start`, migrations `202609110007` and `202610060001` |
| `AllocationRule` | the allocation as a rule: what slot *n* gets of an amount | `allocateRepayment` |
| `Allocation` | the allocation as the loop the code runs | `allocateRepayment` |
| `RepaymentAccount` | abstract specification: a loan's account | what the two repayment services promise |
| `Repayment` | both transactions of repayment and reversal, the ledger, installments and balances | `LoanRepaymentService`, `LoanRepaymentReversalService`, triggers of `202609120001` and `202609120004` |
| `Outbox` | publisher and timer: workers, batches, leases, channel | `LendingOutboxPublisher`, `main.ts:173-186` |
| `WrittenOffDebt` | abstract specification: a debt written off once and recovered within it | what the resolution service promises |
| `WriteOff` | write-off and recovery: rows, index and trigger, approval and ledger, calls | `LoanResolutionService`, `allocateWriteoffRecovery`, migrations `202609120003` and `202609120005` |
| `Restructure` | the five steps of a restructure, with repayments and reversals between them | `LoanRestructureService.restructure`, `validateRestructure`, the restructure posting of the gateways |
| `Servicing` | accruals, penalties and delinquency assessments, with repayments and reversals between their steps | `LoanServicingService`, `loan-servicing-calculator.ts` |
| `Application` | submission, evidence, evaluation | `LoanApplicationService` |
| `ManualReview` | case, lease, recommendation, decision, conditions with their row locks | `ManualUnderwritingService` |
| `Offer` | issue and acceptance of offers with the rows they lock | `LoanOfferService` |
| `Origination` | the composition of these three on the rows they share | `loan_applications`, `loans` |
| `RestructureHistory`, `ServicingHistory`, `OriginationHistory` | these three with history variables for what has crossed or was not seen, and what holds until then | |
| `Product` | versions of a product and their publication | `LoanProductService`, migration `202609110002` |
| `Tokens` | access tokens and their cache | `ParcTokenClient.token` |
| `RepaymentRequest` | a customer's request for a payment on a quote, composed with `Tokens` | `CustomerLendingService.requestRepayment` |
| `Sums` | lemmas about totals and about the rule, for the proofs | |
| `*Proofs` | inductive invariants and theorems of the module they are named after; `DisbursementProofs` also those of `Outbox`, `RepaymentProofs` those of `Allocation`, `OriginationProofs` those of `Product` | |
| `MC*` | what a TLC run needs: values of constants, history variables, bounds | |

Conventions. A *call* is one HTTP request in progress: a record with the point it has reached
and what it holds in memory. Each action is one transaction or one call to a service, with
everything the code does in it. A transaction that fails (guard, unique index, trigger)
changes nothing and ends the call. `Abort` (or `Fail`) ends a call at any point: an exception, a
timeout (`AbortSignal.timeout` in the gateways) or a crash. A reply that is lost is the service's
action followed by `Abort`; a late reply is the same step taken later. The outside services act
once per idempotency key, which is how the code uses them (`disbursement:<id>:ledger` and the
like); they are marked external where they have an action of their own. Where a transaction's
statements matter one by one, because others commit between them or wait for its rows
(`ManualReview`, `Offer`, `Product`), they are separate actions and the locked rows are state.

Several properties are conjunctions of named parts, so that a run checks them together and a
theorem can be about one of them.

Disbursement. A row is named by its idempotency key (unique in the database); the payload of a
request is folded into its loan. That a loan gets an approval for each disbursement row is
assumed of the approval service. A FAILED payout answer leads to the compensation path, an
unknown status counts as PENDING (`payoutStatus`).

Repayment. A slot is one component of one installment, numbered by the loan's allocation
order; `Greedy` gives each slot its lines, and module `Allocation` shows that the code's loop
computes it. One loan is modelled, disbursed and possibly late; its other writers are in
`Restructure`, `Servicing` and `WriteOff`. A repayment is named by its idempotency key and
payment, both unique.

Outbox. A worker is one run of a service process: a restart draws a new lease owner, so a crash
is final for it. A process can run two batches of one tenant at a time, because `Promise.all`
ends at the first error and the timer then polls again. Time belongs to the environment: a
lease or a back-off may end at any time. The failure of the update to FAILED (for one, because
`power(2,retry_count)` seconds leaves the interval range) is one of the modelled faults. A batch
keeps the rows it has claimed and, apart from them, the one it is `sending`; a message in transit when
the channel breaks may have been received.

Write-off. One loan, late enough for its product's policy. Components are numbered in the order in
which a recovery pays them (penalty first), so `Greedy` is also what `allocateWriteoffRecovery`
computes. Repayments and reversals are there by what they do to the loan: they change its balances
and status between the steps of a write-off, which is why its amounts are those of its
preparation. A completed write-off sets the loan WRITTEN_OFF whatever it has become; a reversal
opens it again, and a second write-off may then be prepared, approved and posted before the unique
index stops it.

Restructure. A schedule has one installment of two slots, charges and principal. Every attempt of a
command reads loan and schedule afresh and carries what it read to its approval, posting and final
transaction. The approval service answers a consumed approval again only for the same payload,
which holds the balances read; the ledger posts the difference between the new debt and those
balances once per command. When there is no difference the gateway returns a reference that is no
uuid, and the final transaction fails (`CanImplement`). Repayments and reversals are the ones of
`Repayment`, shortened to preparation, application and reversal. The installment trigger that shows
a CANCELLED installment again when it is paid is `shown` in `ApplyRepayment` and
`ReverseRepayment`. A reversal updates an installment once for each line of the repayment, and the
trigger fires each time: between two lines something is still paid, the installment becomes
PARTIALLY_PAID, and the last line, after which nothing is, does not take that back. A reversal in full
therefore shows an installment of several lines again (`LeftBetween`). The charges slot stands for
interest and fees, so its amount may be one line or more, which is the reversal's choice `several`.

Servicing. An installment's scheduled dues are paid or not, and beside them stand its penalties,
each with its amount: a fixed one that the cap cuts. An accrual's amount goes to the ledger only
and is left out. Rows of accruals and penalties are named by their idempotency keys, with
the unique keys on period and installment as `Recorded`. The service is exported and tested but
`main.ts` does not wire it.

Origination. The modules `Application`, `ManualReview` and `Offer` share `application` and `loan`.
KYC, risk and affordability are one verdict; the count of the customer's loans, which changes
while evidence is gathered, is modelled. A product version without an underwriting policy
(`WithPolicy`) has every application referred to manual review, whatever its evidence and the
customer's loans, and also where approval may be automatic; the product schema of `app.ts` accepts
no `configuration`, so this is the case of every version made over HTTP. `evaluated` is the evidence of
the COMPLETED evaluation. A resolution of a condition holds the lock of its decision from
its first read (`Locks`). An issue locks the application and then the offer in force, an acceptance the
offer and then the application; the database ends one of two that wait for each other
(`RolledBack`). A loan made here is DISBURSED and then ACTIVE by `Proceed`, one status at a time.

Product. The current version is found by one statement and changed by the next; a statement waits
while another transaction has changed the row, and then sees what that one left. The approval of a
publication is consumed with one key, for the terms of one version.

Repayment requests. A quote belongs to a customer; one that is debited needs an authorization, which
is consumed with a token that stands for the customer. Tokens come from a cache shared by all
customers. The clock is bounded by `MaxTime`, and what a hash covers beyond the key is one
reference.

## 3. Runs

| Run | Instance | Shows |
|---|---|---|
| `disbursement` | 2 loans, 2 keys, 2 calls, 2 deaths | status and final rows are true, the money is in order (`DisbursementMoney`); one payout per loan, final rows final and retries that converge unless calls have overlapped |
| `disbursement_concurrent` | 1 loan, 2 keys, 2 calls, no death | `OnePayoutPerLoan` **violated**, see section 5 |
| `allocation` | every order, 2 installments, slots owing 0 or 2, amounts below, at and above slot and total | priority, nothing withheld, loop = rule |
| `repayment` | 3 slots, 3 payments and their reversals, 2 calls, 1 death | balances, installments, lines, status and ledger agree; a payment is blocked only when overtaken; `RepaymentAccount` is implemented; what was begun ends |
| `outbox` | 2 events, 2 tenants, 2 processes, polls that overlap, batches of 2, 2 faults | at least once, duplicates only after failures, PUBLISHED is true and final, everything is published |
| `writeoff` | 2 write-offs, 2 recoveries, 2 components, 2 calls, 1 death | one write-off in the books, approved, posted and unchanging; concurrent recoveries fit, are counted once and never stuck after their posting; `WrittenOffDebt` is implemented; what was begun ends |
| `restructure` | 2 restructures, 2 payments and reversals, 2 calls, 1 death | what an IMPLEMENTED restructure rests on; books, ledger and status agree unless balances were overwritten unread; obligations are the new schedule's and add up to the balances, up to payments, and reversals of payments, of a replaced one; begun ones are carried out unless stuck |
| `restructure_obligations` | 1 restructure, 1 payment | `OnlyNewObligations` **violated**, see section 5 |
| `origination` | 2 applications, both with a policy or one of them without, or 1 with conditions; 1 reviewer, 2 resolvers, 2 offers, 2 calls, 1 fault | a status has its grounds in the evaluation and the review, one offer and one loan, evaluation on the latest evidence, the exposure limit up to loans the evidence did not show, submissions and transactions that end |
| `servicing` | 2 installments, 2 postings or up to 3 assessments, 2 calls, 1 death, a payment and its reversal | what is owed is the schedule and each penalty once; OVERDUE means past due; cap, settlement and announcements hold unless calls crossed |
| `repayment_request` | 2 customers and quotes, 2 keys, 2 references, 2 calls, 1 fault, tokens that expire, a cache of one | one request and payment per quote; the right customer; nothing stays SUBMITTING unless its call died |
| `product` | 3 versions, 4 approvals, 2 calls, 1 death | one version in force, approved as it stands; never taken back; an approved publication happens |

History variables. Much of what the code achieves it achieves as long as certain things do not
cross, and a property that ignored this would be false or would have to be about single calls.
`RestructureHistory`, `ServicingHistory` and two MC modules therefore record what has happened so far,
and state what holds until then with nothing else restricted:

* `alone` (disbursement): no two calls have been in progress at the same time. With two calls
  under one key, the status writes at lines 178-186 and 213-219 of the service, which have no
  status guard, can put a finished row back to PAYMENT_SUBMITTING, and its final transaction then
  fails on the event's unique key. That the money is in order and final rows are true holds
  with overlap too, and is proved.
* `stale`, `late` and `astray` (restructure): a restructure was carried out on balances it had not read;
  replaced schedules that were paid, or a payment of which was undone, since; and what the balances
  have lost to these payments since the last restructure. The last two are not exceptions but terms of
  `ObligationsUpToLate`: what can be paid belongs to the schedule in force or to one in `late`, and the
  schedule in force owes the balances plus `astray`, exactly. The status has two exceptions more,
  which the proof brought to light and the instance does not reach: terms that leave no debt
  (`validateRestructure` accepts a principal of 0) make a loan ACTIVE with nothing outstanding, and so
  does the reversal of a repayment that found nothing to pay (`Forgiven`, `Hollow`).
* `late`, `crossed` and `pending` (servicing): something was written on a SETTLED loan; two
  assessments overlapped; two penalties of an installment were on their way at the same time.
* `overlapped` (origination): applications two calls have collected evidence for at the same time.
  Other calls may overlap, fail and be sent again.
* `missed` (origination): for an application without a loan, the loans its evidence does not show, being
  DISBURSED when loans were counted or made later. It too is a term: `WithinPolicy` bounds the
  customer's other loans without these.

Each of these is a weakness of the code as it stands, not a choice of the model: the histories are
reachable in the runs, and without their condition the properties fail. No document of the repository
promises more, so they are listed as hazards and not as findings.

Bounds. `MaxAborts`, `MaxFaults`, `MaxDeaths`, `MaxAssigns`, `MaxOffers`, `MaxTime`, `MaxCommands` and `Overlap`
bound how much happens, not what the code does. Two calls suffice for every race of two requests.
Three repayments let one be overtaken, one reversed and one arrive afterwards; their amounts are one
slot, all of them, and part of one. The two recoveries of a debt of 2 bring 2 and 1: each fits, both
do not, and one crosses from the first component to the second. Two events exercise the
rest-of-batch behaviour (a failure of the first leaves the second leased), two faults a failure
during the recovery from another. The first restructure capitalizes, the second reduces the
principal with a new debt that one of the payments can equal. A penalty of 2 is cut by a cap of 3
the second time. It takes three assessments, two of which cross, to announce a bucket the loan does
not have, hence one more when nothing is posted. Three versions let a publication race with another one and come after a third.

Some MC modules narrow the environment where cases are alike or independent: of two equal calls, keys
or workers the first is used first (`MCRepaymentRequest`, `MCProduct`, `MCServicing`, `MCOutbox`); the
outbox and the repayment requests are explored in two settings each, named by the variable
`setting`, which cover overlapping polls and batches of several events, races for one quote and two
customers; in `MCOrigination` a customer submits one of the `Portfolios`: a single application meets everything; two
are submitted without failures and conditions, evidence is READY and does not collect twice at once,
and each gets one offer, which does not lapse (`SingleOffers`).

`CHECK_DEADLOCK FALSE` stands where everything may legitimately be over: disbursements (all rows
final), repayments and restructures (all done or reversed), the allocation loop (ended), applications (decided, offers
accepted or lapsed), requests (quotes expired), versions (published). The outbox, write-offs and
servicing never stop and are checked for deadlock.

Fairness. Weak fairness of the steps of a call or a batch: the event loop runs what is ready and
every outside call has a timeout, so a step that stays possible is taken (or the call dies, at
most `MaxAborts` times). Strong fairness of `Lookup`, `Replay`, `ReplayReversal`,
`ReplayRecovery`, `Start` of a restructure, `Resend` and `Resent`: the client resends until it is answered,
which the idempotency keys are there for; it is strong because a request can only enter when a
call slot is free. A repayment request has no such assumption: resending does not help it.
Strong fairness of the steps of `Offer` stands for the database's lock queue. The outbox
assumes that the timer fires (`setInterval`) and that time passes. The first sending of a request
is never fair.

## 4. Proofs

The theorems hold for any number of loans, keys, calls, customers, quotes, installments,
amounts and deaths, under the named assumptions on the constants.

* `DisbursementProofs`. The inductive invariant `IInv` ties each program point of a call to
  what must already have happened: a call at `submit` has its posting in the ledger, a call
  at `finish` carries an answer the payment service still stands by, a call at `compensate`
  has its reversal. These are not consequences of the row's status, which a slower call may
  have overwritten, and `FinalRowsAreTrue` alone is therefore not inductive. From `IInv` follow
  `TypeCorrect`, `FinalRowsTrue`, `DisbursedPaid` (together `StatusesTrue`) and the refinement
  `MoneyIsInOrder`, whose step case maps each action to one step of `DisbursementMoney` or to a
  stutter. `OnePayout` and `FinalStaysFinal` hold until calls overlap, and rest on an invariant about
  the only call in progress: its row is where the call is, a row whose payout is PENDING or SUCCEEDED is
  in flight or SUCCEEDED itself, and a loan has at most one such row.
* `RepaymentProofs`. Two layers. `IInv` relates a repayment's status, its reversal's status, the
  ledger and the calls in progress: one at `apply` has been posted, one at `unapply` unposted, and
  its reversal exists; `EvidenceTrue` follows. `MoneyInv` relates balances, installments and lines: a
  slot has been paid exactly the lines of the applied repayments, which never exceed what it owes,
  so a reversal always finds what it takes back (`Books`). `BlockedByOvertaking` and the refinement
  `AccountIsKept` follow from both.
* `Allocation`, in `RepaymentProofs`. `PriorityHolds` rests on an invariant about the loop's place: slots
  behind it have all they owe as long as anything remains, slots ahead have nothing.
  `NothingIsWithheld` follows from the same invariant at the end of the loop; together they are
  `PolicyHolds`. `RuleComputed` needs no second look at the loop: with the slots numbered by
  priority, only one way of spending the amount keeps to the policy, and that is the rule `Greedy`.
* `RepaymentRequestProofs`. The invariant says of a call past its insertion that the row under its
  key is its own and that no other call is past the insertion of that key, so that the payment and
  the row's status are written by one call only; and of the cache that an entry's key names the
  token's subject, and its `expiresAt` is never later than the token's own end. From it follow
  `OneRequest` (`OnePayment` and `AnswersTheSame`), `ConsumedOnBehalf` and, if tokens are issued
  for longer than the margin, `TokensLast`.
* `Outbox`, in `DisbursementProofs`. `DuplicatesAccounted` is not inductive, because a delivery that is on its way
  does not count yet: the invariant counts, beside an event's deliveries, the batches that have it
  claimed or at the broker, against its failures, lapsed leases and a lease that is still live. From
  the same invariant follow `TableTrue` and `PublishedFinal`, with any number of processes, tenants
  and overlapping polls.
* `OriginationProofs`. One invariant over all three modules. The state of a review determines the status of
  its application, its decision and whether conditions are PENDING; a request that resolves a condition
  knows whether it is the last, and stays right because its lock keeps all others off the application
  (`GroundsHold`; without the lock the mutant `LocksCondition` leaves an application cleared and never
  approved). What the evaluation found (`Grounded`) stays in force, since `evaluated` is written once, and a
  review opens only on what was referred. `OneOfferHolds` does not depend on locks, only on the unique index on loans. `LatestHolds`
  rests on one call at most gathering evidence, when there is none. For `PolicyHolds`, a count kept
  anywhere for an application without a loan, by a call, as evidence or in its evaluation (`Holds`),
  is at least the number of loans not in `missed` (`SeenSound`): a loan that is counted later, or not at
  all, is missed. A loan of an application with a policy has an evaluation with a good count behind it
  (`FoundGood` or `Referred`), whoever approved it.
* `Product`, in `OriginationProofs`. The rows a publication has locked are current and the locks of two
  requests disjoint, so a version read before a wait is judged again after it. `InForce` and
  `TakenBackNever` follow.
* `RestructureProofs`. `IInv` numbers the schedules without a gap, the newest in force, which makes a
  call that finds no schedule of its version plus one the reader of that newest one; and it ties a
  call's point to the approval consumed for the balances it carries, at most one set per command, and
  to the posting. `ByTheBookHolds` follows. For `BooksAgree` the sum of what is posted and not
  implemented loses exactly the difference that the balances take over (`LedgerCarried`), since
  without `stale` the approved balances are those overwritten; the status also needs that every call
  in progress has read a loan with debt. `ObligationsHold` rests on `OwedInv`: a replaced schedule that is
  shown and still owes is in `late`, and the slots of the one in force owe the two balances plus `astray`,
  which a repayment or reversal keeps because what it moves on all slots is what it moves on the
  schedule in force and on replaced ones (`MovedInParts`).
* `ServicingProofs`. `IInv` says which rows and ledger postings exist at each point of a call and that
  the balances are the schedule and the penalties of POSTED rows (`OwedByTheBookHolds`). What holds
  until calls cross rests on what those in progress have read (`HInv`): the one assessment under way
  has the bucket in force, which is the one announced; a penalty under way, recorded or only computed,
  still fits under the cap, with all others of its installment POSTED or absent; and the loan is
  SETTLED exactly while nothing is owed.
* `Sums`. Lemmas about totals over finite sets (a member changed, a part, a union, rows against
  columns, by kind), and about the allocation: `GreedyFits`, `GreedyTotal`, `GreedyOnly`. The
  library's induction theorems take an operator as parameter and cannot be used here; these proofs take
  a smallest counterexample instead, which the well-foundedness of strict subsets gives.
* `WriteOffProofs`. A recovery exists only on a COMPLETED write-off, whose amounts are fixed, and its
  lines add up to its amount. `Books` needs both: recoveries are checked per component when they are
  prepared and in total when they are counted. `DebtInv` adds what the debt's components allow,
  for the refinement `DebtWritten`.

Assumptions. The sets summed over (slots, components, write-offs, recoveries, repayments) are
finite, dues and amounts are natural numbers, a disbursed loan owes something (`SlotsAssumption`: a
loan that owed nothing would be settled before its first payment; likewise the principal of the first
schedule in `FirstDueAssumption`, the CHECK on `loan_offer_schedules`), an installment exists
(`ScheduleAssumption`), and there are finitely many applications, processes,
postings, restructures and requests in progress. The other assumptions only give constants their types.

Only model-checked: liveness (`BegunEnds`, `RetryConverges`, `EventuallyPublished`, `EverythingEnds`,
`BegunIsImplemented`, `BegunIsPosted`, `SubmittingEnds`, `ApprovedIsPublished`), which is out of the
prover's reach. Every safety property of the passing runs has its theorem; those about history
variables are theorems of the `HistorySpec` of their module, and of `MCSpec` for disbursements, whose
MC module restricts nothing. The bounds of the other MC modules are not assumed by any theorem.

## 5. Findings

`disbursement_concurrent`: `OnePayoutPerLoan` fails. Request B reads the loan as APPROVED; request A
(another key) runs to the end, so its row is SUCCEEDED and the loan DISBURSED; B inserts its row,
which the in-flight index allows since A's row is not in flight any more, and goes on to post and
pay. Its final transaction fails at the unique index for SUCCEEDED rows, after the money has
moved. The comment at `services/loan-disbursement-service.ts:97-98` expects the index to reject
it, and so does `src/db/migrations/202610060001_ln_fix_02_review_controls.ts:38`. The second row
needs an approval of its own, which the model lets the approval service give.

`restructure_obligations`: `OnlyNewObligations` fails. A payment is allocated to the old schedule, the
restructure cancels that schedule's installments, and the payment is then applied: the trigger on
installments makes the CANCELLED installment PARTIALLY_PAID, and what is left of it can be paid
beside the new schedule. The comment at `services/loan-restructure-service.ts:290-291` says that
repayment and servicing only see the new schedule's obligations.

## 6. Plan

Done: every component of section 1 that changes state has its module and its theorems. Left, in this
order:

1. A composition of `Repayment`, `Restructure`, `Servicing` and `WriteOff` on one loan. Each models the
   other writers of the loan by their effect; the composition would show that the effects suffice.
2. The lock order of a repayment's two transactions, with rows locked as in `Offer`.
3. `generateSchedule` on integers of a small width: what the residual does to the last installment.

## 7. Not modelled

* HTTP validation and routing (`app.ts`, `server.ts`), row-level security, role grants, verification
  of inbound tokens: stateless or part of libraries; the repository's tests cover them.
* Hashes, formats and events' payloads, beyond what a property needs.
* The arithmetic of `generateSchedule` (decimals of 50 digits, calendar dates, the residual added to
  the last installment) and of interest accruals; the split shown by a quote's preview.
* Read models and `quoteLoan`, `quoteRepayment`: nothing later relies on what they keep but the quote
  itself.
* Authority levels and separation of duties in manual underwriting: checks of a request against the
  caller, made in one statement.
* Evaluations that throw: a policy whose rates do not parse (`parseRate`) ends the call without effect,
  like a `Fail`.
* An identity risk that refers: such evidence is not READY and no evaluation starts from it.
* The collection and servicing adapters of the financial gateways, and the shutdown of the outbox.
* Lock order between the two transactions of a repayment: transactions are atomic in `Repayment`, and
  one the database ends is an `Abort`.

Known oddities that are modelled as the code has them but are not stated as properties, since nothing
promises otherwise: a retry of a capitalizing restructure that was carried out is refused, not
replayed; a completed evaluation asked for again is refused once there is newer evidence; an
expired offer is never EXPIRED in the table; assessments and accruals of an earlier date written
later win; an APPROVED recommendation with conditions keeps an offer from being issued; a quote may
expire between the look at it and the request.
