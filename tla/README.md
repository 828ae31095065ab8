# TLA+ models of genieacs-panel

genieacs-panel is a Node back end (Express, Knex over PostgreSQL, MySQL or SQLite)
and a React front end, through which many internet providers ("tenants") manage the
customer equipment behind their ACS (GenieACS) and through which the platform
charges those providers for the service. This directory holds TLA+ models of the
parts where state and concurrency meet, TLC configurations that check them on small
instances, and TLAPS proofs of the properties that matter most.

All paths below are relative to the repository; `chargeIssuingService.js` and the
like are under `src/backend/src/services/`.

## 1. The system

### Where the concurrency comes from

* One Node process runs one callback at a time, but every `await` lets others in.
  Requests, scheduler jobs and webhook deliveries interleave at each of them.
* More than one process may run on the same database. Nothing in memory is shared;
  a row is protected only by a conditional `UPDATE` (a "claim") and unique keys.
* The payment gateway, the ACS, WhatsApp and the agents are remote. An answer can
  be lost after the call took effect; webhooks arrive late, repeated or not at all.
* A process may die between any two awaits. Whatever it had created and not
  written down is then known to nobody.

### Components

| Component | State | Operations | Interacts with | What makes it correct | Status |
|---|---|---|---|---|---|
| Renewal charge (`chargeIssuingService.js`, `models/BillingCharge.js`) | a row per provider and period: status, gateway id, means of payment, `issuing_until`, attempts | `issueCurrent`, `cancelOpenCharges`, `cancelRenewalCharges`, `reopenExemptCanceled`, `adoptFound`, and the statements `open`, `claim`, `release`, `markIssued`, `markFailed`, `resetForReissue`, `update` | gateway, subscription, ledger, every gesture below | one emission at a time; one card charge; no live charge forgotten; claims always come back; a closed row stays closed | `ChargeIssuing`, partly |
| Payment gateway (`billing/asaas*.js`) | charges and their fate | create, cancel, list by reference, receive in cash | webhook | external; any call may fail before or after its effect | `ChargeIssuing`, partly |
| Billing webhook (`controllers/billingWebhookController.js`) | deliveries between two awaits | record a payment, close the row, follow the life cycle | ledger, row | a payment counts once; a late notice reopens nothing | `ChargeIssuing`, partly |
| Self-service plan change (`selfBillingService.js`) | the plan; the row while it is repriced | `repriceOpenCharge`, hold, write, reissue | row, gateway | the old charge is withdrawn before the row forgets it | `ChargeIssuing`, partly |
| Cancellation and retention (`cancellationService.js`) | `cancel_at` | `confirm`, `revert`, both sweeps | row, gateway | no charge for a period that will not be served | `ChargeIssuing`, partly |
| Console gestures (`controllers/platformSubscriptionsController.js`) | the claim of the row | `settle`, `cancel`, exemption | row, gateway, ledger | ledger before row; the claim comes back | `ChargeIssuing`, partly |
| Saved card (`billing/cardAutopayService.js`) | token, its refusal | attempt, classification of the error | gateway, row | a lost answer never becomes a second charge | `ChargeIssuing`, partly |
| Subscription and ledger (`subscriptionService.js`, `models/Subscription.js`, `models/BillingEvent.js`) | deadline, plan, events | record, reverse, exempt | row, affiliates | each payment buys one period, once | its reference set, and the credit it spends (`TenantCredit`), partly; `PaymentLedger` planned |
| Provider credit (`models/TenantCredit.js`) | credits and allocations | reserve, release, consume, restore, debit, cancel | row, ledger, referrals | no cent made or lost; a discount is backed; a canceled credit stays empty | `TenantCredit`, partly |
| Scheduler and its lease (`schedulerService.js`, `schedulerLease.js`) | the lease row | acquire, renew, release, tick | every job | one instance at a time believes it leads, but for a stall | planned |
| Request slots of the ACS (`genieacs/concurrency.js`) | two semaphores, the map of them | `withAcsSlot` | every ACS call | caps, order of arrival, no slot lost | `AcsSlots`, `AcsLimits`, modelled |
| Agent hub (`genieacs/agentHub.js`, `genieacs/agent.js`) | connections, pending requests, key generation | connect, replace, rotate, request, drop | ACS connector | a request is answered once, by the agent that got it | planned |
| WhatsApp outbox (`waOutboxWorker.js`, `models/WaMessage.js`) | message rows | list, claim, send, mark, retry, echo, receipt, requeue, withdraw | WhatsApp | nobody gets a message twice unless the outcome of a copy could not be written; the screen shows what was sent | `WaOutbox`, partly |
| Sessions (`models/RefreshToken.js`, `controllers/authController.js`) | token families, the version of a person | rotate, follow, revoke, adopt a version | browser | what was ended stays ended; tabs do not sign each other out | `SessionFamily`, partly |
| Affiliates and referrals (`referralService.js`) | the credit a referral earns | cancel, sweep, debit | credit, row | a refunded referral leaves no credit | in `TenantCredit`, partly |
| Invoices, add-ons, coupons, prices, delinquency | rows beside the charge | arithmetic and notices | row, ledger | sums; one notice per step | not modelled |
| Conversations and bot (`waInboundService.js`, `waDunningService.js`) | messages, menus | echo, receipt, withdrawal of a notice | outbox | the echo finds its row | in `WaOutbox`, partly |
| Devices, provisioning, outages, ACS connector, integrations, backups | little state, much mapping | | ACS, WhatsApp, ERPs | mostly parsing and I/O | not modelled |
| Tenant scoping (`config/tenantScope.js`) | none | a filter on each query | all | nothing to interleave | not modelled |
| Front end, deployment, documentation | none on the server | | | | not modelled |

### How they meet on one row

The scheduler, a person's click, a plan change, an exemption, a cancellation, two
console gestures and the webhook all write the one row of `billing_charges` that
stands for a period. Most take it first by `BillingCharge.claim`, a conditional
`UPDATE` that writes `issuing_until` two minutes ahead (`CLAIM_MS`); the webhook does
not. The row does not say who took it. This row, its claim and the charges it leaves
at the gateway are the core of the billing system, and of this project.

The provider's credit meets the same row: an emission reserves it before it calls the
gateway, and whoever withdraws, resets, pays or refunds the row must release, spend or
restore it afterwards, each in a transaction of its own and some without the claim.
`TenantCredit` models that meeting with the row reduced to its status, price and gateway id.

The outbox and the sessions repeat the pattern of a conditional `UPDATE` elsewhere: a message is
taken by a change of status, a token by its `rotated_at`. There, too, what was read before
the update may no longer be true after it.

## 2. Modules

| Module | Models |
|---|---|
| `ChargeIssuing` | the row of one provider and period, its charges at the gateway, and every process on it; also the inductive invariant and the properties |
| `ChargeIssuing_proofs` | type correctness; the claim excludes |
| `ChargeIssuing_claim_proofs` | every claim has an owner, every paid row a payment |
| `ChargeIssuing_gateway_proofs` | no charge is forgotten, the card is charged once |
| `MC_ChargeIssuing` | two processes, one or two charges, their symmetry |
| `AcsLimits` | what the slots promise, in two actions |
| `AcsSlots` | the code of the slots, its properties, and the mapping to `AcsLimits` |
| `AcsSlots_proofs` | types, caps, no idle slot, order of arrival, and that the slots implement `AcsLimits` |
| `MC_AcsSlots` | six calls of two providers |
| `CreditCycle` | the life of a cent of credit, as the code promises it |
| `TenantCredit` | the credits of one provider, their allocations, and every gesture on a charge that touches them, and the mapping to `CreditCycle` |
| `TenantCredit_sums` | sums of cents over sets of allocations |
| `TenantCredit_proofs` | types, no cent made or lost, canceled credits stay empty, the credit follows its charge, discounts are backed, and that the transactions implement `CreditCycle` |
| `MC_TenantCredit` | two processes, two charges, credits of two cents and of one |
| `WaOutbox` | the outgoing messages of one provider, the passes that send them, echoes and receipts |
| `WaOutbox_proofs` | types, that nobody gets a message twice, the cap of attempts; and what the screen shows: bubbles, ids, withdrawn notices |
| `MC_WaOutbox` | two messages, of which the second is automatic, in two passes |
| `SessionFamily` | one family of refresh tokens, the renewals of its tabs, and what ends it |
| `SessionFamily_proofs` | types, and that sessions end and are kept as promised |
| `MC_SessionFamily` | two tabs and their symmetry |

### ChargeIssuing and the code

| Variable | In the code |
|---|---|
| `row` | the row: `st` status (`none`: not inserted), `gid` `gateway_charge_id`, `card` `billing_type` is card, `claim` `issuing_until` (`Free` when null or past), `tries` `attempts`, `mark` the reason in `last_error` that `reopenExemptCanceled` looks for |
| `gw`, `gcard` | the gateway's charges, and those made on the card |
| `sub` | `billing_exempt`, `cancel_at`, a usable card |
| `ledger` | the external ids with a `payment_recorded` event |
| `job` | local variables of each process between two awaits, and where it stands |
| `notes` | webhook deliveries between their read and their write |
| `stalls`, `crashes` | how often the two rare things have happened |

An action is the code between two awaits that touch shared state. `job[p].pc` names
the next one. A pass of `issueCurrent` goes `begin` (subscription), `read` (row),
`claim` or `open`, perhaps `lookup` and the adoption steps, `prepare`, `recheck`
(subscription again), `call` (`createCharge`), then `mark` or `fail`, and `undo` or
`after`. A sweep or gesture goes `list`, `take`, `wipe` (gateway) and `close`; a reprice
`list`, `take`, `reread`, `wipe`, `reset`, `resetw`, `plan`; a settlement `list`, `take`,
`cash`, `record`, `settled`, `release`. `PROJECT.json` maps each definition to its lines.

`row.claim` records who wrote `issuing_until`. The code cannot know it and no guard of
the model compares it with the process that acts. Only the expiry depends on it: a
claim whose taker died (`Dead`) runs out under no bound, one whose taker lives runs
out only by `Stall`, the case of a call slower than `CLAIM_MS`.

What is merged or left out:

* The backoff (`next_attempt_at`) is absent: the scheduler may begin whenever it
  likes, which includes every schedule the backoff allows.
* Prices, plans, currencies, overage, add-ons, coupons, credit and prorations are not
  in the row. A reprice may find the price already right (`Reread`'s second disjunct).
* `followDeadline`, `cancelStale`, the reissue without a card, the repricing refused by a
  blocked downgrade, partial payments, refunds and pauses are not modelled.
* `Adopt` is one action for `markIssued` and the `billing_type` written after it;
  `SettleAtGateway` one for reading the charge and receiving it in cash; `Remark` one for
  the reading by mark and the claim, which checks the status `canceled` again.
* `attempts` stops counting at `MaxTries`: the code compares it only with that limit.
* Sweeps act on one row; other open rows of the provider are independent of it.
* `MarkFailed` is one action for two statements (`models/BillingCharge.js:549` and `558`: status and
  claim, then `attempts`), `WebhookSettle` one for the reading of the row by gateway id and the write by id
  (`controllers/billingWebhookController.js:126` and `128`).
* `Prepare` writes `billing_type` and `tries` whatever they were; the code patches only what differs from
  the row it read before the claim (`chargeIssuingService.js:1241`, `1273`).
* `AdoptSettle` always records and closes: that a settlement fails, is left for the webhook or is short
  of the price (`chargeIssuingService.js:1976`, `2036`) is left out.

### AcsSlots and the code

`gates` are the `Semaphore` objects of providers, `tenantGates` the map that holds them,
`global` the semaphore of the process. `Start`, `AskGlobal`, `Run` and `Finish` are what
`withAcsSlot` does between its awaits. `Finish` has both `finally` blocks: nothing awaits
between them. A waiter that gets a slot owns it at once and runs later, when its
promise resumes. `AcsLimits` is the promise itself: a set of requests in flight, and two
ceilings. `Implements` maps its `inside` to the calls that run.

### TenantCredit and the code

| Variable | In the code |
|---|---|
| `left`, `canceled` | `remaining_cents` of each row of `tenant_credits`, oldest first, and those with `canceled_at` |
| `allocs` | `credit_allocations` that are reserved or consumed; a released one is gone |
| `row` | `billing_charges`: status, gateway id, `issuing_until`, `amount_cents`, `credit_reserved_cents`, and what the gateway asks for |
| `recorded`, `refunded` | payments and refunds in the ledger |
| `proc` | the steps a request, delivery or pass has before it, and what its transaction read |
| `debited`, `late` | ghosts: what the console took; charges whose credit was let go by who came too late, or spent by the payment of an earlier emission |
| `unguarded` | ghost: charges whose claim the console's last release took from who had it |

A gesture is the list of its steps (`Starts`): an emission is `reserve`, `reread` and the
write of what the gateway said; a cancellation `cancel`, `release`; a payment `record`, `paid`,
`consume`; and so on. Four gestures of the console (cancel, settle, the price typed by hand, refund) end with
`finally`: the `finally` block releases the row by id, although the write of the gesture
(`issuing_until: null`) freed its claim already. Whatever `Finally` frees is another process's, and the charge
enters `unguarded`: from then on two processes may believe they have it. A write of the row that goes by a
condition keeps it: `Reread` writes the new gateway id only on a row that has none, and `Reset` clears the id
it read. A step that is a transaction is two actions: `Open`, its first read, and
the step itself. The writes of a transaction are conditional (`remaining_cents >= part`,
`status = 'reserved'`), hold their rows until the commit, and so take effect at once:
`Hit` is what was seen and still has the status, `Gives` the conditional decrement, and `Lacks` the
loop of `reserveForCharge` over the credits: what is still to be found after each. A later
read of the same transaction finds the snapshot of the first (MySQL) or what was committed
since (PostgreSQL): `Again` and `StockAgain` allow both.

`CreditCycle` is the cycle that `models/TenantCredit.js` promises: cents go from free to set aside on
a charge, from there to spent, and from either back to free, or away if their credit was canceled. It knows
neither processes nor allocations nor rows. One step moves cents of one charge; a payment (`Consume`)
touches nothing that is free, and only an emission (`Reserve`) sets aside. `Implements` maps `free` to `left`, `taken`
to `debited`, `gone` to `canceled`, and `held` and `spent` to the sums of the allocations of each charge
and credit (`OnCharges`). `Reserve` is a `Reserve`, `Record` and `Consume` are a `Consume`, `Release`, `Restore` and
`Reverse` are a `Release`, and every step that only reads, or only writes a row, is none.

What is left out: credits given while the model runs; claims that expire (`ChargeIssuing`
has them): two processes then have one charge, as after a `finally`, and the properties that except
`unguarded` would except it too; gestures the gateway refuses, which write nothing; a cancellation by the
retention flow right after an emission (`chargeIssuingService.js:1463`); the move of the due date
(`followDeadline`); the reading of a paid row by gateway id and its
write by id apart (`controllers/billingWebhookController.js:126`, `128`); boletos paid after they were superseded or canceled, and payments short of the
price; an error of the database inside `reserveForCharge`, after which the charge goes out at
the full price; a process that dies between the write of a status and the release of its
credit (the code has a sweep for reservations of canceled credits only); and a charge settled
without having been issued. A debit takes one cent at a time.

### WaOutbox and the code

| Variable | In the code |
|---|---|
| `row` | `wa_messages`: `delivery_status` (`gone`: deleted), `external_id`, `attempts`, `next_attempt_at` in the future |
| `body` | the text, which never changes |
| `pass` | `tickForTenant`: the half it is in, the ids it listed, the message it delivers and the answer it got |
| `hook` | a webhook delivery: the echo it handles and the row it chose |
| `twins` | rows that `adoptEcho` did not find and the handler inserted |
| `sends` | what the messaging server accepted |
| `lost`, `unwritten` | ghosts: copies whose outcome could not be written; those of them whose answer had come, and whose write failed |
| `died` | ghost: claims of each message that ended with nothing written, since it was written or put back |

A pass goes `Tick`, `Claim`, the server (`Answered`, `AnswerLost`, `Refused`), the write
of the outcome (`MarkSent`, `MarkWithoutId` after a clash with the unique index,
`RecordFailure`), the next message, then `ListBulk` for one automatic message. Each of its writes may
fail, or succeed and fail at the read that follows it (`WaMessage.update` ends in `getById`): at the claim the pass
ends with the row `sending` (`ClaimBreaks`); after the dispatch the error is thrown again
(`waOutboxWorker.js:351`, `363`), the catch around it takes it for a send that failed, and `RecordFailure`
follows (`MarkBreaks`); there the pass ends (`RecordBreaks`). An echo goes
`Echo`, `Pick`, `Adopt` or `Insert`. Around them stand receipts, a late refusal, the
operator's requeue, the deletion of a notice whose invoice was paid, the end of a backoff
and a crash.

What is merged or left out:

* The ceiling per minute, the pace of automatic messages and their hours only decide when a
  pass stops (`EndPass`). `BATCH_LIMIT` is above any number of messages here.
* A claim is reclaimed after `RECLAIM_MS` only when its pass died: a request to the server ends
  in 15 seconds (`evolutionClient.js:10`), far below it.
* `delivered` stands for delivered and read; `listSendable`'s two queries are one reading, the
  second only takes messages away; `Claim`'s `UPDATE` and the read after it are one action, unless the read
  fails; `stillDue` and the withdrawal by a payment are both `Withdraw`.
* An answer always has an id. `readSentId` may find none in it; the row is then `sent` without one,
  as after a clash.
* `Reply` stands for what `withoutOvertakers` compares: conversation, a source of `ORDERED_SOURCES` and
  `SIBLING_WINDOW_MS`. Parts of a reply have one source, so they are all automatic or none is.
* Bounds of the model: only one message may have further copies (`Accepts`); crashes, requeues and failed writes
  are counted together (`MaxRare`).
* Receipts and echoes are of ids the server gave. Incoming messages, menus and media are not
  modelled.

### SessionFamily and the code

| Variable | In the code |
|---|---|
| `tok` | `refresh_tokens` of the family, in the order of the chain: `rotated_at`, `revoked_at`, `token_version` |
| `stale` | tokens below it were rotated before the grace of ten seconds |
| `version`, `member`, `lapsed` | `token_version` of the person; their membership; the newest token is past its expiry |
| `jar` | the browser's cookie |
| `tab` | each request to `/refresh`, between its awaits |
| `gesture` | signing out of one device or of all, or changing the second factor |
| `ended`, `missed`, `behind`, `crossed` | ghosts: what was asked, and the four ways it may be spoiled |

A renewal reads its token (`Find`), the person (`ReadUser`), rotates in one transaction
(`Rotate`) or follows the links of a token that was rotated already (`Follow`), reads the
membership (`Access`) and answers (`Arrive`, or `Drop`). The successor of a token is derived from
it, not drawn, so a token is its place in the chain. The `UPDATE` that revokes a family is
two steps, `Look` and `End`: on PostgreSQL a row committed while it waits for a lock is not seen.
On SQLite and MySQL the two come one right after the other, which is one of the model's runs.

What is left out: more than one family and their `prune`; one gesture at a time; a new login
in the same browser; the older tokens without a family; impersonation, lockout and the
tickets of the second factor; a person whose row was deleted. `Lapse` (seven days) comes only
when nothing is under way.

## 3. Runs

Each passing run explores its whole state space, in four minutes at most; `sessions` and `outbox` are
the largest, with some five and three million distinct states.

| Run | Question | Bounds |
|---|---|---|
| `reprice` | Do claims exclude, is `ExclusionInv` an invariant, and is a live charge ever forgotten, with clicks, plan changes and every answer of the gateway? | 2 processes, 2 charges, 1 try, 1 crash, no stall |
| `stall` | The same for `NeverForgets` when a claim may run out under a living process; and, without the answers "safe" and "rejected", is the card charged once? | 2 processes, 2 charges, 1 try, 1 stall, 1 crash |
| `gestures` | Is every claim given back, and nothing paid that is not in the ledger, with retention, cancel, settle, life-cycle notices, and clicks, which reopen a canceled row? | 2 processes, 1 charge |
| `recovery` | Does the scheduler alone bring an unissued row out of that state, and does every claim end? | 2 processes, 1 charge, 2 tries, 1 crash |
| `slots` | Caps, no idle slot while somebody waits, order of arrival, everybody served, refinement of `AcsLimits` | 4 calls of one provider and 2 of another, both caps 2, 3 semaphores |
| `credit` | Is every cent of credit somewhere, exactly once; does the credit follow its charge; is a discount backed? Refinement of `CreditCycle` | 2 processes, 2 charges, credits of 2 cents and of 1, price 3, floor 1, 4 gestures in all |
| `outbox` | Does anybody get a message twice, or more attempts than the cap, does its bubble double, and does the screen say what was sent? | 2 messages, 2 passes, 1 webhook delivery, 2 texts, 2 attempts, 1 crash, requeue or failed write, 2 copies of either |
| `sessions` | Does a session that was ended stay ended, and is anybody signed out by their own tabs? | 2 tabs, 4 tokens, 2 links, 1 change of version |

Why the bounds are enough to meet the interesting cases. Two processes give every
race of a pair, and each of them may begin again after it ends, so three operations
may follow or overlap one another. Two charges are one issued and its duplicate, or the one before and
after a reissue; `gestures` and `recovery` ask about claims, tries and the ledger, for
which one charge is as good as two. In `recovery` two tries let an attempt fail, be
retried and be given up. In `slots`, four calls against a cap of two make a line of two
before the provider's semaphore; six calls of which four pass the first gate make a
line of two before the process's. A semaphore outside the map and held by no call is
garbage, so two in use and one to create are enough. The two caps come from the
environment, and the global one need not be the larger.

In `credit`, the price less the floor is 2: an emission empties the large credit, or, once the console
took a cent of it, takes from both; on the second charge it finds less than it wants. Four gestures are an emission,
what undoes it, and two that race with either. In `outbox`, an automatic message and another
meet in both halves of a pass; two texts make
messages with equal and with different ones; two copies are the one whose outcome was not written and the
next; one crash, requeue or failed write is enough, since the properties except each by name: after a
requeue, say, no message may have one attempt more than before it. In `sessions`, four tokens allow three rotations: a renewal may be overtaken by one
more than the two links it may follow, so that both outcomes of the limit happen. The code has a limit of
three links; the proofs are for any.

`outbox`, `credit` and `sessions` do not check for deadlock: they stop when every message, gesture
or token of their bounds is used up, which is no error.

Symmetry (processes, charges, passes, texts and tabs are interchangeable) is used in safety runs only.

### Fairness

`Recovers` and `ClaimReleased` assume that a living process takes its next step, that
the scheduler begins another pass, that the gateway delivers a payment again until
it is recorded, and that a dead claim runs out: the event loop, the scheduler's timer,
the gateway's redelivery and the clock. Nobody is assumed to click, to pay, or to get
a good answer: `Recovers` ends in "given up" if the gateway always fails. `Served` assumes
that resumed promises run and that a request ends, which its deadline sees to: it is
armed once the request has its slots (`genieacs/direct.js`). It does not assume that calls
are made.

### What the four violation runs show

Each is a disagreement between the code and a comment of the same code, found as a
short trace by TLC.

* `paid_reissued`. A pass reads an unissued, failed row. The console settles it. The claim
  of the pass asks only that the row be free and unissued, not what its status is
  (`chargeIssuingService.js:1204`), so the pass issues a charge and sets the paid row
  pending. Line 1146 says that paid rows stay closed for everybody.
* `swept_live`. `cancelOpenCharges` reads the row before it is issued, then claims it, and
  cancels at the gateway the id it had read, which was none. The row is closed with its
  new charge alive, what the comment at lines 333 and 334 says must not happen.
* `card_twice`. The answer of a card charge is lost; the row says card and has no id, and
  would be looked up. A plan change resets it and clears `billing_type`
  (`models/BillingCharge.js`, `resetForReissue`), so the reissue does not look and charges
  the card again. Line 1219 relies on that trace.
* `outbox_answered`. The server accepts a message and its answer reaches the panel. The write of the outcome fails,
  not by a clash of ids; line 351 of `waOutboxWorker.js` throws the error again, `recordFailure` puts
  the row back, and the customer gets it a second time. Lines 330 and 331 say that from the dispatch on
  no failure may go back to `recordFailure`, for this reason.

### What no run states

The modules have three more traces in which the code goes against its words. No run has a property that
claims the contrary; the passing runs state what does hold.

* A charge paid and then overdue (`ChargeIssuing`). `atualizarCiclo` reads the row open (`LifecycleRead`), the
  payment closes it, and the write by id makes it overdue (`LifecycleWrite`). Line 155 of
  `controllers/billingWebhookController.js` says only what is open becomes so.
* A claim freed by another (`TenantCredit`). The console cancels a charge; the write frees the claim. Before its
  `finally` (`controllers/platformSubscriptionsController.js:768`) somebody reopens the charge and a pass claims it. The
  `finally` frees that claim, and a second pass claims too. Both reserve: the second returns the reservation of
  the first, and the first goes on to the gateway with the price it had computed. Lines 1307 to 1309 of
  `chargeIssuingService.js` say that the reservation is made with the claim, and that what goes to the gateway is the price
  less what is reserved. `DiscountBacked` without its exception for `unguarded` fails on this trace.
* Parts of a reply out of order (`WaOutbox`). Parts 1 and 2 are queued and `Tick` lists both. The pass claims part 1,
  the server is down, `RecordFailure` puts it back with a backoff. The pass goes on to part 2 of the same list:
  `Claim` asks only `sendable` (`models/WaMessage.js:307`), which part 2 is, and it goes out. `withoutOvertakers` works
  when the failure comes before the listing. Its comment (`models/WaMessage.js:241`) says the parts must
  arrive in order, and that a part waits while an older one is waiting for its retry.

### Properties that hold only under a premise

* `ClaimExclusive` has the premise `stalls = 0`: a claim that runs out under a living
  process lets a second one in. The duplicate is then undone, which `NeverForgets` checks.
  It also does not hold with retention and the console gestures: the `finally` that releases the
  row, and the closing writes, free whatever claim there is, another process's too.
* `OneCardCharge` is checked without the answers "safe" and "rejected": `billing_type` is
  read before the claim, so an attempt made and lost by another pass in between is not
  looked up. It fails with reprices (`card_twice`).
* `NeverForgets` excepts a crash and the duplicate whose cancellation failed, which the
  code writes to the log to be cancelled by hand. The runs have reprices or stalls, not both: a reprice
  that took an unissued row whose emission stalled withdraws nothing, and `resetForReissue` then reads the id the
  emission has just written and clears it, with the charge alive.
* `DiscountBacked` excepts charges in `late`: the sweep of a canceled credit takes no claim, and the
  release at the end of a cancellation or reset comes after the claim was let go, so another pass may
  have reserved in between and loses its reservation while the discount stands. It and `CreditFollows` also
  except charges in `unguarded`, whose claim the console's last release took from who had it.
* `CreditFollows` has the same exception for what a refund gives back. A payment whose delivery is slow, of
  an emission that was reset meanwhile, spends what the next emission has set aside (`consumeForCharge` goes by the
  charge, not by the emission); a refund that gave the credit back before that spending leaves it spent. It takes
  two passes, a reset and a refund besides the payment, more gestures than the bound of `credit`; the proof found it,
  and an instance with one charge and more gestures confirmed it.
* `SentOnce`, `OneBubble` and `WithdrawnStays` except messages with a copy in `lost`, whose outcome nobody could
  write: an answer that never came, or came to a process that died, which no sender can tell from a copy that did
  not go out; and one whose write the database refused, which the code could tell (`outbox_answered`).
* `AttemptsCapped` allows one attempt more for each claim that ended with nothing written (a crash, a read after the
  claim or a write of the failure that broke): such a claim is taken up again whatever it had used. Each counts
  for its own message only, and a requeue sets the count back with the attempts.
* `OneBubble`, `ShownIsSent` and `WithdrawnStays` are about messages whose text no other has
  (`OwnText`): `adoptEcho` compares texts, and may give the id of one message to another with the same text.
* `EndedStaysEnded` excepts `missed`, a successor committed while PostgreSQL's `UPDATE` waits; `AllOut` has no exception.
* `KeptSignedIn` is about tabs that renew together. It excepts `behind` (any lost or overtaken answer, or a renewal slower
  than the grace or than the limit of links): that the old cookie still serves within the grace
  after a lost answer, as `models/RefreshToken.js:22` says, is outside of it. And it excepts `crossed` (a renewal
  under way while the version changes, or a change that failed half way).

## 4. Proofs

`tlapm` checks them for any sets of processes, charges, calls, messages and tabs and any
values of the bounds. Each component's proofs have one lemma per action, or group of actions,
and one step per conjunct it can disturb; what an operator returns is a lemma proved once.

* `ChargeIssuing_proofs!TypeCorrect`: `Spec => []TypeOK`. `AdoptSettle` writes `job.made` to
  the ledger, so types alone are not inductive: `HandsFull` says that a process at a step
  that acts on a charge has one.
* `ChargeIssuing_proofs!ClaimExcludes`: if `Gestures` has only clicks and
  reprices, `Spec => []ClaimExclusive`. The inductive invariant is `ExclusionInv`:
  `Quiet` (what these gestures never reach), `Seen` (a row not yet inserted is nobody's)
  and, while no claim has run out, `Owner`. `Owner` says which steps hold the claim
  (`Fits`), and what happens in the one case where the claim is taken from its owner: the
  closing of an adopted payment clears it under a reprice. Then the row's charge is paid, so the gateway
  refuses the withdrawal and the reprice never gets to rewrite the row; `Apart` keeps the
  two from being further along at once. The assumption on `Gestures` is needed, as said above.
* `ChargeIssuing_claim_proofs`: `ClaimHasOwnerAlways` and `PaidMeansRecordedAlways`, for all gestures,
  answers, stalls and crashes. `HeldInv` lists the steps at which a process may have the
  claim, and says that nobody gave the row a charge under one that has it since before the call:
  every statement that writes a gateway id clears the claim, whoever had it. Without that the
  owner could find the row issued when it writes its own charge, and undo that charge
  with the claim in hand, a path that gives none back. `RecordedInv` says that the ledger
  has a payment before any process or delivery is about to close the row as paid. `ActMay` is
  what a step may do to claim, charge and ledger; `StepMay` shows it of each action.
* `ChargeIssuing_gateway_proofs`: `NeverForgetsAlways`, with clicks and reprices, and `OneCardChargeAlways`,
  with clicks and answers in `{"ok", "lost", "refused", "error"}`. Both build on `ExclusionInv`. `ForgetInv` says that a
  row about to be rewritten has no charge that can be paid: under the claim, what was withdrawn is
  the row's charge, and nobody else is on the way to placing one (`RewritesAlone`). `Sure` excludes
  reprices whose claim runs out, as said above. `CardInv` says that while the card is usable whatever was created
  is on it and every pass and the row say so, hence no reading of `billing_type` is stale and who
  comes to create has inserted the row or looked and found nothing; once the card is refused nobody uses it again.
* `AcsSlots_proofs`: `SlotTypes`, `TenantBoundAlways`, `NoSlotIdleAlways`, `InOrder` (nobody who
  waits is overtaken) and `SlotsImplement`, that the slots refine `AcsLimits`. The invariant `SlotInv` says that a semaphore's count is the
  number of calls that own its slots and its line is who waits, each once (`Sound`); that a call that
  is in has the semaphore its provider has in the map (`Placed`); and that providers share none
  (`Apart`). `AcquireIsSound` and `ReleaseIsSound` are the two facts about a semaphore.
  `Placed` is why dropping one from the map is safe: an idle semaphore has no owner and no line, so
  no call of its provider is in. For `InOrder`, `LineMoves` says that a line changes only at its end and
  its head, and `SlotInv` that no slot is free while there is a line, so who comes later goes to its end.
* `WaOutbox_proofs`: `TypeCorrect`, `SentOnceAlways` and `AttemptsCappedAlways`. `IInv` adds to `SentOnce` who may still
  send a message and what its row then says: one pass holds it (`OneHolder`) and its row says so
  (`HolderRow`); a pass that has not sent holds a message of which no live copy exists
  (`NotSentYet`), one with an answer the only live copy (`OnlyThis`); and a live copy
  is in the hands of a pass or its row is settled (`Accounted`), so that nobody claims it again.
  A copy whose write failed is one of `lost`, so the row that goes back to the queue has no live copy. The cap
  needs `Counted`: a row nobody has is below it, because only a claim that died (`died`) leaves one that used
  them all, and a pass remembers no fewer attempts than its row counts, whatever a requeue did.
* In the same module `ShownIsSentAlways`, `OneBubbleAlways`, `WithdrawnStaysAlways`. `EInv` follows the
  ids: those of passes, rows and deliveries are of copies that were accepted (`OwnAnswer`, `RowIds`,
  `HookIds`), and a row chosen for an echo says what the echo says (`SameText`). `SentOnce` then
  makes the id an echo brings the id of the row's only copy. `InsertKnows` is the hard part: an echo that
  found no row to adopt finds its id taken when it comes to insert a bubble. A row that went out
  and has no id is `sending` or `sent`, so the echo would have adopted it.
* `SessionFamily_proofs`: `TypeCorrect`, `EndedStaysEndedAlways`, `AllOutAlways`,
  `KeptSignedInAlways`. `Shape` says that cookies and renewals know only tokens that exist, and
  that what a renewal read of a rotation stays true. `AllOut` follows from `Versions` and
  `Outdated`: from the change of version on, every token and every row read is older than the
  person. `KeptSignedIn` needs `Fine`: while nothing that may end a session happened, somebody holds the
  newest token (`NewestIsHeld`), every token presented is in its grace and of the person's
  version (`GoesWell`), and the second factor changes with no renewal under way (`ChangesAlone`).

* `TenantCredit_proofs`: `TypeCorrect`, `ConservedAlways`, `CanceledStaysEmptyAlways`, `CreditFollowsAlways`,
  `DiscountBackedAlways`, `CreditImplements`, for any credits, charges, processes and prices. The invariant `IInv` follows each process along its
  plan (`Planned`: the steps it may still have, in every gesture). The number of a pass is its own until it reserves
  (`Fresh`, `Numbered`). What follows is said of one charge (`Guarded`), and of those outside `unguarded` only
  (`Local`): the claim has one owner, who finds the gateway id it read, or none (`Claimed`), and a `finally` that frees
  a claim ends it. Nothing is set
  aside once the payment is in the ledger, whoever is about to write saw all that is, and who is about to issue
  has on the charge the discount of the price it will ask (`Watched`). `Cleared` and `GivenBack` say who is still to
  come for what should not stay on a charge; `Backed` when the discount may be missing: between the ledger and the
  row, and between a price typed by hand and the release after it. When nobody works on a charge these exceptions
  are void, which leaves `CreditFollows` and `DiscountBacked`. `StepKept` reduces each action to its own charge: one process moves one step,
  and what is said of the other charges is kept. `RowKept` and `LotsKept` do so for a write of the row and for a
  transaction; the lemmas `ClaimedKept` to `BackedKept` say when each part survives a step. `CreditImplements` takes from the
  invariant that lots are finite, unique and of some cents (`Sound`) and that who writes read its own charge
  (`Planned`, `Hits`); then `ReserveImplements`, `ConsumeImplements` and `ReleaseImplements` map each kind of
  transaction, by the sum of what left a set of lots and what stayed (`CentsPart`).
* `TenantCredit_sums`: `Cents` of a union, of a part and of an image. The library's induction theorems
  take an operator as a parameter, which the provers cannot instantiate; its statement that a well-founded relation has
  minimal elements (`WFMin`) takes none. So a law of sums is proved of a least counterexample among the finite
  subsets, and `LacksFolds` and `NewLots`, about the recursion of a reservation over the credits, of a least number.

The assumptions are those the modules state on their constants and nothing else. The parts of
the invariants that are not themselves invariants of a run were checked with TLC
on the same instances before they were proved; `ExclusionInv` is an invariant of the run `reprice`, and proved
as `ExclusionAlways`.

Only model-checked: liveness under fairness, out of the prover's reach: `Recovers`, `ClaimReleased` and `Served`.
Every other property of a passing run is a theorem. `IInv` of `TenantCredit` was checked with TLC on instances of two
processes, two charges and four gestures, and of three processes, one charge and five gestures.

## 5. Plan

Done: `ChargeIssuing`; `AcsSlots` over `AcsLimits`, with its proofs; `TenantCredit`, `WaOutbox` and
`SessionFamily`, with their proofs. In order, what comes next:

1. `SchedulerLease`: acquire, renew and release by compare-and-swap on the row read, the
   ticks that collapse, instances that stall; one leader unless a stall outlives the lease. Abstractly,
   a lease is an interval of leadership.
2. `PaymentLedger`: deadline and events of `recordPayment` and its reversal, read outside and
   written inside the transaction; one period per reference. With it, superseded charges paid
   late and the credit they carried.
3. `AgentHub`: connections, replacement, key generation read after an await, pending requests.
4. `WaOutbox`: what must eventually happen (a message ends after its attempts, a requeued one
   goes out unless it kept an id), on an instance small enough for fairness.
5. `SessionFamily`: a renewal whose answer was lost, tried again with the old cookie within the grace.
6. Outages and delinquency: detection over samples, one notice per step.

Proofs to come: leadership in `SchedulerLease`.

Not modelled, and no candidates: tenant scoping (a filter, nothing interleaves), price arithmetic of
add-ons and coupons (the charge abstracts the price), mapping of device parameters, ERP
adapters, backups, and the front end, which hold no state of the server that two actors
share. They are most of the repository's lines. Invoices (NFS-e) and the inbound
conversations have a queue and a state of their own, and may follow the plan above.
