# Formal models of Maru

Maru is a Django application for running conventions: organizations hold event
editions, people register for them, and the side effects of what they do (emails,
inbox messages) go through a transactional outbox that separate worker processes
drain. People pay through a hosted provider, check in at a desk or at an
offline device, and goods are tracked by scanning them. The modules here model the
parts of it in which several processes or transactions meet, check them with TLC on
small instances, and prove with TLAPS, for every instance, every safety property that
the passing runs check but one (section 5), the three refinements among them. `PROJECT.json` maps every
definition to the lines it stands for, lists the runs, the mutants (a
plausible bug for every property, which the property must catch), the hazards and
the findings.

Paths below are relative to `src/src/maru/` unless they start with `docs/`.

## 1. Inventory

| Component | State | Operations | What is hard |
|---|---|---|---|
| **Effects outbox** `effects/services.py`, `models.py` | `OutboxMessage` rows (status, lease, attempts, budget), append-only `EffectAttempt` and `EffectReplayReceipt` | publish, enqueue, claim, take over, quarantine, three settlements, cancel, replay | leases that expire under their holder, late settlements, the last attempt, a budget that grows by replays |
| **Database guards** `effects/migrations/0002, 0003` | none of their own | triggers, CHECK and UNIQUE constraints | the same transitions are stated twice, in Python and in SQL; a disagreement stops a worker for good |
| **Effects worker** `effects/worker.py`, `supervisor.py`, `management/commands/` | supervisor and child processes, deadlines | start a child, claim, run a handler, settle, kill | handlers that hang, crashes of either process, orphans, three timeouts that must be ordered |
| **Tenant scheduler** `effects/supervisor.py` | the tenant served last | `select` | fairness when tenants run dry and come back |
| **Notification delivery** `communications/services.py` | `NotificationMessage`, `NotificationDelivery`, preference | two handlers, send, record, suppress, mark read | a provider outside the database transaction, at-least-once invocation |
| **Registration capacity** `registration/services.py`, `commerce.py`, `availability.py`, `guardians.py`, `finance.py`, `restrictions.py` | registrations, upgrade holds, entitlements, capacity adjustments | submit, pay, waive, extend, check in, upgrade, adjust, batch offers, consent, cancel, restrict, expire | counts taken under different locks or from different numbers, deadlines that race payments, promotions, one pass over many editions |
| **Payments** `registration/payments.py` | intents, webhook receipts, exceptions, payment entries of the ledger | create intent and checkout, reconcile a webhook | a provider outside the transaction, events that are duplicated, late, reordered or about an intent nobody knows yet, payments that race deadlines, cancellations and the closing of the edition |
| **Operational finance** `registration/finance.py`, `payments.py`, `restrictions.py` | operations under dual control, ledger, exceptions, settlements with allocations | propose, approve, refund and dispute events, restrict, resolve, settle | refunds proposed against one balance, events that name no operation, statements that overlap |
| **Accreditation** `accreditation/services.py`, `models.py`, `admin.py` | credentials, signed manifests, relay devices with a sequence, offline operations | issue, revoke, restrict, generate a manifest, reconcile an offline check-in, administer a device | devices that are offline, uploads in any order, a desk that works beside them, manifests generated at once, a stale form, scans that come in after the closing |
| **Logistics** `logistics/services.py`, `models.py`, `migrations/0002` | an append-only event log, one projected row per subject, manifests, offline batches and receipts | record an event, receive a line, draft, seal and complete a manifest, ingest a batch | containment that must stay a tree, clients and devices with old knowledge, lost answers, a service and a trigger that judge the same scan |
| Registration configuration, identity, authorization, audit, applications, programme, scheduling, workforce, venues, catalog, charities, events, organizations, privacy, announcements, knowledge, participation, demo, core, staff console | versioned rows, mostly one row lock per command | create, update, review, publish | see the notes in `PROJECT.json`; not modelled |

How they interact. A domain command (a submission, a restriction, a payment)
publishes its domain event and the outbox row in its own transaction
(`publish_domain_event` refuses to run outside one). A supervisor asks
`eligible_tenant_ids`, lets `FairTenantScheduler` choose, and starts one child that
claims one delivery and calls its registered handler; for notifications that is
`deliver_registration_notification` or `deliver_restriction_notification`.
Registration commands share the rows of one edition: the locks that
`select_for_update` takes, also on rows joined by `select_related`, decide what is
atomic. The lifecycle command, finance and identity restrictions call
`_promote_waitlist_for_product` when a place becomes free. The provider's webhooks
confirm registrations and complete upgrades, a restriction proposes refunds, a check-in
comes from the desk or from a relay device. An edition that is archived or cancelled
is closed to all of them at once: the trigger `maru_guard_registration_record`
(migration 0038:239-242) refuses every write of one of its registrations, and with it
the transaction that makes it. Logistics shares nothing with them but the
edition.

What would make each correct:

- *outbox*: no attempt is lost or counted twice, nothing gets stuck, a success is
  final, operators cannot exceed the ceiling, and the database agrees;
- *worker*: a supervised handler never runs beside another one of the same
  delivery, a success was really delivered, every delivery is eventually settled;
- *scheduler*: no tenant monopolises the worker or starves;
- *notifications*: no email leaves uncounted, a settled delivery is quiet, and
  (as the documentation has it) nobody gets an email twice;
- *registration*: no oversubscription, entitlements that agree with the admission,
  policy that decides about waitlists, and places that come back;
- *payments*: each provider event is judged once, an admission or upgrade becomes paid
  exactly when one event is credited for it, and no reported success disappears;
- *finance*: no refund without evidence or beyond what was paid, no entry settled
  twice, nobody approves their own proposal, and the database agrees;
- *accreditation*: a person arrives once, the history of a device has no gap,
  revocations reach later manifests, and every scan is answered;
- *logistics*: containment is a tree, rows are what the log says, a scan counts once,
  a batch that is closed needs nobody's attention, and the database never refuses a
  batch for good.

## 2. Modules

| Module | Models | Built on |
|---|---|---|
| `OutboxGuard` | what the triggers and constraints accept: the abstract specification of the outbox | |
| `EffectsOutbox` | the service functions | implements `OutboxGuard` |
| `EffectsWorker` | processes around the outbox | extends `EffectsOutbox`, implements it |
| `TenantScheduler` | `FairTenantScheduler` in the worker loop | |
| `NotificationDelivery` | the email handler and its provider | |
| `RegistrationCapacity` | places of one edition | |
| `PaymentPromise` | what reconciliation promises about provider events: an abstract specification | |
| `Payments` | intents, checkouts and the reconciliation of events | implements `PaymentPromise` |
| `Finance` | refunds, disputes, exceptions and settlements once money has come in | |
| `Accreditation` | credentials, manifests, relay devices and the front desk | |
| `Logistics` | event log, containment, manifests and offline batches | |
| `MC...` | constants of the small instances | |
| `Effects_proofs`, `TenantScheduler_proofs`, `NotificationDelivery_proofs`, `RegistrationCapacity_proofs`, `Payments_proofs`, `Finance_proofs`, `Accreditation_proofs`, `Logistics_proofs` | theorems and their lemmas (section 5) | the module they are named after; `Effects_proofs` is about `EffectsOutbox` and `EffectsWorker` |

Definitions called *Variant* are the faulty forms that the mutants put in place of a
definition; no specification uses them.

### EffectsOutbox and OutboxGuard

One variable per column (`status`, `availableIn`, `leaseLeft`, `leaseToken`,
`attemptCount`, `maxAttempts`, `replayCount`) as a function of the row, and the sets
`ledger` and `receipts` for the two append-only tables. Every service function is one
`@transaction.atomic` block that locks the row it writes, so each is one action:

| Action | Code |
|---|---|
| `PublishDomainEvent`, `EnqueueEventDelivery` | the functions of the same name |
| `ClaimNextEffect` | `claim_next_effect` with a row found; a takeover writes the lost attempt of the previous holder |
| `QuarantineExhausted` | `claim_next_effect` without one, then `_quarantine_exhausted` for the spent rows it can lock |
| `FinishEffectSuccess`, `...TransientFailure`, `...PermanentFailure` | the three settlements, guarded by `_locked_claim` |
| `CancelPendingEffect`, `ReplayQuarantinedEffect` | the operators' two calls |

A settlement may come from the holder of *any* claim ever made on the row
(`k \in 1 .. attemptCount[m]`), so late and repeated calls in every order are part of
the model. A lease token is named by the attempt it was issued for, as a fresh uuid4
is. Instants are count-downs that stay at 0 once passed, which keeps
`lease_expires_at <= now` and `available_at <= now` and drops the rest of the clock.
`SKIP LOCKED` makes the choice of a row among the candidates nondeterministic.
`OutboxGuard` is a specification over the same columns whose steps are the writes that
`maru_guard_outbox_message`, `maru_guard_effect_replay_receipt`, the append-only
attempt trigger and the constraints let through. One check is left out: the actor of a
replay must be an active account (migration 0003:39-48), which accounts would have to
be modelled for; a replay refused for that reason rolls back and changes nothing.

### EffectsWorker

`child` is the state of every process slot (where it is, who supervises it, its
`ClaimedEffect`, its deadline, the time left to its hard timeout), `delivered` a
history of the attempts whose handler returned. A child claims, starts its handler
and settles in three separate steps; clock, kills, crashes, other children,
publishers and operators come in between. `subprocess.run` kills at the hard timeout,
so time does not pass while a kill is due. A supervisor that dies leaves its child
behind without a hard timeout (`SupervisorCrashes`); slots beyond one per supervisor
bound the orphans. Handlers return, raise or hang. `WorkerOptionsAssumption` is what
`effects_worker` validates, and nothing more.

### TenantScheduler

Tenants are numbered in the order in which `select` sorts their identifiers; the work
of a tenant is a queue length, one cycle of the loop settles one delivery.
`passedOver` and `disturbed` are histories for the fairness property.

### NotificationDelivery

One notification of one event. An invocation is: create the inbox message, first
transaction (skip, suppress, or count the attempt), `send_mail`, last transaction
(success or refused recipient). The provider takes the email, refuses the recipient,
or fails with or without having taken it. Invocations may crash anywhere.
`supervised` is fixed at the start: TRUE is what `SupervisedKeepsLease` gives for
supervised children (invocations do not overlap), FALSE allows orphans and overlong
handlers.

### RegistrationCapacity

Per account: state, product, confirmation basis, payment deadline, upgrade hold and
entitlements; per edition: effective limits (the last adjustment of the ledger), open
sale periods and active accounts. Which transactions are atomic follows from the rows
they hold:

| Transaction | Rows locked | In the model |
|---|---|---|
| submission | participation, configuration, product | atomic |
| upgrade reservation, capacity adjustment, waitlist batch | configuration and product (and registration) | atomic |
| guardian consent | consent, registration, configuration, product, edition | atomic |
| lifecycle transition | registration, account, product, configuration, edition | atomic, one for each candidate of a pass |
| approved cancellation | operation, registration, product | two steps: counts, then locks whom it promotes |
| attendance restriction | registration, product, edition | two steps, as above |
| payment of an upgrade | judged by `CURRENT_TIMESTAMP`, the start of its transaction; locks later | two steps |
| payment, waiver, extension, check-in | registration (and product or edition) | atomic |

Between the two steps other transactions run on the committed rows (READ COMMITTED)
unless they need a locked one (`Locked`, `ProductLocked`, `EditionLocked`; a new
registration references its edition row and so waits for a restriction, other inserts
carry the edition as a plain UUID). The history variable `raced` records whether
anything ever happened between the two steps of a transaction, so that a property can
tell what goes wrong without concurrency from what needs it; `MaxInflight = 0` leaves
the two-step transactions out of a run.

`process_registration_lifecycle` reads its candidates without locks
(`BeginLifecyclePass`) and then visits them one by one, each in a transaction that
locks and judges it again (`CloseCandidate`, `SkipCandidate`). A pass may be about one
edition or about all. The edition of the model stays open; others may be closed
(`CloseOtherEdition`), with a registration that is due. The trigger refuses to expire
that one, nothing handles the error, and a pass over all editions ends there: `behind`
is the set of the accounts whose registrations were submitted later, which no such pass reaches.
It only grows, since a registration of a closed edition is due for ever. Passes over one
edition are not affected.

`TriggerAcceptsTransitions` is about the table of transitions of that trigger. Its
refusal of closed editions appears here only through `behind`.
The action `CommitClosure` writes the closed registration and the promoted one
together, because both become visible at the commit.

The waitlist is a set from which any entry may be taken: a superset of the FIFO
orders. Minors stay `guardian_pending` until consent.

### Payments and PaymentPromise

`PaymentPromise` knows events, charges (an admission or an upgrade of a registration)
and nothing of rows: an event is judged once, as credited, flagged or noted, a credit
serves a charge that is not served yet, and a reported success is never merely noted.
`Payments` implements it (`KeepsPromise`): the verdict is read off receipt, exception
and ledger entry together, so that a receipt without its entry, or an entry without
its receipt, has no counterpart and breaks the refinement; a charge is served when the
registration is confirmed by the provider or its upgrade is completed.

`create_payment_intent` is three steps: the transaction that inserts the intent, the
call to the provider, and the transaction that stores the reference or marks the
intent uncertain. The process may die, and the answer may be lost, between them,
whether or not the provider has made the checkout. `reconcile_verified_payment_event`
is two: it looks for a receipt without any lock (`BeginDelivery`), then locks intent,
registration and upgrade and does everything else (`FinishDelivery`, one disjunct per
branch of the code). Two deliveries of one event can pass the first step; the unique
constraint on receipts makes the slower one roll back. A delivery remembers whether
the hold of the upgrade was over when its transaction began, because the trigger on
the registration compares with `CURRENT_TIMESTAMP`. An upgrade whose registration is
gone, or whose hold was over by then, makes `complete_admission_tier_replacement` or the
trigger refuse, and the whole transaction rolls back, receipt included
(`UpgradeRollsBack`).

When the edition is closed (`CloseEdition`: cancelling asks nothing; archiving asks for
no unpaid registration where `ENFORCE_EDITION_CLOSURE_GATES` is set), a payment that
came in time can no longer confirm its registration. The trigger refuses the row and the
transaction rolls back at every redelivery (`ConfirmationRollsBack`), receipt included.

A waiver, an expiry, a cancellation and a restriction all end in `closed`: for this
module they only make a payment no longer current. `confirmed` stands for `checked_in`
too, which the code treats alike here.

### Finance

Starts where a payment is due and follows the money. An event may come in at any time;
the race of two deliveries for one receipt is in `Payments`, here the receipt alone
keeps an event from being applied again. Ledger entries are indexed by the
event that added them (a settlement adds its own, which no balance reads), `evidence` links a
refund entry to its operation. Refund events complete the equal refund with the least
`approved_at`. That is a reading of the clock which `approve_financial_operation` takes
before its transaction (`finance.py:331`), and its order need not be the one in which
approvals commit. Nothing else reads it, so the model keeps no time of approval and lets
`ReconcileRefund` complete any one of the equal refunds; in which order they complete is
not promised. Editions stay open here: what
a closed one refuses changes nothing. `overlapped` is a
history: the registrations for which a refund was approved while another one was still
waiting for the provider, the case that `available_refund_minor` does not see.
`GuardAccepts` is the trigger of migration 0023. A settlement whose net is negative
is refused as the code refuses it: by the amount column of its ledger entry.

### Accreditation

`generate_offline_manifest` asks for a row lock on an aggregate, which PostgreSQL does
not take; two requests can therefore number and read at the same time and are kept
apart only by the unique constraint on the sequence (`BeginManifest`,
`InsertManifest`, `ManifestRefused`). `known` is a history of how many credentials
existed when a manifest was read. A device numbers its scans; any scan may reach the
server at any time and any number of times (`Reconcile` for any `n`), and
`reconcile_offline_check_in` takes it only if it is the next one. A scan is the
credential it shows and whether the manifest on the device lists it. A credential is
`ended` when it has been revoked, replaced, or taken away by a restriction of
attendance, which in one transaction ends the admission of who has not arrived, the
entitlement and every issued credential (`RestrictAttendance`,
`restrictions.py:86-211`); an approved cancellation leaves the credential alone. Once
the edition is closed, a scan that would check somebody in is refused by the trigger on the
registration and leaves no trace (the last conjunct of the guard of `Reconcile`);
`Stuck(d)` says that such a scan is the next one of a device. `Unusable` stands for
an unknown badge and for a manifest that does not exist or is not valid at the time the device
reports. The administration form of a device shows and saves `last_sequence`
(`admin.py` excludes only the name of the secret), which takes two steps;
`overwritten` records the devices to which that has happened with an old value.

### Logistics

Every command locks the edition with its organization first (`services.py:518-551`), so
commands are atomic; what is concurrent is what clients know. An event carries the
sequence number its client last saw. `Accepts` collects the tests of
`_append_movement_event` in the order that matters (they only raise), `Projected` is
the row it writes, `Event` the log entry. Containment is walked with a bounded climb
(`Climb`), as the code does, up to `MAX_CONTAINMENT_DEPTH`.

A device queues scans with the sequence numbers of an old snapshot and uploads what it
has queued, from any point on; the answer may be lost, and later scans are then
uploaded together with the old ones or without them. A batch is one transaction that
reconciles its operations one by one (`Reconciled`: what is stored after n operations is
`ReconcileScan` of what was stored after n - 1). The
position of a scan in its batch is part of its digest, so a scan that is sent again at
another position is filed as a reuse of its key. `RemainsAppendable` is the trigger's
own judgement of a scan filed as a conflict: where it says "could have been appended",
the database refuses the batch. `SequenceFits` is the comparison of the
sequence number a client gives with the one of the row, on which
`ScansContinueHistory` depends: an applied scan has as many events of its subject before
it as its device had counted.

Left out: `expected_version` and the receipts of on-line commands (stale or repeated commands
change nothing), `condition_before`, the age of a snapshot, labels that change, and
the catalogue commands that register subjects.

## 3. Runs

| Run | Instance | Shows |
|---|---|---|
| `effects_outbox` | 2 deliveries of one event, ceiling 4, lease 2, grants 0..3 | `TypeOK`, `LedgerComplete`, `PendingIsClaimable`, `StatusHasEvidence`, `ReceiptsExplainBudget`, and `GuardAccepts`: the services implement the database guards |
| `effects_worker` | 2 supervisors, 3 process slots, 1 delivery of 2 attempts, execution 1 < hard 2 < lease 3 | `SupervisedKeepsLease`, `SucceededWasDelivered`, `ImplementsOutbox`, `EveryDeliverySettles` |
| `scheduler` | 3 tenants, queues up to 3, restarts | `FairWhileBacklogged`, `NoMonopoly` |
| `notification` | 4 invocations, with and without overlap | `SendsAreCounted`, `SucceededWasEmailed`, `SettledDeliveryIsQuiet` |
| `registration_capacity` | 3 adults, 2 paid tiers, overlapping | `TypeOK`, `OversubscriptionBounded`, `EntitlementFollowsAdmission`, `TriggerAcceptsTransitions` |
| `registration_lifecycle` | a minor and an adult, a free and a paid tier, overlapping, passes over one edition and over all, other editions that close, fair | `OverdueReleased` |
| `registration_guardian` | a minor and an adult, no two-step transactions | *violation* (section 4) |
| `payments` | 1 registration with its upgrade, 2 intents, 2 events of 3 kinds, 2 deliveries at once, no lost call | `TypeOK`, `KeepsPromise`: `Payments` implements `PaymentPromise` |
| `payments_progress` | the same with 1 intent, whose call may be lost, and events of 4 kinds, fair | `EverySuccessAccounted` |
| `finance` | 2 registrations, 2 staff, 2 operations, 3 events of 5 kinds, 2 settlements | `TypeOK`, `RefundEvidence`, `RefundsCovered`, `SettlementsBalance`, `OperationsGuarded` |
| `accreditation` | 1 registration, 2 credentials, 2 manifests, 1 device with 2 scans, fair | `TypeOK`, `ArrivesOnce`, `DeviceLogComplete`, `RevocationPropagates`, `EveryScanAnswered` |
| `logistics` | a site, a van, 2 boxes, a lot; 3 on-line events, 2 scans, 1 manifest | `TypeOK`, `ContainmentIsATree`, `RowsReplayTheLog`, `ScansAppliedOnce`, `AppliedBatchesAreClean`, `EveryBatchCommits`, `ScansContinueHistory` |

**Bounds.** The outbox ceiling of 4 leaves room for a budget, its exhaustion, two
replays and a refused one; budgets and grants include the values that validation
refuses (0, and one above the limit). A lease of 2 units has a moment before, at and
after expiry. Two deliveries of one event are enough for what one row can do to
another, as queries select by row, tenant or event. Two supervisors and one orphan are
enough for a delivery to be claimed while two earlier holders are still alive; longer
series of takeovers are in `effects_outbox`, to which `ImplementsOutbox` links the
processes. Three tenants
are the smallest number that can starve (two that run dry and one that waits).
In `RegistrationCapacity` capacities of 1 and 2 with one account more than
places make every full case, every promotion and every ceiling reachable; a payment
window of 1 unit has an open and a passed deadline; operators ask for limits up to one
above the ceiling; `MaxInflight` bounds the transactions between their two steps,
`MaxInactive` the deactivated accounts. Symmetry is over adults, who are
interchangeable, and only in runs without temporal properties that it could disturb
(`TriggerAcceptsTransitions` is an action property, invariant under permutations); in
`finance` it is over the staff, of whom `OperationsGuarded`, an action property too, only
asks whether two are the same.

In `payments` two events are enough for a duplicate, a failure after a success and two
payments of one charge, two intents for an admission and its upgrade; the clock has a
moment before and one at the deadline. The price of 2 and the difference of 1 are each
a wrong amount for the other charge. In `finance` a price of 2 allows two equal
refunds of 1 and, after a restriction, one of everything; three events are a payment and
two more of any kind, the payment of the other registration among them, which is what a second
settlement can be about; the fee is 0, since a fee only enters the two sides of one equation. In
`accreditation` the two manifests can be generated at once, and the two scans may be
of an old and a new credential of one person, with or without the desk. In
`logistics` three on-line events and two scans build a box in a box, try to close the
cycle, pack, load, count and return; `MaxDepth` is 3, and a snapshot is at most one event
behind (`MaxBehind`), since any older one is refused for the same reason. `MaxBatches` bounds the uploads
that bring nothing new: a scan without receipt may always be uploaded.

**Fairness.** `effects_worker`: time passes; the supervisor loop goes on (the
runbook's process supervisor restarts it); a child that is not in a handler runs on;
a hard timeout is enforced. Handlers get no fairness. Claims get strong
fairness, because a concurrent transaction that makes `SKIP LOCKED` pass a row over
is short and cannot do so at every try.
`registration_lifecycle`: passes over all editions are begun again and again
(`BeginLifecyclePass(FALSE)`), a pass goes on to visit its candidates, in any order (one
strong fairness for all of them together, since other transactions may hold the row it waits
for), and a transaction that has begun ends. Passes over one edition are an operator's choice
and get no fairness. Hence an overdue reservation that is `behind` is excepted from
`OverdueReleased`, and only that. `payments_progress`: time passes, the lifecycle
command expires overdue holds, and the provider repeats an event until it is acknowledged
(strong fairness of beginning and of finishing a delivery: a delivery may be killed,
though not each one of an event for ever); what the database refuses is not helped by
this, which is the exception `ConfirmationRefused` of `EverySuccessAccounted`. Nothing is assumed of the process that
creates an intent or of the staff. `accreditation`: a device that is connected uploads
a scan until it is answered, which a closed edition (`Stuck`) may put off for ever.

**Deadlock** is checked in the outbox, worker, scheduler, notification and registration
runs. The runs that are bounded by counts of events
(`payments`, `payments_progress`, `finance`, `accreditation`, `logistics`) may stop
when their bounds are used up, and do not check it.

## 4. Findings and observations

**Guardian consent ignores adjustments and holds** (`registration_guardian`): it decides
by the configured capacities, with no concurrency needed. The reference is
`docs/operations/registration-runbook.md:527`, "No oversubscription; loser waits or
receives full result", and ADR 0050.

The following are visible in the models without a run of their own. Where a property
is said to fail, it is defined in the module and TLC refutes it when it is put into the
`.cfg` of the module's run with the change described.

- **A hard timeout may exceed the lease.** `effects_worker` compares the execution
  timeout with the lease and with the hard timeout, never the latter two
  (`management/commands/effects_worker.py:70`), though `docs/modules/effects.md:162-163`
  says that the hard timeout "must remain shorter than the lease". With
  `HardTimeout = 3` and `LeaseDuration = 2`, `SupervisedKeepsLease` fails.
- **Tenants can starve.** `select` starts again from the smallest identifier when the
  tenant served last is no longer eligible (`supervisor.py:65`). With queues of at
  most 1, `EligibleTenantServed` fails: two tenants that keep running dry starve the third, against
  `docs/operations/effects-worker-runbook.md:34-35`. The rotation is fair while nobody
  runs dry (`FairWhileBacklogged`).
- **Emails can be sent twice** (`communications/services.py:263`). The idempotency key is
  not given to the provider; a crash or an ambiguous failure after the send
  repeats it and `NoDuplicateEmail` fails, against `docs/modules/communications.md:55`. They cannot be
  sent uncounted (`SendsAreCounted`).
- **A promotion may use a stale count** (`registration/services.py:3840`): cancellations
  and restrictions count before they hold the configuration row. `NoOversubscription`
  fails for adults alone as soon as `MaxInflight` is 1.
- **Waitlisted against policy** (`availability.py:131`): availability is assessed by
  configured capacities, admission by effective ones. `WaitlistedByPolicy` fails with
  all waitlists disabled, against ADR 0011, lines 35-36.
- **A sale between deadline and completion.** The hold of an upgrade ends at its
  deadline, while its completion is judged by the start of the payment's transaction
  (`commerce.py:1389`, migration 0038:290) and counts nothing again. Apart from guardian consent
  `NoOversubscription` holds as long as nothing comes between the steps of a
  transaction (`raced`), and otherwise a transaction in flight costs at most one place
  (`OversubscriptionBounded`).
- **A late failure overwrites a success** (`payments.py:922`). The status of the intent
  becomes `failed` or `abandoned`, no exception is opened
  (`docs/modules/registration.md:547` lists out-of-order events among the reviewed
  ones). Admission and ledger stay as they were, which is what `KeepsPromise` shows.
- **A paid upgrade can be answered with errors for a while** (`payments.py:790`). When
  its registration has been cancelled, every delivery rolls back until the lifecycle
  command expires the hold; then it becomes a late success (`EverySuccessAccounted`, whose mutant
  is a lifecycle command that expires the holds of admitted registrations only).
- **Refunds that overlap are not covered by the balance** (`finance.py:432`):
  `available_refund_minor` subtracts what has been paid out and not what has been approved. The
  history `overlapped` of `RefundsCovered` marks the one way to promise more than was
  paid.
- **A refund event may be too early** (`payments.py:686`): before the approval has
  committed it becomes an exception, and the operation stays `provider_pending`; no
  code completes or fails it afterwards.
- **A stale device form blocks a device** (`accreditation/admin.py:44`): once
  `last_sequence` has been set back, the next operation is one that is recorded
  already and is only returned, and all later ones are out of sequence. `overwritten`
  marks this case in `DeviceLogComplete` and `EveryScanAnswered`.
- **A closed edition can end the lifecycle passes of all others**
  (`registration/services.py:4195`). The pass walks the candidates of all editions in
  the order of their submission, with nothing around a candidate that raises. One overdue
  reservation of a cancelled edition (or an archived one, where the closure gates are not
  enforced), or one of a deactivated account, is refused by the trigger of migration
  0038:239-242 at every pass, and whatever was submitted later is never expired, against
  `docs/modules/registration.md:526-529`. The scheduled restrictions, which the command
  applies afterwards, wait with it. `OverdueReleased` excepts the accounts in `behind`;
  without that exception it fails. A pass for one edition helps that edition.
- **A payment in time can be refused for ever** (`payments.py:855`). If the edition is
  closed while the money is on its way, the same trigger rolls back the confirmation at every
  redelivery: no receipt, no exception, no ledger entry. `EverySuccessAccounted` excepts
  this case and fails without the exception.
- **A late upload can block a device** (`accreditation/services.py:629`). After the edition
  is closed, a scan that would check somebody in is rolled back; `last_sequence`
  stays, and every later scan is out of sequence. `EveryScanAnswered` excepts it by `Stuck`.
- **A restriction can be refused for ever** (`registration/restrictions.py:101`). It cancels the
  account's registrations in the editions it covers in one transaction; a confirmed one in a closed edition
  makes the trigger refuse all of them. In the models of one edition it then has no step.
- **Equal refunds may complete in either order** (`finance.py:331`). The clock is read
  before the transaction and its locks, so the approval that commits first may carry the later
  time, or the same. `RefundEvidence` therefore says that an event completes a single
  equal refund, and not which.
- **The result of a send overwrites what was recorded meanwhile**
  (`communications/services.py:284`): with overlapping invocations, a delivery that has
  succeeded can be recorded as failed. `SettledDeliveryIsQuiet` fails for them, and is
  stated for invocations that do not overlap.
- **A sequence number counts events and does not name them**
  (`logistics/services.py:4926`): if an earlier scan of a device is refused and somebody else
  records an event in its place, the device's next scan fits. `ScansContinueHistory` says
  exactly what is guaranteed, the number of events before a scan.
- **The depth limit counts ancestors only** (`logistics/services.py:862`): a container
  that is moved takes its contents below the limit. And a line is sealed if its subject
  is anywhere within the source, while loading requires the source itself
  (`services.py:5056`).

## 5. Proofs

Each theorem holds for every value of the constants that satisfies the named
assumptions of its module (`...Assumption`, evaluated by TLC in the runs) and, where
the table says so, one hypothesis more. None of the invariants is inductive alone; the
third column says what it had to be joined with and why.

| Theorem | States | Needs, beyond the types |
|---|---|---|
| **EffectsOutbox** | | |
| `TypeCorrect` | `Spec => []TypeOK` | |
| `Inductive`, `LedgerIsComplete`, `PendingRowsAreClaimable`, `StatusIsRecorded`, `BudgetIsExplained` | `Spec => []IInv`, and the four invariants of `effects_outbox` | `RowConsistent`: the token of a processing row is the number of its current attempt and 0 otherwise, a row that does not exist has no attempts, `attemptCount <= maxAttempts`. Hence a settlement with a matching token, or a takeover, adds an attempt the ledger does not have yet, and a replay leaves an attempt to spend |
| `DatabaseAccepts` | `Spec => GuardAccepts` | each action is a step of `OutboxGuard`: one lemma for the updates of the row, one for receipts, one for attempts |
| **EffectsWorker** | | |
| `WorkersUseServices`, `WorkersKeepTheLedger` | `WorkerSpec => ImplementsOutbox`, and with it `[]LedgerComplete` and `GuardAccepts` | `ProcessesOK`, what a process knows at each point of its life: a process settles only an attempt that was claimed |
| `SuccessMeansDelivered` | `WorkerSpec => []SucceededWasDelivered` | `VerdictsTrue`: a verdict stays true from the end of the handler to the settlement, however late; `OneHolder`: no two processes hold the same claim |
| `HardTimeoutKeepsLease` | `HardTimeout < LeaseDuration` implies `WorkerSpec => []SupervisedKeepsLease` | `LeaseCovers`: while a supervised process has its claim, what is left of the lease exceeds what is left of the hard timeout by the difference of the two |
| **TenantScheduler** | | |
| `RotationIsFair`, `NoTenantMonopolizes` | `SchedulerSpec => []FairWhileBacklogged`, `SchedulerSpec => NoMonopoly` | `RotationApproaches`: the tenants that passed somebody over lie between it and the tenant served last, so their number is a distance that shrinks |
| **NotificationDelivery** | | |
| `EverySendIsCounted`, `SuccessMeansEmailed`, `SettledStaysQuiet` | `NotificationSpec => []SendsAreCounted`, `[]SucceededWasEmailed`, `SettledDeliveryIsQuiet` | `SupervisedRunsAlone`, and that a running handler has its message |
| **RegistrationCapacity** | | |
| `TypeCorrect`, `EntitlementsFollow`, `TransitionsAreAccepted` | `Spec => []TypeOK`, `[]EntitlementFollowsAdmission`, `TriggerAcceptsTransitions` | `LocksOK`: a closure under way still holds an open registration and its product, so no promotion chooses it. Each step changes each registration in one of seven ways (`RowStep`), and each way keeps its entitlement |
| `PlacesAreBounded` | `Minors = {}` implies `Spec => []OversubscriptionBounded` | `ClaimsBounded`, below |
| **Payments** | | |
| `TypeCorrect` | `SafetySpec => []TypeOK` | |
| `PromiseIsKept` | `SafetySpec => KeepsPromise` | `Judged`: receipt, exception and ledger entry of an event never contradict each other; a registration that waits for payment has no basis yet |
| **Finance** | | |
| `RefundsHaveEvidence` | `Spec => []RefundEvidence` | `ReceiptFirst` (an event without a receipt has no entry), `OneEntryEach` |
| `OperationsAreGuarded` | `Spec => OperationsGuarded` | the rows keep their types |
| `TypeCorrect` | `Spec => []TypeOK` | `PaidOnce`: a registration is credited one payment at most, and then waits for none, so that what is available is never above the price |
| `RefundsAreCovered`, `SettlementsAddUp` | `Spec => []RefundsCovered`, `[]SettlementsBalance` | both of the above, and that only booked entries are settled (`MoneyInv`) |
| **Accreditation** | | |
| `TypeCorrect` | `Spec => []TypeOK` | `OneIssued`: at most one issued credential of a registration, also in what a request has read |
| `RegistrationArrivesOnce` | `Spec => []ArrivesOnce` | `OneArrival` with `ScansNameRows`, `OutcomesOfScans` |
| `DeviceLogHasNoGap` | `Spec => []DeviceLogComplete` | `LogPrefix`: outcomes are those of the first scans, and neither the stored nor a form's `last_sequence` is ahead of them |
| `RevocationIsPropagated` | `Spec => []RevocationPropagates` | `LeftOutForGood`: what a manifest or a request under way left out can never be presented again, and a request that is to follow a manifest has read after it |
| **Logistics** | | |
| `TypeCorrect` | `Spec => []TypeOK` | |
| `ContainmentStaysATree` | `Spec => []ContainmentIsATree` | the argument below, for each operation of a batch (`StoreOK`) as for a command |
| `RowsFollowTheLog` | `Spec => []RowsReplayTheLog` | `RowReplays` for each row alone: an event appended for one subject leaves the last events of the others what they were |
| `ScansCountOnce` | `Spec => []ScansAppliedOnce` | `ReceiptsOK`: receipt and event of a scan name each other; `FilingsOK`: a scan has a receipt once it has been filed, and was filed for the first time once |
| `CleanBatchesAreApplied`, `BatchesCommit` | `Spec => []AppliedBatchesAreClean`, `[]EveryBatchCommits` | `OperationOK`: what an operation carries stays what the log and the receipt say; `ConflictIsFinal`: what the service refuses, the trigger does not hold to be appendable |

**The hypotheses.** `HardTimeout < LeaseDuration` is what
`docs/modules/effects.md` demands and `effects_worker` does not check; without it the property is
false (section 4). `Minors = {}` excludes guardian consent, which ignores adjustments and
holds and with which `OversubscriptionBounded` is false (section 4); `registration_capacity` is
such an instance.

**Oversubscription.** `OversubscriptionBounded` knows nothing of the places that
transactions between their two steps have been promised. `ClaimsBounded` counts these
too: an account claims a place if it has one or is being closed by a transaction that
is to promote somebody (then it claims the place it gives away, or a free one); a
payment under way keeps the place of its upgrade though the hold is over. Claims exceed
a limit by `Slack`, 0 until somebody has come between two steps and `MaxInflight`
afterwards. A step then either keeps the claims (payments, clock, abandoned upgrades),
exchanges one for another (promotions, completed upgrades), or finds the rows within
the limit, and then the claims exceed it by what is under way at most. The last is why races do
not add up: a product that is full promises nothing further. `Count...` are the
lemmas about cardinalities this takes.

**Induction over data.** The climb through containers, the course of a batch and the
sums over the ledger are recursive, and the library's induction theorems cannot be used
here because they take an operator as a parameter. They are replaced by a least
counterexample: a non-empty set of natural numbers has a least element
(`LeastNumber`, from the well-foundedness of `<`), so if a fact failed for some number of
steps it would fail for a least one, and the step before refutes that. For sums, the
counterexample is a set with the fewest elements (`MinimalSet`); the lemmas `Sum...` say of
`SumFunctionOnSet` that it does not depend on the order of the elements, which its
definition by `CHOOSE` leaves open, and that it is additive over disjoint sets.

**Containment.** A movement that closed a circle would leave a set of rows each of which
lies in another one of the set. It must contain the subject, hence the
destination, hence each container that the climb from the destination visits; but the climb
ends outside of any container and has not met the subject, for otherwise `Accepts`
refuses.

**Money.** An approval looks at the balance, which does not know what has been promised.
If nothing else is pending, the balance covers what was refunded and what is approved
now; a refund event moves an amount from one side of the sum to the other, because it
matches in registration and amount; a payment only adds. A settlement adds disjoint
sets of entries to those covered, and no event touches an entry that is booked.

**Refinements.** `DatabaseAccepts`, `WorkersUseServices` and `PromiseIsKept` show that initial states map to
initial states and that each step maps to a step or a stutter, one lemma per kind of
step, on top of the inductive invariant.

**Only model-checked.**

- `ScansContinueHistory`, so far: the lemma about the number of events of a subject
  before a position of the log is still to be proved (section 7).
- All liveness (`EveryDeliverySettles`, `OverdueReleased`, `EverySuccessAccounted`,
  `EveryScanAnswered`): temporal reasoning under fairness, and `ENABLED`, are out of
  the prover's reach.
- `NoOversubscription` with guardian consent, which is false, and the other statements of section 4.

The typing invariants of `Payments`, `Accreditation` and `RegistrationCapacity` are conjunctions of
named parts, and columns that may be blank hold `"none"`, for the sake of the proofs;
`RefundEvidence` is split into named parts for the same reason.

## 6. What is not modelled

- Payloads, texts, authorization decisions, audit rows and command receipts: they
  guard or accompany a command and do not change what the properties speak of; a
  repeated command with the same receipt is a stuttering step. Optimistic control
  versions refuse commands, which the model may also do by not taking the action.
- The order in which PostgreSQL locks the joined rows of one query, hence lock-order
  deadlocks between submissions and the lifecycle query: the database aborts one of
  the two, and the command fails.
- What else the closing of an edition ends: its own commands, profiles and consents. Only
  what is left behind for others, or arrives later, is modelled (`CloseOtherEdition`,
  and `CloseEdition` of `Payments` and `Accreditation`). That restrictions revoke
  credentials only in editions that have adopted the adapter for it is left out too.
- Clock skew between hosts, and the age of `processed_at` within one lifecycle pass:
  it is read before the rows are locked, which can only count an expired hold a moment
  longer.
- FIFO order of the waitlist and of claims.
- Immutability of routing envelopes and TRUNCATE guards of `OutboxGuard`: no service
  writes those columns.
- Signatures and tokens (webhooks, manifests, badges): a message that does not verify is
  refused before it reaches any state.
- The parts of logistics that register and describe subjects (parties, addresses,
  nodes, lots, keys, labels, kits, offers, agreements): each is one insert under the
  organization's lock with a receipt, and nothing competes with it.
- The components marked `not_modelled` in `PROJECT.json`, with the reason for each.

## 7. Plan

1. **Proofs** that remain: a bound on oversubscription that also covers guardian consent
   (`OversubscriptionBounded` does not), `ScansContinueHistory`, and the safety of the
   composition below.
2. **Composition** of `EffectsWorker` with `NotificationDelivery`, so that
   `supervised` follows from the worker (`HardTimeoutKeepsLease`) instead of being assumed.
3. **Identity invitations** and **registration configuration** drafts and activation.
