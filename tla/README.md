# Bealhouse in TLA+

A specification of the booking engine of a seven-room inn: a Go server over
Postgres, a card processor (Stripe) that calls back, a durable job queue, a
guest's site and an owner's console. The modules model what the server writes
and in which order; TLC checks them on small instances, and TLAPS proves part
of it for every instance.

## The system

| Part | State | Operations | Correct when |
|---|---|---|---|
| pricing (`internal/pricing`) | none | quote, deposit and balance, penalty, fee, refund, short notice, charge date | rounding never leaves the inn short; a larger payment never earns a smaller refund; a warning is still ahead |
| occupancy (`internal/occupancy`, `room_occupancy`) | rows of kind hold, booking, block | hold, promote, release, block, sweep | no two rows of a room overlap; a confirmed stay has its row and nothing else keeps one |
| booking (`internal/booking`) | `bookings` | Create, Sweep | an unpaid checkout ends, and never while its guest may be paying |
| payments (`internal/payments`, the webhook) | the money columns of `bookings`, `payments` (the ledger), `stripe_events` | open a payment, RecordCharge, RecordFailure, RecordRefund, ChargeBalances, Cancel | each payment is counted once; nobody pays twice; nothing unpaid is confirmed; what is promised back goes back |
| mailing scans (`payments/balance.go`, `booking/checkout.go`) | two marks on a booking | warn of a balance, write on departure | each letter once; a failing stay takes nobody else's letter down |
| card processor (external) | intents, receipts, declines, refunds | charge, decline, refund, deliver events | modelled from how `internal/gateway` uses it |
| job queue (`internal/jobs`) | `jobs` | Enqueue, claim, delete, reschedule | no job is lost, keys are unique, schedules survive |
| console (`internal/console`) | the same tables | Block, Unblock, phone booking, card by phone, manual refund, cancel; board, list, calendar | the owner's changes keep all of the above; the screens tell one story |
| rates (`console/rates.go`, `internal/rates`) | seasons, the nightly calendar | create, change, delete, preview, rebuild | a rebuild leaves what the seasons say; the preview names what a save changes |
| search (`internal/availability`, `spans.ts`) | reads nights and occupied spans | search, the picker's spans | what can be picked is what can be booked |
| content (`console/content.go`) | menus, events, attractions, galleries, rooms, wording | save whole, read by table | a room or a list comes from one save; a page mixes no two |
| sign-in (`internal/admin`) | accounts, passkeys, invitations, ceremonies, sessions | invite, enroll, log in, revoke, sign out | an invitation yields one passkey; a revoked phone is out; an account keeps a way in |
| rate limiter (`httpx/ratelimit.go`) | a map of buckets | allow, sweep | forgetting a bucket gives nobody more than their allowance |
| error reports (`internal/sentry`) | a bounded queue, a counter | report, drain, close | what was logged before close is posted or said to be dropped |
| notifications (`internal/push`) | subscriptions, inquiries | subscribe, queue, send, forget | every browser that stayed subscribed hears |
| email templates, PDF, media, prerendering, most of the web client | files and rendered text | | not modelled |

The server's parts meet in the database. A request handler, the webhook, each
background job and the console run concurrently, each in READ COMMITTED
transactions; only the exclusion constraint on `room_occupancy`, the unique
indexes on `stripe_events`, `payments (stripe_id, status)`, `jobs (unique_key)`
and the calendar, and the row locks of single statements order them. Calls to
the processor are outside the transactions. What is hard here is therefore: a
row read at the beginning of a transaction and decided with at its end; the
same charge reported by a delivery, by a redelivery and by the balance job; a
crash or a lost answer between the processor's act and the ledger's record; a
hold that lapses while its guest pays; the queue's leases; rows deleted and
written again by two transactions that do not see each other's; a page read by
several statements. The limiter, the reporter and the picker share no table
with the rest: there it is the clock, a bounded queue, and one rule written
twice.

## Modules

| Module | Models | Built on |
|---|---|---|
| `Pricing` | `pricing.go`: the arithmetic, day counts as integers | |
| `RefundPlan` | `refund.go`: `allocate`, which payments a refund is taken from | |
| `Occupancy` | who has which room, whatever the money does: the abstract specification of the rooms | |
| `Payments` | the handlers of `internal/payments` over the tables and the processor | `Pricing`, `RefundPlan`, instance of `Occupancy` |
| `Inn` | the whole: checkouts, sweeper, console, clock, crashes, with `Payments` | `Payments` |
| `Desk` | the owner's screens and the guest's page, as reads of the inn's state | `Inn` |
| `Jobs` | the job table and the runner of each server | |
| `Search` | the search, the server's spans and the browser's picker | |
| `Rates` | seasons, the rebuilt calendar, the preview, as overlapping transactions | |
| `Content` | the documents of the site and the pages read from them | |
| `SignIn` | invitations, ceremonies, passkeys, sessions, revocations | |
| `Meter` | the allowance of a caller with no memory kept: the abstract specification of the limiter | |
| `Limiter` | the map of token buckets and its sweep | instance of `Meter` |
| `Reports` | the bounded queue of error reports, its worker and its close | |
| `Push` | notifications to the owner's browsers | |
| `Notices` | the warning and the departure scans | |
| `PricingProofs` | theorems about the arithmetic; lemmas about sums, rows picked out of a ledger and the division of a refund | `Pricing`, `RefundPlan`, TLAPS |
| `JobsProofs` | theorems about the queue | `Jobs`, TLAPS |
| `PartsProofs` | theorems about the rooms, the search, the quotes and the refund plan | `Occupancy`, `Search`, `MCPricing`, `MCRefundPlan`, `PricingProofs` |
| `GateProofs` | theorems about the limiter and the sign-in | `Limiter`, `SignIn`, TLAPS |
| `NewsProofs` | theorems about notifications, the scans and the reports | `Push`, `Notices`, `Reports`, TLAPS |
| `SavingProofs` | theorems about what overlapping saves leave behind | `Content`, `Rates`, TLAPS |
| `InnProofs` | the inn implements `Occupancy`; its rooms; what is confirmed is paid for; the gross, the ledger and the flag agree | `Inn`, `PricingProofs` |
| `MoneyProofs` | nobody is overcharged or told twice; the screens agree; what is promised is queued | `InnProofs`, `Desk` |
| `MCInn`, `MCJobs`, `MCRates` | instances | |
| `MCParts` | occupancy, search, arithmetic (`MCPricing`) and refund plan (`MCRefundPlan`) in one instance | `MCOccupancy`, `MCPricing`, `MCRefundPlan`, `Search` |
| `MCSite` | content, sign-in, rates, limiter, reports, notifications and notices in one instance | those modules |

`MCParts` and `MCSite` put side by side parts that share no state. A variable
`part`, chosen in the initial state, says which one moves; the others stay as
they begin, so the states are the sum of the parts', not their product, and
each property is checked over every behaviour of its own part.

### Correspondence

**The inn.** `status[b]`, `stay[b]` and `bill[b]` are one row of `bookings`:
`stay` the snapshot taken when the row is written (room, nights, total), `bill`
the columns that change (`paid` is `amount_paid_cents`, `scheduled` is
`balance_charge_at IS NOT NULL`, `started` is `payment_started_at` against the
sweeper's grace, `card` is `stripe_payment_method_id <> ''`, `failed` is
`balance_charge_failed_at`). `occ[b]` is the booking's row of
`room_occupancy`; `blocks` are the rows of kind block. `ledger[b]` is
`payments`, `seen` is `stripe_events`, `refundJob[b]` the payload of the queued
`payment.refund:<code>` row, `mail[b]` counts the messages queued, by template,
and `promised` is the amount the last cancellation message named.

A handler that decides with the booking it read is two actions: `ReadFor...`
and the action of what it then commits (`RecordCharge` has four outcomes, as
in the source). What was read is kept in `charging` and `cancelling`; anything
may commit between the two. Statements that read again under their own row
lock (`amount_paid_cents = amount_paid_cents + $n`) read the current row in the
model too. A handler that uses nothing it read is one action. Calls to the
processor are actions: `ChargeOffSession`, `SendRefund` and
`SendRefundUnheard` (the answer is lost). `Crash` empties everything that lives
in a process and keeps every table.

An idempotency key is the name of an intent: `IntentKey` is the channel, the
booking and the amount, as in `Stripe.CreateIntent`; `BalanceKey` the booking;
`RefundKey` the payment and the amount. Asking twice with one key finds the
first answer. The processor delivers an event any number of times, in any
order.

`Occupancy` says what the rooms may do with no account of why: any booking
may be secured, withdrawn or expired when its guard on the rooms allows it.
`Inn` implements it with the identity as refinement mapping (`RoomsSpec`): the
payment handlers refine `Secure` and `Withdraw`, and every step that is only
about money stutters. `Desk` adds no step: each screen is an operator over the
tables, with the comparison its query makes at the edge of a day.

**Transactions that replace rows** (`Content`, `Rates`). A save is the
statements of its transaction: a DELETE that works on the rows its snapshot
shows and skips those gone by the time it reaches them, the INSERTs, the
commit. Nothing is locked but rows, so two saves of a list may both stand;
`RoomLocked` is the one UPDATE that makes saves of a room wait for each other.
The rows one save writes into a table are one row, marked with the save (`by`).
A reader holds what its first statement returned while later ones run.

**Sign-in.** A ceremony is two requests; the second takes the stored challenge
with one DELETE ... RETURNING, reads, and writes in a transaction of its own,
so each is an action. `ClaimEnrollment` and `ReleaseEnrollment` are in the
ceremony's order; a request may die in between. `RevokePasskey` counts, revokes
the sessions and deletes the key as three statements of one transaction.

**Limiter.** A bucket is `[tokens, seen]`, in units of an interval; `Meter`
says what it amounts to: a caller has one time at which the allowance is whole
again. The mapping computes that time from the bucket, or takes "whole" when
the bucket has been swept, which is right because `LimiterAssumption` holds of
every limiter the server makes: a bucket fills up before it is idle long enough
to be dropped.

**Reports, notifications, notices.** `worker` is the goroutine `drain`, with
the report it holds; `close` closes a channel the worker looks at beside the
queue. A notification is a job row and the list of subscriptions its handler
read; a failure hands it back. A scan is the list it read and the stays still
to take, one transaction each; two workers may scan at once when a lease
lapses, which `overlaps` counts.

## Runs

| Run | Instance | What it shows |
|---|---|---|
| `charges` | one stay of 3, two transactions open at once, the link, the phone and manual bookings, partial payments, one cancellation, crashes | the money columns, ledger, processor and screens agree |
| `declines` | declined and missing cards, crashes | flag and message agree; a due balance settles |
| `refunds` | a stay at short notice, a competing block, a cancellation, two open transactions, crashes | promises are queued, and arrive |
| `rooms` | two bookings that share a night, a block, a cancellation, manual refunds, crashes | a confirmed stay has its room; `Inn` implements `Occupancy` |
| `queue` | 2 servers, 3 rows, a periodic, a keyed and an unhandled kind, fair | keys, leases, loss, schedules; queued work is done |
| `parts` | 3 bookings over 2 rooms with overlapping and adjacent spans; 2 rooms, 3 nights, every minimum stay and one occupied span; totals, payments and rates to small bounds, every day count near the two limits; every ledger of at most 4 charges of at most 3 cents | the rooms keep `RoomInv`; the picker offers what the search finds; the promises of the arithmetic; the refund plan, and its closed form against the loop of the source |
| `site` | 2 savers and a reader, 3 saves; 2 invitations, 3 ceremonies, 2 revocations; 2 editors, 2 overlapping seasons, 3 rebuilds, days passing; 2 callers, a burst of 2 and a clock that lets a bucket be dropped and come back; 4 errors for a queue of 2; 2 browsers, 2 inquiries; 2 stays, one always failing, 2 workers, one crash | each part's properties, below |

In `site`: a room is one save's (`RoomIsOneSave`), a page mixes no two
(`NeverMixed`), a save alone is whole and repairs (`SavedAloneIsWhole`); an
invitation yields one passkey (`SingleUse`), a revoked phone is out
(`RevokedIsOut`), an account keeps a way in (`WayIn`); a rebuild alone leaves
what the seasons say (`RebuildRepairs`) and what the preview named
(`PreviewIsHonest`); `Limiter` implements `Meter` (`MeterSpec`); close flushes
or tells (`FlushedAndTold`); a finished notification reached whoever stayed
subscribed (`ToldOrGone`); a letter goes once and a scan reaches everybody
(`WrittenOnce`, `ScanReachesAll`).

A total of 3 is split 2 and 1, so that rounding, deposit and balance differ; a
day of the instance is near the arrival, so that both cancellation windows and
the balance date are reached; two open `RecordCharge` transactions are enough
for two deliveries, or a delivery and the job, to race, since a transaction
touches one booking and its writes are atomic. Two transactions are enough for
a lost or doubled row, since a third only repeats the second's part; a third
save lets one come after the two. `Exercised` names the optional operations an
instance of the inn includes, so that each run can afford the depth of the ones
it is about; between them the runs include all: manual refunds are in `rooms`,
declines in `declines`, the phone and partial payments in `charges`.
`MaxOpens`, `MaxInFlight`, `MaxCancels`, `MaxDay`, `MaxJobs`, `MaxLate`,
`MaxTaken`, `MaxSaves`, `MaxCeremonies`, `MaxSeasons`, `MaxRebuilds`,
`MaxToday`, `MaxNow`, `MaxInquiries`, `LastDay` and `MaxMishaps` are the
bounds, each in the guard of the action it limits. Deadlock is not checked: a
bounded instance ends when its days, opens and rows are used up. Symmetry is
used only in runs without a liveness property, over requests, workers and
browsers that nothing tells apart.

### Disagreements

Five runs check a sentence of the repository against the code and find it
violated; each is a finding with its trace's gist in `PROJECT.json`.

- `refund_cancels`: a manual refund "without cancelling" cancels the stay.
- `late_balance`: a refund promised for a late balance is dropped on the key of
  the refund already queued.
- `revived`: a charge that read its booking just before a cancellation
  committed confirms it again.
- `lease`: a runner whose lease lapsed shortens another's.
- `stale_calendar`: two saves of seasons overlap, and the calendar is left
  priced from a season as it no longer is.

The invariants of the passing runs are those that hold despite them: for
`refunds` the instance has no scheduled balance, which is what `late_balance`
needs, and `RebuildRepairs` is about rebuilds that no other overlapped.

Some properties have an exception in their statement, which is what the code
does and a reader should know of. Two saves of one list that overlap leave both
lists (`SavedAloneIsWhole` speaks of a save alone). A phone that signs in while
its passkey is being revoked stays in (`RevokedIsOut`), and two revocations
that overlap can take the last passkey (`WayIn`). Two scans of one kind that
overlap write twice (`WrittenOnce`). `NeverOvercharged` and `OneConfirmation`
speak of stays whose payments were opened from one side (`OneSided`): opening
one over the link and again by phone makes two intents (the channel is part of
the key), and both can be paid. From one side it may be opened as often as
anyone likes; the runs open it once, the theorems for any number of times.

## Fairness

`Inn!Fairness`: clocks run; the periodic and queued jobs are run until they
end; the processor delivers an event until it is answered with a success; and a
step that is enabled again and again is taken, which is to say that neither a
crash nor a lost answer strikes every attempt at the same step. The queue gives
this: its rows survive crashes and are claimed again (`queue` checks
that on `Jobs`). No fairness is asked of guests, the owner, declines, or crashes.
`Jobs!Fairness` asks that servers are started again, that the clock runs, that
a row due for ever is claimed, and that a handler run again and again succeeds
at last; `Die` is free to interrupt. `Reports!ReportsSpec` is fair to its one
goroutine; what is checked of it is safety and needs none of it.

## Proofs

- `PartsProofs`, rooms: `RoomInv`, the conjunction of `TypeOK`,
  `ConfirmedHoldsRoom` and `Exclusion`, is inductive for any sets of bookings,
  requests and blocks, so two confirmed stays never share a room
  (`NoRoomSoldTwice`). `NoDoubleBooking` alone is not inductive: a confirmed
  stay without a row, or a lapsed hold under another's stay, would break it one
  step later, which is what the two other conjuncts exclude. The assumption is
  `SpanAssumption`: a stay has at least one night.
- `PartsProofs`, quotes: `NeverShort`, `NothingToGain` and `WarnedInTime`, for
  any nights, tax, payment, retention and day. The invariant `QuoteInv` only
  says where the numbers lie; the rest is arithmetic. Paying a cent more raises
  the fee kept by at most a cent (`CeilSteps`), which needs a retention below
  one, and a refund is therefore monotone in what was paid. Migration 00009
  bounds the column so (`BoundAssumption` of `MCPricing`).
- `PartsProofs`, search: `PickerIsTheSearch`, for any rooms, nights and spans.
  A sellable night lies in exactly one run of the list the server sends; the run
  is found as the least start before it and the least gap after it. Free by
  whole spans is then free night by night, which is true only because every
  occupied span has a night: that is what `SearchInv` keeps.
- `PartsProofs`, refund plan: `RetryPlansTheRest`, for any ledger and any amount
  asked for. `RestIsOwed` is not inductive, since it does not say whose the
  refunds already recorded are; `LedgerInv` does: they are the first parts of
  the division, in its order, under their charges' names. That survives a charge
  that lands meanwhile because the parts already planned do not change when the
  ledger grows (`PartsGrow`), and it is why striking recorded refunds by their
  amount alone leaves exactly the parts not yet sent (`AllocateRest`).
- `PartsProofs`, `LoopIsCounted`: `Allocate`, stated by counting, is what the
  two loops of the source leave, whatever the ledger. The loops are recursive
  functions over the prefixes of a sequence. That such a function exists at all
  is shown by least counterexample (`StruckExists`), and each of its values is
  determined by the one before; the first loop leaves the parts of the prefix
  and what remains of the target, the second keeps, for every amount, as many
  records as its strikes have not used up (`Round`).
- `PricingProofs`: `SplitIsExact`, `RefundBounded`, `KeepsTheFee` and
  `ScheduledIsAhead`, for every total, payment, rate and day, from lemmas about
  the ceiling; the assumption is that a rate is a fraction of a positive scale.
  It also holds the lemmas about sums over a finite set of payments
  (`SumOfNone` and those after it). The library's induction over finite sets
  takes a predicate, so they are proved by least counterexample: a set of least
  size on which the sum is wrong has an element, and without it is smaller.
  `AtIndicesAre` and those after it say which rows `AtIndices` picks, in which
  order and with what sum; `PartsAre` and `PartsSum` what a division of a refund
  consists of.
- `InnProofs`: `Spec => RoomsSpec`, the whole system implements `Occupancy`
  (`InnImplementsRooms`). A handler may secure or withdraw a room only for a
  booking that was ever written, so the refinement needs the inductive
  invariant `FlightInv`: whatever is in flight (an intent, a receipt, a decline,
  a transaction that has read its row, a call the balance job is about to
  record, a refund) is about a written booking. With it every action is shown
  to be one action of `Occupancy` or to leave the rooms alone (`RoomStep`), and
  `RoomsApart`, the part of `RoomInv` that does not ask what a request looks
  like, gives `InnHoldsItsRooms` and `InnSellsNoRoomTwice`: no double booking
  for any number of bookings, rooms, amounts, days and open transactions. No
  assumption on the constants is used.
- `InnProofs`: `NothingConfirmedUnpaid` and `GrossNeverShrinks`. RecordCharge
  decides with the gross as it was read, and adds to the gross as it is; the
  inductive invariant `MoneyInv` therefore says that no open transaction has
  read more than there now is (`CashInv`), besides the columns of a row
  (`BillInv`), the totals of written stays (`StayInv`) and `FlightInv`. The
  assumption used is `RequestAssumption`: a stay costs a positive number of
  cents and has a night.
- `InnProofs`, `LedgerTellsTheTruth`: `LedgerIsTrue` for any number of stays,
  deliveries, retries and crashes. A row is written some steps after the
  processor acted, by whoever was told, so the inductive invariant `TruthInv`
  follows the news: an open transaction and the balance job's next record carry
  what a receipt says (`HeardInv`), the refund job carries a part that went
  back (`SentInv`), a receipt of an off-session charge is for the amount its
  intent asks (`ReceiptInv`), and a key names one intent (`IntentInv`). Without
  the last two, a balance key reused after a crash could bring back the answer
  for another amount.
- `InnProofs`, `GrossIsCollected`: `amount_paid_cents` is the sum of the
  charges of the ledger. Every action either appends one charge and adds its
  amount, or appends a refund, or leaves both; a charge already recorded is
  returned early, before either is touched.
- `InnProofs`, `FlagIsTold`: the flag of a refused balance is up exactly when
  the guest was written to. The step lemma is stronger than the property: the
  two stand still together or go up together (`FlagKept`).
- `MoneyProofs`, `NobodyPaysMore`: that nobody pays more than the stay costs is
  not inductive, since a receipt may be on its way. `OnceInv` follows the
  requests instead: a payment carries its amount in its key and what arrives is
  never more (`AskedInv`); what was asked for and is not in the ledger is exactly
  what is outstanding (`OutstandingInv`), so that opening the page again asks
  under the same key, and entering one payment leaves nothing to ask; the job
  begins only when nothing of it is left (`PlanInv`: a stay confirmed or
  cancelled, on a plan), and asks for the rest. That is why a part payment, a
  reload and a job that died mid-call all end in one payment.
- `MoneyProofs`, `ToldOfOneBooking`: a charge decides whether to confirm with a
  status read earlier, so two could both find the stay pending. `ConfirmInv`
  shows why they do not: once a confirmation is written the money due at booking
  is in, while the payment of a charge that would confirm asked for what was
  missing of it; and a charge of a phone booking or of a balance has read the
  stay as confirmed or cancelled.
- `MoneyProofs`, `ScreensTellOneStory`: `ScreensAgree` is a property of a state,
  so it follows from invariants already proved, of the rooms
  (`InnHoldsItsRooms`), of the money (`MoneyInv`) and of the gross, and from
  `RowsInv`, carried over from `Occupancy` by the refinement.
- `MoneyProofs`, `WhatIsPromisedIsQueued`: a guest told of a refund has it queued
  until it has gone back (`PromiseKept`), under two hypotheses the code needs:
  no booking is written to of two cancellations (`OnceCancelled`), and the owner
  asks for no manual refund. `QueueRefund` is ON CONFLICT DO NOTHING, so a job
  already queued swallows a second refund: the run `late_balance` shows it with a
  balance that lands after a cancellation, and with `"refund"` exercised TLC
  finds a manual refund queued just before a cancellation do the same. Between
  them the theorem covers lost rooms, late payments, crashes, lost answers and
  refused parts. `PromiseInv` says what the property does not: what went back is
  the first parts of the division (`BackInOrder`, as in `RetryPlansTheRest`), and
  what a run of the job has still to send follows on from it, far enough to make
  good the promise (`OnItsWay`), though the run planned from an older ledger. A
  part is not taken for one recorded before because no payment bears a refund's
  name (`AnswerInv`) and no two charges of a ledger bear one name (`Filed`).
- `GateProofs`: `LimiterImplementsMeter`, for any callers, interval and burst and
  any time kept: the sweep never drops a bucket that is not full, so forgetting
  it changes nothing. `LimiterAssumption` is what it rests on. `OnePasskeyEach`
  comes from `InviteInv` (an invitation held by a ceremony is marked used, and
  one ceremony holds it), `NobodyLockedOut` from `CountInv` (an account no two
  revocations of which overlapped has one open at most, and two passkeys while
  it is), `RevokedAreOut` from `OutInv` (a live session has its passkey, unless
  it crossed a revocation under way).
- `NewsProofs`: `ToldInTheEnd`, with `NobodySkipped` as the strengthening: a
  browser owed and not yet delivered to is on the list of the send under way, or
  that send has failed and will be retried. `LettersAreFew` and
  `NobodyIsPassedOver`, from `NoticesInv`: a scan may still write to whom it
  found before another scan set the mark, so what is bounded by the overlaps is
  the letters written together with the scans that still hold the stay
  (`FewLetters`). `NothingLostUntold`, from `ReportsInv`: of what was logged
  before the close, whatever is neither posted, nor queued, nor in the worker's
  hand was counted as dropped (`LossesCounted`).
- `SavingProofs`, content: `RoomComesWhole`, `ReadsAreOfOneSave` and
  `AloneIsWhole`, for any number of rows, saves and readers. `ContentInv` says
  that a save nobody overlapped still finds the rows it found when it began
  (`AloneFindsAll`), which holds for rooms always, because one row is updated
  and locked; that no item is without its section (`NoOrphans`); and that rows
  and what was read of them bear the ids of the save that wrote them (`Signed`,
  `ReadSigned`).
- `SavingProofs`, rates: `AloneRepairs` and `PreviewIsKept`. `RatesInv` says of
  every open transaction that what it has read is still so, unless another has
  committed since (`EditsSound`), and that no night beyond the horizon is priced
  (`NothingBeyond`): a rebuild writes the window from its own day, and without
  that the nights it does not reach could be stale. That a night covered by
  some season has a best one is a least-element argument of the kind above.
- `JobsProofs`: `KeysAreUnique`, `NothingIsLost` and `SchedulesAreKept`, for any
  number of servers and rows and any lease. The invariant adds to the three
  that a server knows the kind of the row it claimed for as long as that row
  exists (`HandInv`), which is what its late outcome is decided by. The
  assumption used is that the registered kinds are finitely many.

Only model-checked:

- `PromiseKept` of a guest written to twice is not provable, being false
  (`late_balance`); the run `refunds` bounds cancellations by one and exercises no
  manual refund, and is the instance `WhatIsPromisedIsQueued` generalises.
- All liveness: fairness and ENABLED are beyond the prover.

## Plan

1. A run of the inn with a scheduled balance, a manual refund and two open
   transactions at once: its states are now beyond a few minutes.
2. The guest directory, and the payment link sent by mail.

## Not modelled

Multi-room bookings (no code path writes one), the pet fee apart from the
subtotal, time zones (`civil` fixes the inn's day before any of this),
messages' wording, the confirmation document, routing and metadata of the
pages, configuration, import tools, and the browser apart from its picker. They
keep no state that another part depends on, or render what is there. A
handler's database errors roll its transaction back and are the same as not
having run.
