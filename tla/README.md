# Vybraa API: a TLA+ model

Vybraa lets a fan order a personal video from a celebrity. The API is one NestJS
process (`src/main.ts`, `src/app.module.ts`) over one PostgreSQL database
(`prisma/schema.prisma`, read and written through Prisma). The fan pays through
Paystack or Flutterwave, the payment is held in escrow, the celebrity uploads the
video, and a job releases the escrow to the celebrity's wallet.

All paths below are relative to the repository.

## Inventory

| Component | Code | State it keeps | Operations that change state | Talks to |
|---|---|---|---|---|
| Payment intake | `src/payment/payment.controller.ts`, `payment.service.ts` | `requests.isRequestPaid`, rows of `wallet_transactions` | Paystack webhook (`charge.success`, `charge.failed`), Flutterwave webhook (`successful`), the fan's verify call | the providers (HTTP, webhooks), the mailer (events) |
| Request lifecycle | `src/request/request.service.ts` | rows of `requests` | `create`, `changeRequestStatus`, `updateVideo`, `delete`, `update` | Paystack (`createPayment`), Cloudinary, request limits |
| Escrow release job | `src/backgroundJobs/backgroundjobs.service.ts` | `wallet_transactions.escrowStatus`, wallets, `wallet_earnings_history` | `releaseEscrowPayments`, every minute | fees, wallets |
| Timeout jobs | same file | `requests.status`, `deletedAt` | `checkPendingPayments` (hourly), `checkForUnpaidRequests` (daily) | Paystack (verify) |
| Request limits | `src/request-limit/request-limit.service.ts`, `validateCelebrityRequestLimit` and `incrementCelebrityRequestCount` in `request.service.ts` | rows of `request_limits` | read with lazy creation and reset, update, check, increment | request creation, onboarding |
| Onboarding and review | `src/auth/onboarding.service.ts`, `src/admiin/admin.service.ts` | `CelebrityProfile` (step, complete, under review, review status), wallet and limit rows | steps 1 to 4, review, reset, approve, reject | Cloudinary |
| Authentication and tokens | `src/auth/auth.service.ts`, `src/auth/listeners/users.listener.ts` | users, verification, reset and magic-link tokens | login, social login, passwordless, verify, forgot and reset password, refresh | mailer (events) |
| Fees and conversion | `src/common/services/vybraa-config.service.ts`, `handleCurrencyConversion`, `src/exchange_rate` | rates and settings | admin updates of rates; the amounts shown, charged and paid out | request creation, the release |
| Flutterwave key | `updateFlutterWaveKey`, `src/flutter_key` | key rows with their access tokens | renewal every minute, CRUD | Flutterwave |
| Rate limiter | `src/main.ts:6-33` | a map from address to count and window | one step per HTTP request | |
| Wallet queries, activity logs, profiles, bank accounts, guards, Cloudinary, mail | the other modules of `src/` | single rows | CRUD | |

The components meet in the database and nowhere else: a webhook and a job never
call each other, they read and write the same rows. Only the release of one
request is a database transaction; every other handler is a sequence of separate
queries, and Node runs other handlers between any two of them.

What is hard to get right here:

* **interleaving**: providers deliver webhooks concurrently, twice and in any
  order, while fans call verify, celebrities change the status and jobs work;
* **stale lists**: each job lists its items with one query and works them off
  later; `@nestjs/schedule` does not wait for the last pass to end;
* **partial failure and restart** between two queries of one handler;
* **redelivery**: Paystack repeats an event until it gets a 200; the Flutterwave
  webhook answers 200 even after an error;
* **long waits** between a check and the write it guards (video upload);
* **lazy time**: monthly limits, tokens and rate windows are reset when read.

What makes each component correct: a payment is recorded if it was made (intake);
a request's payment is released at most once, only from pending escrow, together
with its payout (release); only unpaid requests time out (timeouts); deletion
takes no money with it (lifecycle); limits count what was created (limits); a
complete profile went through every step and has what a payout needs
(onboarding); a token is used once, before it expires (tokens); the parts of a payout
add up and wallets follow the earnings (fees); active keys are renewed (keys).
`PROJECT.json` lists the hazards one by one, each at its line.

## Plan

The order is by importance: money first.

1. `Store`, `RequestLifecycle`, `PaymentIntake`, `EscrowJobs`, composed by
   `EscrowPayments`; the abstract `Settlement`. *Done, with proofs.*
2. `RequestLimits`: concurrent creations against one counter with a lazy monthly
   reset; the limit endpoints. *Done, with proofs.*
3. `Onboarding`: the four steps with uploads, reset, review and admin decisions
   as concurrent calls; partial failure of step 4. *Done, with proofs.*
4. `AuthTokens`: accounts, verification codes, reset and access tokens; expiry; the
   listener that does not wait for a code to be stored; the abstract `OneTimeToken`,
   which they implement. *Done, with proofs.*
5. `Payouts`: the amounts of a request from quote to wallet, with rates, fees and
   rounding, whatever the provider reports. *Done, with proofs.*
6. `ProfileReview`, the abstract specification of `Onboarding`, implemented for users
   who make one call at a time; liveness of the timeout job. *Done; the refinement is
   proved.*
7. `FlutterKeys`: overlapping runs of the key job against edits of credentials and
   tokens and deletions.
   *Done; safety is proved, liveness checked.*

Left out of the plan: the rate limiter (see "Not modelled").

## Modules

| Module | What it is |
|---|---|
| `Store` | the shared tables as variables, the queries as operators, the enums of the schema |
| `RequestLifecycle` | the actions of `request.service.ts` |
| `PaymentIntake` | the webhook handlers and the verify call as concurrent calls; the providers as environment |
| `EscrowJobs` | the release pass and the timeout pass |
| `EscrowPayments` | the composition: initial state, next-state relation, restart, fairness, properties |
| `Settlement` | the abstract specification of an escrow, and its theorem |
| `EscrowPayments_proofs` | the theorems |
| `RequestLimits` | the monthly limits: creation's check and count, the limit endpoints, the row of onboarding |
| `RequestLimits_proofs` | its theorems |
| `Onboarding` | the onboarding steps, reset, the admin's decision |
| `ProfileReview` | the abstract specification of onboarding and review |
| `Onboarding_proofs` | its theorems |
| `AuthTokens` | accounts, their codes and reset tokens, what access tokens claim |
| `OneTimeToken` | the abstract specification of a mailed code or reset token, and its theorem |
| `AuthTokens_proofs` | the theorems about `AuthTokens` |
| `Payouts` | the money of a request: price, quote, charge, rates, fees, balances |
| `Payouts_proofs` | its theorems |
| `FlutterKeys` | the keys to Flutterwave's API and the job that renews their tokens |
| `FlutterKeys_proofs` | its theorems |
| `MCEscrowPayments`, `MCRequestLimits`, `MCOnboarding`, `MCAuthTokens`, `MCPayouts`, `MCFlutterKeys` | the instances for TLC |

The groups meet in few places. `AuthTokens` says who has an account, which the others
take for granted. Onboarding makes the wallet whose absence makes a release fail
(`Store` lets any user have or lack one) and a limits row (`CreateOnboardingRow`).
Creating a request passes the limit check first; a request that is refused is not born,
so `RequestLifecycle` may leave the check out. `EscrowPayments` and `Payouts` are two
views of the same release, one of its interleavings and one of its amounts: in the first
a payout is an event that may happen again, in the second a request has one payment and
one release, so how often it is paid is a question for the first only. A Flutterwave key
is read where a payment is initialised; a missing or stale token makes that call fail,
which `CreateRequest` may do anyway.

### State

| Variable | Code |
|---|---|
| `status[r]` | `requests.status`; "unborn" before `create`, "deleted" after `delete` |
| `channel[r]` | the provider `initializePayment` chose; fixed for a request |
| `isRequestPaid[r]` | `requests.isRequestPaid` |
| `transactions[t]` | a row of `wallet_transactions`: `requestId`, `reference`, `status`, `isInEscrow`, `escrowStatus` |
| `wallets` | users with a wallet |
| `earnings[r]` | number of `wallet_earnings_history` rows of a request: how often its payout was credited |
| `uploading` | requests with an `updateVideo` call between its check and its update |
| `handler[h]` | a webhook or verify call between two of its queries: what it serves, the record it found, the status it will write |
| `charge`, `notification` | the provider's side: what was charged, which events were sent or acknowledged |
| `releasing[w]` | the requests a release pass has listed and not yet handled |
| `timingOut`, `declining` | the same for `checkPendingRequests`, and the request between its two writes |

Of `RequestLimits`:

| Variable | Code |
|---|---|
| `now` | the date, `MonthLength` units to a month |
| `limits[u]` | the user's row of `request_limits` |
| `call[c]` | a call between two queries: the row as it was read, the row about to be written |
| `highest`, `made`, `received` | history, read by no guard but `MaxRequests`: highest limit the row ever had, requests the user made and the celebrity got since the row was last made or reset |

Of `Onboarding`:

| Variable | Code |
|---|---|
| `profile[u]` | the row of `CelebrityProfile`: step, complete, under review, review status, and whether photo and profession are filled in |
| `wallets`, `limits` | users with a row in `wallets`, in `request_limits` |
| `doing[c]` | what a call has checked and will do next |

Of `AuthTokens`:

| Variable | Code |
|---|---|
| `account[u]` | the row of `User`: absent, or its `isVerified` |
| `signedIn`, `claims` | users holding an access token; holding one that says `isVerified` |
| `tokens[t]` | a row of `VerifyToken` or `ResetToken`: being inserted, there, or gone; its time of expiry |
| `call[c]` | a verify-token or reset-password call: the row it found and its next query |
| `honoured`, `late` | history: deletions of a token by calls, and verifications and password changes by a token that was gone by then |

Of `Payouts`:

| Variable | Code |
|---|---|
| `requestPrice[c]` | `celebrityProfile.requestPrice`, in cents |
| `exchangeRate`, `feeSetting` | the row of `exchange_rates` from dollars to naira; the row `request_fee_charge` of the settings |
| `quote[r]` | the payment info the fan was last shown |
| `creating[r]` | a `create` call between the reading of the price and its insertion |
| `request[r]` | the row of `requests` and its payment: stage, price, currency, amount charged, amount and currency recorded; as history the rates of charge and release |
| `walletBalance[u]` | `wallets.walletBalance` |
| `earnings[r]` | the request's row of `wallet_earnings_history`: the share and the fee |

Of `FlutterKeys`:

| Variable | Code |
|---|---|
| `keys[k]` | a row of `FlutterWaveKey`: active, credentials, the credentials its token was issued for, minutes since `updatedAt`; as history whether an admin has written credentials or token since the token was asked for |
| `passes[p]` | a run of the job: the row and the credentials it read; as history whether the credentials were edited since |
| `due` | that the cron has yet to fire in this minute |
| `edits` | edits by admins, up to `MaxEdits` |

A row of `VerifyToken` holds no user and its code need not be unique, so an entered code
may find any stored row; whom it was mailed to is not kept.

`paymentReference` is unique (`schema.prisma:96`), so a transaction's reference is
modelled by the request it is the reference of.

### Where a handler is split

An action ends where the code awaits a query whose answer it uses later, or makes
the next write. `createPaymentRecord` is two actions (look for the record, then
update it or create one), the verify call is three (ask the provider, mark as
paid, create the row), a timed-out request is two (marker row, then DECLINED), a
video upload is two (check, then write). `releaseEscrowForRequest` is one action
because it runs in `$transaction`: `ReleaseEscrow` commits all of it,
`FailRelease` rolls all of it back. `updateRequestIsPaidStatus` reads the flag to
skip a write of the value it has, so its read and write are one action. Any step
may fail instead (`HandlerFails`, `FailVideoUpload`, `FailTimeoutPass`), which
covers database errors and rows deleted under the handler. `Restart` loses every
call and pass at any moment.

`create`'s limit check is read, (reset,) compare, create, increment: the reset
(`request.service.ts:318`) and the increment are updates of the row as it is by
then, the comparison is with the row as it was read. `getRequestLimit` reads, then
inserts or resets; an insertion fails if another call was first. Each onboarding
step is two actions, the check and the write; step 4 is a check and three writes,
since the code uses no transaction for them; a reset is check, deletion of the
photo, write. `FailCall` ends a call at any point, for errors and restarts alike.

The use of a token is split at its queries: look it up (and hash the password, which
is slow by design), change the account, delete the row, and for a code read the
account again and sign. Sending a code starts its insertion without waiting for it
(`SendCode`), so `SaveVerificationToken` comes any time later or never; an insertion that
fails is an unhandled rejection, which ends the process (`Restart`). A reset token is
stored before its mail is sent. "Insert if absent" is one action because `email` is unique:
the second of two insertions throws and changes nothing.

`create` reads the price in one query and inserts the request in a later one, so
`FetchRequestDependencies` and `CreateRequest` are two actions, between which price and
rate may change. The amounts of a release are computed in its transaction: one action,
with the setting (`ReleaseAtSetting`) or, after any error of the lookups, with the
default (`ReleaseAtDefault`). A run of the key job is read and ask, then answer and
write: the row may be edited or deleted while Flutterwave is asked.

### Abstractions

* Time is left out. "Older than 48 hours" is a nondeterministic subset of the requests
  that fit otherwise; a pass may start at any time.
* In `EscrowPayments` amounts, currencies and fees are left out; a payout is one row of
  earnings. They are `Payouts`' subject.
* In `Payouts` amounts are whole cents or kobo, as the columns hold. What JavaScript
  computes between two writes in floating point is an exact fraction here, rounded where
  a column of two decimals is written. Rates and settings are whole numbers.
* `Payouts` has one payment and one release per request, by its shape: it claims nothing
  of their number, which is `EscrowPayments`' subject. What the payment's record says is
  not derived from what was charged: the webhooks and the verify call store what the
  provider reports, a Paystack amount divided by 100 whatever it was multiplied by, and
  compare it with nothing, so `RecordPayment` takes any amount in `Reported` and any
  currency. That covers the scaling too, which the other amounts leave out. The service
  fees exist and do not change. The settings row is set by hand, before the first
  request.
* Of Flutterwave's tokens the model keeps the credentials they were issued for; `age`
  says no more than the job's query does. The readers of a token change nothing and are
  left out. An admin may write any credentials and any token in `Sent`, as the bodies of
  the key endpoints are not stripped; `updatedAt` is taken to be left to Prisma.
* Flutterwave's `cancelled` and `processing`, and unknown statuses, behave like `failed`
  and `pending`: nothing the properties speak of tells them apart.
* `PUT /requests/:id` (`update`, `request.service.ts:493`) is taken to change
  descriptive fields, and `changeRequestStatus` (521-524) to write the one column of its
  DTO, the status (`requests.dto.ts:26-30`). Both pass the body on unstripped, so either
  would write any column it is sent: this is an assumption about the clients.
* `verifyFlutterwavePayment` (`payment.service.ts:279`) looks a request up by its
  reference alone. That Flutterwave knows references of Flutterwave requests only is an
  assumption about the provider, `KnownToFlutterwave`; `PaystackPaidIsRecorded` and
  `PaystackPayoutFollowsCharge` rest on it.
* `checkForUnpaidRequests` writes `deletedAt`, which no query reads: no action.
* The loop of `checkPendingPayments` over escrowed PENDING payments is no action:
  `PendingSweepFindsNothing` proves that its query never returns a row.
* Mails, activity logs and signature checks change nothing modelled here.
* Dates are numbers of a unit that divides a month; all months have the same length. The
  default limits 10 and 20 are constants.
* The texts of a profile are left out, but for whether photo and profession are there:
  the columns steps 2 and 3 fill in. A first registration also creates the user; here it
  is a user's first call.
* Passwords, signatures and the answers of Google, Facebook and Apple are left out: of a
  password only that it is changed, of an access token what it says of `isVerified`.
  Access tokens do not expire. The ones onboarding signs repeat what the account says,
  like `refreshToken`, and are that action (`Login`).
* Mails are left out: a user may enter any code there is, her own, an old one, or one
  that was sent to another.
* Magic links: the creation of their rows is commented out (`auth.service.ts:577-589`,
  `647-659`), so `verifyMagicLink` always finds nothing.
* Whether the currency of a new wallet is found is nondeterministic (`SkipWallet`).
* `updateReviewStatus` (`onboarding.service.ts:552`) and `incrementRequestCount`
  (`request-limit.service.ts:140`) are called by nothing.
* The handlers for Flutterwave failures, transfers and refunds
  (`payment.service.ts:527-694`) are never called.

## Runs

| Run | Checks | Result |
|---|---|---|
| `EscrowSafety` | `TypeOK`, `NoEscrowedPendingPayment`, `PaidOutAtMostOnce`, `ReleasedIffPaidOut`, `PaystackPaidIsRecorded`, `PayoutReleasesPendingEscrow`, `PaystackPayoutFollowsCharge`, `ReleaseIsFinal`, `ImplementsSettlement` | holds |
| `EscrowLiveness` | `EscrowEventuallyReleased`, `PaystackChargeEventuallyRecorded`, `UnpaidEventuallyDeclined` | holds |
| `OverlappingRelease` | `PayoutReleasesPendingEscrow` with two release passes | violated |
| `UnchargedRelease` | `ReleasedPaymentsWereCharged` | violated |
| `LateTimeout` | `TimeoutDeclinesOnlyUnpaid` | violated |
| `StrandedEscrow` | `MissedChargeEventuallyReleased` | violated |
| `LimitsSafety` | `TypeOK`, `OvershootBounded`, `CountNotInflated` | holds |
| `CelebrityLimit` | `CelebrityLimitEnforced` | violated |
| `OnboardingSafety` | `TypeOK`, `OneCallReviewIsWhole`, `UnderReviewIsComplete`, `WalletFollowsCompletion`, `ImplementsReview` | holds |
| `AuthSafety` | `TypeOK`, `HonouredOnce`, `LateChangesBounded`, `ClaimsHold`, `ImplementsOneTimeToken` | holds |
| `PayoutSafety` | `TypeOK`, `PayoutsAddUp`, `PriceIsCovered`, `DebtIsFixedFee`, `BalancesFollowEarnings`, `QuoteIsCharged` | holds |
| `KeyRenewal` | `TypeOK`, `TokenIsItsOwn`, `ActiveKeysStayRenewed`, `TokensCatchUp` | holds |

The first six are instances of `MCEscrowPayments`, the others of
`MCRequestLimits`, `MCOnboarding`, `MCAuthTokens`, `MCPayouts` and `MCFlutterKeys`.

What the passing runs say: whatever the order of webhooks, verify calls, status changes,
uploads, deletions, errors and restarts, and as long as release passes do not overlap, a
request is paid out at most once, from a payment that was in pending escrow, in the same
step that marks it RELEASED, and neither is undone: no webhook, deletion or restart
takes a released row back or parts it from its request. A request paid through Paystack
is not paid out before Paystack answered for its money, although the celebrity sets its
status as she likes. (It may be paid out after a *failed* charge; see below.) A Paystack
request marked as paid has its record or will get the event again; its charge is
recorded in the end. A request that stays releasable is released. A request that stays
pending and unpaid is declined, also after a timeout pass that broke off behind its
marker row, unless a row in pending escrow keeps it: the one a failed charge leaves
does, for ever. The count of a limits row passes the highest limit it ever had, and the
number of requests its user really made in the period, by less than the number of calls
that may run at a time. The profile of a user who makes one call at a time has been
through every step when it is reviewed; she moves one step at a time, is listed by her
last step, and once decided on is not listed again without all the steps
(`ProfileReview`). She gets her wallet with a whole profile and never before, nor from a
call that a reset has overtaken. A profile under review is marked complete whatever its
user does; with two calls of hers at a time no more than that holds, since the step a
call checks is then not the step it overwrites. However many calls have found a code or
a reset token, one gets past its deletion; the others may still verify an account or
change the password after that, each once, and cannot begin anew: each row is a
`OneTimeToken`. An access token never says of an account that it is verified when it is
not. Nothing is said of whose code a user enters: the table does not tie one to a user.

The two parts of a payout add up to the recorded payment at the rate of the release, or
to the price when the release fell back on it, to within a cent. They are worth less than
the celebrity's price for two reasons only: the provider reported less than was charged,
or in another currency, which nothing in the code looks at; or the rate rose in between.
Only a fixed fee takes from a
celebrity's wallet. Wallets move with the earnings history, but may part from it by a
cent below zero: the database rounds the sum of balance and share, not the share, and
rounds halves away from zero. A fan
is charged what he was shown unless price, rate or currency changed on the way.

Runs of the key job alone never leave a row with a token of other credentials than its
own, however they overlap; an edit that overtakes a run may, since the run writes its
token beside the new credentials. Once its row is left alone and no run is lost, an
active key is renewed again and again, and its token is in the end one of its
credentials and stays so, whatever the edits and the late runs left there, provided
every active row has credentials that Flutterwave accepts: one that is refused is never
written, stays the stalest, and may be what `findFirst` returns each minute. An edit of
a row restarts its seven minutes although its token is no younger, which is why the
property wants it left alone.

What the violated ones say, each about a sentence of the documentation quoted in
`PROJECT.json`:

* overlapping passes pay twice: the listing is checked, the release is not;
* a failed Paystack charge puts a row in escrow and its request stays PENDING; when the
  celebrity completes it, she is paid;
* a request paid while the timeout pass is on its way is declined;
* a request whose fan had its payment verified while the charge was pending, and whose
  webhook then fails, is never released. Two sentences are wrong of it: that a completed
  request's escrow is released, since verify's row is outside escrow; and that the job
  catches a missed webhook, since no payment is recorded as PENDING in escrow when it is
  initiated and so the job's query finds nothing (`NoEscrowedPendingPayment`);
* a celebrity gets more requests than her limit: the fan's row is checked.

Two concurrent deliveries, or a delivery and a verify call, may leave two rows for one
payment; that is a state of every run, and the release pays one of them out.

### Bounds

One request, one celebrity, two transaction rows, two concurrent handlers (safety) or
one (liveness), one release pass (two in `OverlappingRelease`). Requests meet only
through the passes' lists and the wallets, and a list's entries are handled
independently, so one request shows every interleaving about a request; the theorems
cover any number. Two rows are what it takes for a reference to have a duplicate, or a
payment next to a timeout row. Two handlers are what it takes for two calls to race for
the same record. Handlers and passes are interchangeable and never compared but for
equality, so the safety run uses symmetry; the liveness runs do not. Row ids are handed
out in a fixed order (`InsertRow`), which leaves out behaviours that differ in their
names only. The safety and the liveness run have one wallet that is both the celebrity's
and Vybraa's: a release asks for the two together, and fails if either is missing.
`earnings` needs no bound: with one pass it stays at most 1, and the run with two passes
stops at the violation. The bound on rows shows in two properties.
`PaystackChargeEventuallyRecorded` excuses a full table. `UnpaidEventuallyDeclined`
excuses it only for a pass that has not written its marker row yet (`NoRoomFor`): with
two rows, the request must be declined by the pass that writes the second marker, after
one pass broke off behind the first. A second pass that breaks off there leaves no room
for a third, and the run says nothing of it.

`LimitsSafety` has one user, who is also the celebrity, and two calls: a row is read
and written by calls about its own user only, so one user shows every interleaving
about a row. Months have two units, so that a row's date may fall inside a month
(onboarding's) or at its start, and the clock runs for two months: what a call read
in one month it may use in the next. Limits are 1 or 2, so that one call can pass
them and two can overshoot; `MaxRequests`, the requests of a period, is above both.
`CelebrityLimit` has a fan and a celebrity and one call.

`OnboardingSafety` has a user who makes two calls at a time and one who makes one,
so both readings of the properties occur together; the calls of the first are
interchangeable. Once she has a wallet or a limits row (`HastyHasNoRows`) the first
is not followed further: what such a row decides, whether an insertion fails, a call
may also do without it.

`AuthSafety` has two users, since a call verifies its own user by any stored row; two
code rows, one of which may expire while the other is young; one reset row; and two calls,
which is what it takes for two calls to use one token. `TokenLife` is 1 and the clock moves
twice, so a token is used early, in its last moment or too late, and a call that found it
in time may go on when it has expired. Rows of the two tables never meet, and a third call
only repeats what the second does; the theorems cover any number.

`PayoutSafety` has two requests to one celebrity, so that payouts meet in her wallet;
prices of 1 and 5 cents, rates of 0, 2 and 3, a fee of 10 per cent, a fixed fee of 6 or
no setting, service fees of 1 cent and 3 kobo. The provider reports 8 or 13 in either
currency: a price of 5 costs 6 cents, or 13 kobo at a rate of 2 and 18 at 3, so each report
is full payment of some request and short of another. With these, shares end in halves of
a cent, fixed fees exceed amounts, a rate is missing or 0, and rates rise and fall between
charge and release. All numbers are small because only their remainders matter to the
rounding; the theorems cover any.

`KeyRenewal` has two keys and two runs, so that runs overlap on one key or on two; two
credentials Flutterwave knows and one it refuses; and one edit (`MaxEdits`), which is what
it takes for a run to be answered for credentials the row no longer has. Rows are made
with any credentials, and with no token or one of the first credentials (`Sent`). `Stale`
is 1 minute instead of 7. What matters is that it is at least the number of keys less one:
a renewed row must be out of the way while each other row has its run. With fewer minutes
than that `ActiveKeysStayRenewed` is violated; the code's 7 serve up to eight active rows.

None of the limits, onboarding, token and payout modules has liveness properties: nothing
obliges a user to go on.

### Fairness

`FairSpec` assumes what the scheduler and the providers do:

* weak fairness of starting a release pass (cron, every minute) and of working
  off its list (the loop);
* strong fairness of releasing a request: database errors are transient, so a
  release that can succeed at pass after pass is not made to fail at each;
* weak fairness of ending a call: an awaited query returns or throws;
* strong fairness of the redelivery of an unacknowledged success event (Paystack
  repeats it) and of each query of the handler (again, errors are transient).

* weak fairness of going on with a timeout pass, or of its failing, and strong fairness
  of a pass that lists a given request: it is old enough at some pass, and stays so.
  That a pass may fail each time is excluded in the property, not in the
  specification: `UnpaidEventuallyDeclined` speaks of behaviours in which passes stop
  breaking off (`BrokenOff`).

Nothing obliges fans, celebrities or the verify call to act.

`FlutterKeys`' `FairSpec` assumes weak fairness only: of the clock, of the cron that
fires each minute, and of the end of each request to Flutterwave, by an answer or an
error. Lost runs, restarts that lose one or the minute's firing, and edits are again
excluded in the properties (`Disturbs`); a minute in which the job finds nothing to do is
not a disturbance. A request
that hangs for ever would occupy one of the model's runs; in the code it occupies
nothing.

## Proofs

`EscrowPayments_proofs` proves, for any number of requests, rows, handlers,
celebrities and passes:

| Theorem | Says |
|---|---|
| `TypeCorrect` | `Spec => []TypeOK` |
| `PendingSweepFindsNothing` | `Spec => []NoEscrowedPendingPayment` |
| `LedgerAgrees` | `Spec => []ReleasedIffPaidOut` |
| `PaidIsRecorded` | `Spec => []PaystackPaidIsRecorded` |
| `PayoutFollowsCharge` | `Spec => []PaystackPayoutFollowsCharge` |
| `ReleaseStays` | `Spec => ReleaseIsFinal` |
| `PaidAtMostOncePerPass` | `Spec => []PaidOncePerPass`, for finitely many passes |
| `PaidOnce` | `Spec /\ []DisjointLists => []PaidOutAtMostOnce` |
| `PayoutTakesPending` | `Spec /\ []DisjointLists => PayoutReleasesPendingEscrow` |
| `Refinement` | `Spec /\ []DisjointLists => ImplementsSettlement` |
| `ReleasedPaidOnce` | `Spec /\ []DisjointLists => []S!OnePayoutPerRelease` |
| `TurnsKeepListsDisjoint` | `Spec /\ PassesTakeTurns => []DisjointLists` |
| `SequentialPasses` | `PaidOnce`, `PayoutTakesPending` and `Refinement` under `Spec /\ PassesTakeTurns` |
| `SinglePass` | the same under `Spec` alone, if there is one pass (`NonOverlapping`) |

The assumptions are `StoreAssumption` (model values are what they stand for) and, where
it says so, that no request is on the lists of two passes (`DisjointLists`). The first
seven need no such thing: they hold however many passes overlap. What is lost when passes
overlap is bounded too: a request is paid at most once for each pass. The lists are
disjoint when a pass starts only after the last has ended (`PassesTakeTurns`), whatever
the number of passes. The code does not enforce that; `OverlappingRelease` shows what
happens without it. `PaidOncePerPass` is checked by no run, as the run with two passes
stops at its violation; with one pass it is `PaidOutAtMostOnce`.

`Settlement` has a theorem of its own, `Settled`: in every behaviour of the abstract
escrow a released payment was paid out exactly once and any other not at all. The
refinement carries it over to the code, as `ReleasedPaidOnce`.

The argument goes in layers, each an invariant inductive relative to those below:

1. `Base`: `TypeOK` and `HandlerInv`. Types alone are not inductive: that
   `UpdatePaymentRecord` writes a row, and not into the void, depends on what the
   call found earlier still being there. `HandlerInv` says so of each call
   (`CallInv`), and that calls for a failed payment never mark a request as paid,
   that verify calls are about Flutterwave requests, and that webhooks never carry
   PENDING. It rests on `NextStores`: no step removes a row or changes a reference.
2. `NoEscrowedPendingPayment` follows row by row from `RowChange`, the lemma that
   lists the five ways in which a row can change.
3. `Ledger`: `LinkInv` (a row with a request's reference is linked to it until it
   is deleted), `PaidOutExists` (a paid-out request cannot be deleted) and
   `ReleasedIffPaidOut`. No assumption on passes.
4. `EventInv`, for Paystack: a request is marked as paid only by its success event,
   and the event is acknowledged only after the row is there.
5. `Books`: adds `ListInv`, no pass lists a request that was paid out. A request
   is listed when *all linked* rows are pending; by `LinkInv` all rows with its
   reference are linked, so by `ReleasedIffPaidOut` it was not paid out. A second
   pass with the request on its list would break it between listing and release, which
   is what `DisjointLists` excludes.
6. The refinement: `escrowOf` changes in a step from "none" to "held" for the one
   request a call creates a row for, and from "held" to "released" for the one
   request that is paid out, and in no other way.
7. `ChargeInv`, for Paystack, about the provider and the books together: whoever
   carries news of a payment (an event that was sent, a call that serves one, a row
   with the reference) does so after the charge. The payout needs a row, so it comes
   later still.
8. `ReleaseIsFinal` needs `ReleasedHasReference`: what a release marks is a payment,
   not the marker row of a timeout, which has no reference. A deletion unlinks rows,
   and would unlink a released one but for `PaidOutExists`.
9. `PaidOncePerPass` is not inductive: a pass that has the request on its list may
   still pay. `PayoutsLeft` counts those passes too: payouts made plus passes that
   list the request are at most all passes. A pass adds itself to a list only while
   nothing was paid, by `ReleasedIffPaidOut`, and each payout takes one off.
10. `DisjointLists` is kept by each step but the start of a pass (`ListChange`), and by
   that one if all other lists are empty (`TurnStep`).

`RequestLimits_proofs`, for any number of users and calls, any limits and any length
of a month, from `LimitsAssumption` (the limits and the month are positive, the calls
finitely many):

| Theorem | Says |
|---|---|
| `TypeCorrect` | `Spec => []TypeOK` |
| `LimitOvershoot` | `Spec => []OvershootBounded` |
| `CountIsEarned` | `Spec => []CountNotInflated` |

Neither bound is inductive: a call that is past the check may still count. The
invariants count those calls too. `AdmittedWithinLimit` says that the count plus the
calls that passed the check (or will, with the row they read) is at most the highest
limit plus the number of calls less one; a creation enters that set only with a row
read while the count was below the limit, and leaves it by counting or failing.
`CountedWereMade` adds the calls between `CreateRequestRecord` and the increment. After
a reset the count is 0 and at most all calls are ahead, and the bound allows that
many. Both rest on `CallInv`: rows stay, and only a call
that found a row writes one.

`Onboarding_proofs`, for any number of users and calls, from `OnboardingAssumption`
(each call is made by one user; the value for a missing row is not a row):

| Theorem | Says |
|---|---|
| `TypeCorrect` | `Spec => []TypeOK` |
| `ReviewNeedsCompletion` | `Spec => []UnderReviewIsComplete` |
| `ReviewIsWhole` | `Spec => []OneCallReviewIsWhole` |
| `WalletIsEarned` | `Spec => WalletFollowsCompletion` |
| `Refinement` | `Spec => ImplementsReview` |

`Base` adds to the types that a call with a write ahead found a profile. The last three
need `OneCallInv`: for a user who makes one call at a time, the step says which
columns are filled in and whether the profile can be under review (`Progress`), and
the step a call has checked is still the step of the row (`Checked`). With a second
call `Checked` fails. `WalletInv` adds that a call about to make the wallet still has a
whole profile behind it. For the refinement each step is looked at from the one user whose
row it writes: it leaves her step and her listing alone (`Stays`) or is one of the
actions of the review (`Reviewed`), and `ReviewStep` puts the users together. Users who
make several calls at a time take part in the system and are not seen in the review.

`AuthTokens_proofs`, for any number of users, calls and tokens, any codes and any life of
a token, from `AuthAssumption` (the two kinds of rows are distinct, the calls finitely
many):

| Theorem | Says |
|---|---|
| `TypeCorrect` | `Spec => []TypeOK` |
| `ClaimsAreTrue` | `Spec => []ClaimsHold` |
| `HonouredAtMostOnce` | `Spec => []HonouredOnce` |
| `LateChanges` | `Spec => []LateChangesBounded` |
| `Refinement` | `Spec => ImplementsOneTimeToken` |
| `EveryTokenUsedOnce` | `Spec => []O!UsedOnce` |

`ClaimsHold` is inductive because no step takes a verification back. The next two rest on
the life of a row (`RowStays`, `Consumed`): one that is gone stays gone, and only the
deletion that ends a call makes a stored one go. `LateChangesBounded` is not inductive,
since a call that found the token may verify an account or change the password later.
`ChangesLeft` counts those calls too: late changes plus calls that are still to make one
are fewer than all calls, as the call that deleted the token is none of them. Its step
needs `CallInv`, that what a call works with is there or gone.

`OneTimeToken` says what remains when queries and calls are forgotten: a token is issued,
used up once, never issued again, and acted on late less often than there are calls; its
theorem `OneUse` draws the consequences. For the refinement an insertion under way is no
token yet, `SaveVerificationToken` and `ForgotPassword` are the issue (`Issues`), the
deletion that succeeds is the use (`Uses`), a verification or a password change after it
the late act (`ActsLate`), and every other step is none (`TokenStep`). A late act needs
`FoundOrUsed`: a call whose token is not stored any more was overtaken by a use of it,
and not by a lost insertion. The bound of `ActLate` is `LateChangesBounded` in the next
state. `EveryTokenUsedOnce` is `OneUse` carried over.

`Payouts_proofs`, for any requests, celebrities, prices, rates, settings, service fees and
reported amounts, from `PayoutAssumption` (prices are positive whole numbers, rates, fees
and reports whole numbers, a percentage is at most 100, Vybraa's wallet is no celebrity's):

| Theorem | Says |
|---|---|
| `TypeCorrect` | `Spec => []TypeOK` |
| `AddsUp` | `Spec => []PayoutsAddUp` |
| `PriceCovered` | `Spec => []PriceIsCovered` |
| `DebtComesFromFixedFees` | `Spec => []DebtIsFixedFee` |
| `BalancesMove` | `Spec => BalancesFollowEarnings` |
| `ChargedAsQuoted` | `Spec => QuoteIsCharged` |

The arithmetic is in a few lemmas on `\div`: `RoundNearest` bounds what rounding adds,
`IncrementExact` and `IncrementNear` compare rounding the new balance with adding the
rounded part, at or above zero and below. `Books` is the invariant: of each paid-out
request its parts add up to what was recorded, and each was charged its price at the
rate of the day and the service fee (`Sound`, from which `PriceCovered` follows), of
each celebrity that debt has a fixed fee behind it (`Solvent`). `ChargedAsQuoted` needs
`Quotes`, that what was shown is the function of price, currency and rate that the
charge computes again elsewhere.

`FlutterKeys_proofs`, for any number of keys, credentials, runs and edits and any `Stale`,
from `FlutterKeysAssumption`: `TypeCorrect` (`Spec => []TypeOK`) and `TokensAreOwn`
(`Spec => []TokenIsItsOwn`). The second is not inductive, as a run on its way may bring a
token of credentials the row has no longer. `Own` adds `KnowsItsRow`: a run that was not
overtaken by an edit has asked with the credentials its row has, and its row was made
(ids are not given again).

Only model-checked: the liveness properties, and the properties of the violation
runs. TLC also confirmed `HandlerInv`, `LinkInv`, `PaidOutExists`, `ListInv` and
`EventInv`, and `CallInv`, `ChangesLeft` and `FoundOrUsed` of `AuthTokens`, on the safety
instances before they were proved, and `ChargeInv`, `ReleasedHasReference`, `PayoutsLeft`
and `PaidOncePerPass` on an instance with two passes and one handler.

## Not modelled

See "components" in `PROJECT.json` for each part with its reason. The rate limiter is a
counter in memory that one synchronous step reads and writes; no other code and no
document depends on it. Activity logs, profiles, bank accounts, guards and reference data
are single-row reads and writes with no protocol between them; mail, Cloudinary and the
bank's API are external. Of the wallets only the read endpoints are left out.
