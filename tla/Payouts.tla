------------------------------ MODULE Payouts ------------------------------
(***************************************************************************)
(* The money of a request: what a fan is quoted and charged, what the       *)
(* release splits between the celebrity and Vybraa, and what arrives in     *)
(* their wallets (request.service.ts, vybraa-config.service.ts,             *)
(* exchange_rate.service.ts, payment.service.ts,                            *)
(* backgroundjobs.service.ts).  Here a payment is recorded once and         *)
(* released once, and the amounts are the point; that webhooks, passes and  *)
(* failures may record or release it otherwise is EscrowPayments' subject,  *)
(* and nothing is claimed of it here.                                       *)
(*                                                                         *)
(* Amounts are whole cents (or kobo), as every column of type Decimal(15,2) *)
(* is; what the code computes between two writes is an exact fraction, and  *)
(* a write rounds it.                                                       *)
(***************************************************************************)
EXTENDS Integers

CONSTANTS
    Request,
    Celebrity,
    CelebrityOf,  \* the celebrity a request is made to
    SuperAdmin,   \* the owner of Vybraa's own wallet
    Price,        \* the prices a celebrity may ask, in cents of the base currency
    Rate,         \* the exchange rates an admin may enter, in naira per dollar
    FeeSetting,   \* what the row `request_fee_charge` of the settings may be
    ServiceFee,   \* the active service fee in each currency
    Reported,     \* the amounts a provider may report for a payment
    NoRow         \* no row

VARIABLES
    requestPrice,   \* celebrityProfile.requestPrice
    exchangeRate,   \* the row of exchange_rates from dollars to naira
    feeSetting,     \* the row `request_fee_charge`, set up by hand
    quote,          \* what the fan was last shown before the request
    creating,       \* a `create` call that has read the celebrity's price
    request,        \* the row of `requests` with the amount that is charged
    walletBalance,  \* wallets.walletBalance
    earnings        \* the request's row of wallet_earnings_history

vars == <<requestPrice, exchangeRate, feeSetting, quote, creating, request,
          walletBalance, earnings>>

Currency == {"USD", "NGN"}

WalletOwner == Celebrity \cup {SuperAdmin}

ExchangeRate == [rate: Nat, isActive: BOOLEAN]

Setting == [calculationType: {"PERCENTAGE", "FIXED"}, value: Nat]

\* A request and its payment: `amount` is what the fan is charged in `currency`,
\* `paid` and `paidIn` what the transaction says he paid (0 before there is one).
\* What the code does not store is history: `rate`, the rate it was charged at, and
\* `settledAt`, the one it was released at (0 when the release fell back on the
\* price of the request).
RequestRow ==
    [stage: {"created", "held", "released"}, price: Nat, currency: Currency,
     amount: Nat, rate: Nat, paid: Nat, paidIn: Currency, settledAt: Nat]

ASSUME PayoutAssumption ==
    /\ CelebrityOf \in [Request -> Celebrity]
    /\ SuperAdmin \notin Celebrity
    /\ Price \subseteq Nat \ {0}
    /\ Rate \subseteq Nat
    /\ FeeSetting \subseteq Setting \cup {NoRow}
    /\ \A s \in FeeSetting :
          s # NoRow /\ s.calculationType = "PERCENTAGE" => s.value <= 100
    /\ ServiceFee \in [Currency -> Nat]
    /\ Reported \subseteq Nat
    /\ NoRow \notin ExchangeRate \cup Setting \cup RequestRow
    /\ NoRow \notin [price: Nat, currency: Currency, rate: Nat, total: Nat]
    /\ NoRow \notin [price: Nat, currency: Currency]
    /\ NoRow \notin [amount: Int, vybraaFee: Int]

TypeOK ==
    /\ requestPrice \in [Celebrity -> Nat]
    /\ exchangeRate \in ExchangeRate \cup {NoRow}
    /\ feeSetting \in FeeSetting
    /\ quote \in [Request -> [price: Nat, currency: Currency, rate: Nat, total: Nat]
                               \cup {NoRow}]
    /\ creating \in [Request -> [price: Nat, currency: Currency] \cup {NoRow}]
    /\ request \in [Request -> RequestRow \cup {NoRow}]
    /\ walletBalance \in [WalletOwner -> Int]
    /\ earnings \in [Request -> [amount: Int, vybraaFee: Int] \cup {NoRow}]

Init ==
    /\ requestPrice = [c \in Celebrity |-> 0]
    /\ exchangeRate = NoRow
    /\ feeSetting \in FeeSetting
    /\ quote = [r \in Request |-> NoRow]
    /\ creating = [r \in Request |-> NoRow]
    /\ request = [r \in Request |-> NoRow]
    /\ walletBalance = [u \in WalletOwner |-> 0]
    /\ earnings = [r \in Request |-> NoRow]

-----------------------------------------------------------------------------
(* Rounding *)

\* What PostgreSQL stores of n / d in a column with two decimals: the nearest
\* cent, a half away from zero.
Round(n, d) ==
    IF n >= 0 THEN (2 * n + d) \div (2 * d)
              ELSE -((2 * (-n) + d) \div (2 * d))

\* `increment: n / d`: the sum is rounded, not the increment.
Increment(balance, n, d) == Round(balance * d + n, d)

-----------------------------------------------------------------------------
(* Prices and rates *)

\* updateCelebrityProfile: a price of 0 leaves the price as it is.
SetPrice(c, p) ==
    /\ requestPrice' = [requestPrice EXCEPT ![c] = p]
    /\ UNCHANGED <<exchangeRate, feeSetting, quote, creating, request,
                   walletBalance, earnings>>

\* Mutant: the new rate is not switched on, nor off.
CreateRateWithoutStatus(rate) ==
    /\ exchangeRate = NoRow
    /\ exchangeRate' = [rate |-> rate]
    /\ UNCHANGED <<requestPrice, feeSetting, quote, creating, request,
                   walletBalance, earnings>>

\* createExchangeRate: there is one row for two currencies (schema.prisma:199).
CreateExchangeRate(rate) ==
    /\ exchangeRate = NoRow
    /\ exchangeRate' = [rate |-> rate, isActive |-> TRUE]
    /\ UNCHANGED <<requestPrice, feeSetting, quote, creating, request,
                   walletBalance, earnings>>

\* updateExchangeRate writes whatever columns it is sent.
UpdateExchangeRate(rate, isActive) ==
    /\ exchangeRate # NoRow
    /\ exchangeRate' = [rate |-> rate, isActive |-> isActive]
    /\ UNCHANGED <<requestPrice, feeSetting, quote, creating, request,
                   walletBalance, earnings>>

-----------------------------------------------------------------------------
(* What the fan is shown and charged *)

\* A fan in Nigeria pays in naira, which takes an active rate; any other in
\* dollars.
CanCharge(currency) ==
    currency = "NGN" => exchangeRate # NoRow /\ exchangeRate.isActive

\* The rate an amount in `currency` is charged or paid out at.
RateOf(currency) == IF currency = "NGN" THEN exchangeRate.rate ELSE 1

\* Mutant: the price is taken for naira.
Unconverted(amount, currency) == amount

\* handleCurrencyConversion, from the base currency.
HandleCurrencyConversion(amount, currency) == amount * RateOf(currency)

\* Mutant: the bill is the one in the base currency, whoever pays.
PaymentAmountWithBaseBill(price, currency) ==
    HandleCurrencyConversion(price, currency) + ServiceFee["USD"]

\* calculatePaymentAmount, in kobo or cents.
PaymentAmount(price, currency) ==
    HandleCurrencyConversion(price, currency) + ServiceFee[currency]

\* celebrityRequestPaymentInfo: the price, converted for a fan in Nigeria, and the
\* service fee, as two lines the fan adds up.
ShowPaymentInfo(r, currency) ==
    LET price == requestPrice[CelebrityOf[r]] IN
    /\ request[r] = NoRow
    /\ CanCharge(currency)
    /\ quote' = [quote EXCEPT ![r] =
          [price |-> price, currency |-> currency, rate |-> RateOf(currency),
           total |-> HandleCurrencyConversion(price, currency) + ServiceFee[currency]]]
    /\ UNCHANGED <<requestPrice, exchangeRate, feeSetting, creating, request,
                   walletBalance, earnings>>

\* create, up to fetchRequestDependencies: the celebrity's price is read.
FetchRequestDependencies(r, currency) ==
    /\ request[r] = NoRow
    /\ creating[r] = NoRow
    /\ creating' = [creating EXCEPT ![r] =
          [price |-> requestPrice[CelebrityOf[r]], currency |-> currency]]
    /\ UNCHANGED <<requestPrice, exchangeRate, feeSetting, quote, request,
                   walletBalance, earnings>>

\* create, the rest: the amount is computed with the rate by then and charged, and
\* the row carries the price that was read before.
CreateRequest(r) ==
    LET call == creating[r] IN
    /\ call # NoRow
    /\ CanCharge(call.currency)
    /\ request' = [request EXCEPT ![r] =
          [stage |-> "created", price |-> call.price, currency |-> call.currency,
           amount |-> PaymentAmount(call.price, call.currency),
           rate |-> RateOf(call.currency),
           paid |-> 0, paidIn |-> call.currency, settledAt |-> 0]]
    /\ creating' = [creating EXCEPT ![r] = NoRow]
    /\ quote' = [quote EXCEPT ![r] = NoRow]
    /\ UNCHANGED <<requestPrice, exchangeRate, feeSetting, walletBalance, earnings>>

\* There is no active rate, the provider refuses, or the process is restarted.
FailCreate(r) ==
    /\ creating[r] # NoRow
    /\ creating' = [creating EXCEPT ![r] = NoRow]
    /\ UNCHANGED <<requestPrice, exchangeRate, feeSetting, quote, request,
                   walletBalance, earnings>>

Stage(r) == IF request[r] = NoRow THEN "unborn" ELSE request[r].stage

\* The webhook records the amount and the currency the provider reports, and nobody
\* compares them with what the request is to cost: a Flutterwave payment is made by
\* the fan's client, and a Paystack amount is divided by 100 although it was
\* multiplied in production only (request.service.ts:366, payment.controller.ts:150).
RecordPayment(r, paid, paidIn) ==
    /\ Stage(r) = "created"
    /\ request' = [request EXCEPT ![r].stage = "held",
                                  ![r].paid = paid, ![r].paidIn = paidIn]
    /\ UNCHANGED <<requestPrice, exchangeRate, feeSetting, quote, creating,
                   walletBalance, earnings>>

-----------------------------------------------------------------------------
(* What the release pays *)

\* The payment of the request is in pending escrow.
Held(r) == Stage(r) = "held"

\* Mutant: Vybraa's part is written down and never credited.
PayOutCelebrityOnly(r, share, fee, d, rate) ==
    /\ Held(r)
    /\ walletBalance' =
          [walletBalance EXCEPT ![CelebrityOf[r]] = Increment(@, share, d)]
    /\ earnings' = [earnings EXCEPT ![r] =
          [amount |-> Round(share, d), vybraaFee |-> Round(fee, d)]]
    /\ request' = [request EXCEPT ![r].stage = "released", ![r].settledAt = rate]
    /\ UNCHANGED <<requestPrice, exchangeRate, feeSetting, quote, creating>>

\* releaseEscrowForRequest, the writes: share / d for the celebrity, fee / d for
\* Vybraa, and a row that says so.
PayOut(r, share, fee, d, rate) ==
    /\ Held(r)
    /\ walletBalance' =
          [walletBalance EXCEPT ![CelebrityOf[r]] = Increment(@, share, d),
                                ![SuperAdmin] = Increment(@, fee, d)]
    /\ earnings' = [earnings EXCEPT ![r] =
          [amount |-> Round(share, d), vybraaFee |-> Round(fee, d)]]
    /\ request' = [request EXCEPT ![r].stage = "released", ![r].settledAt = rate]
    /\ UNCHANGED <<requestPrice, exchangeRate, feeSetting, quote, creating>>

\* Mutant: the value of the setting is taken for a factor.
FeeAsFactor(amount, rate) ==
    IF feeSetting.calculationType = "PERCENTAGE"
      THEN 100 * amount * feeSetting.value
      ELSE 100 * rate * feeSetting.value

\* evaluateRequestPrice of amount / rate: the fee in hundredths of 1 / rate.
EvaluateFee(amount, rate) ==
    IF feeSetting.calculationType = "PERCENTAGE"
      THEN amount * feeSetting.value
      ELSE 100 * rate * feeSetting.value

\* Mutant: the celebrity gets the whole amount, fee or not.
WholeShare(amount, rate) == 100 * amount

\* celebrityBalance: what the fee leaves, less than nothing when a fixed fee is
\* more than there is.
EvaluateShare(amount, rate) == 100 * amount - EvaluateFee(amount, rate)

\* The amount of the payment is converted to the base currency at the rate of now,
\* active or not, and the fee is the one of now.  A rate of 0 makes the amounts
\* infinite, which the database refuses.
ReleaseAtSetting(r) ==
    LET rate == RateOf(request[r].paidIn) IN
    /\ Held(r)
    /\ request[r].paidIn = "NGN" => exchangeRate # NoRow
    /\ feeSetting # NoRow
    /\ rate > 0
    /\ PayOut(r, EvaluateShare(request[r].paid, rate),
              EvaluateFee(request[r].paid, rate), 100 * rate, rate)

\* The fee or the rate cannot be read, because it is not there or a query fails:
\* a tenth of the price, and not of what was paid, is taken for the fee.
ReleaseAtDefault(r) ==
    /\ Held(r)
    /\ PayOut(r, 90 * request[r].price, 10 * request[r].price, 100, 0)

Next ==
    \/ \E c \in Celebrity, p \in Price : SetPrice(c, p)
    \/ \E rate \in Rate :
          \/ CreateExchangeRate(rate)
          \/ \E isActive \in BOOLEAN : UpdateExchangeRate(rate, isActive)
    \/ \E r \in Request :
          \/ \E currency \in Currency : \/ ShowPaymentInfo(r, currency)
                                        \/ FetchRequestDependencies(r, currency)
          \/ CreateRequest(r)
          \/ FailCreate(r)
          \/ \E paid \in Reported, paidIn \in Currency : RecordPayment(r, paid, paidIn)
          \/ ReleaseAtSetting(r)
          \/ ReleaseAtDefault(r)

Spec == Init /\ [][Next]_vars
-----------------------------------------------------------------------------
(* Properties *)

PaidOut(r) == earnings[r] # NoRow

\* Rounded apart, the two parts of a payout still add up to what was paid out, to
\* within a cent: the amount of the payment at the rate of the release, or the
\* price when the release fell back on it (backgroundjobs.service.ts:470-498).
PartsAddUp(r) ==
    LET total == earnings[r].amount + earnings[r].vybraaFee
        at == request[r].settledAt
    IN IF at = 0
         THEN total \in request[r].price - 1 .. request[r].price + 1
         ELSE total * at \in request[r].paid - at .. request[r].paid + at

PayoutsAddUp == \A r \in Request : PaidOut(r) => PartsAddUp(r)

\* The provider reports no less than the request was to cost, in its currency.
PaidInFull(r) ==
    request[r].paidIn = request[r].currency /\ request[r].paid >= request[r].amount

\* The fan pays at the rate of the day of the request and the celebrity is paid at
\* the rate of the day of the release.  What the two parts are worth may be below the
\* price she asked, by more than a cent, for two reasons only: the provider reported
\* less than was charged, which nothing in the code looks at, or the rate rose in
\* between (request.service.ts:360, vybraa-config.service.ts:79).
PriceIsCovered ==
    \A r \in Request :
        PaidOut(r) /\ earnings[r].amount + earnings[r].vybraaFee < request[r].price - 1 =>
            ~PaidInFull(r) \/ request[r].settledAt > request[r].rate

\* A celebrity owes money only after a payout that a fixed fee was more than
\* (vybraa-config.service.ts:48-55): shares of a percentage and of the default fee
\* never take from her wallet.
DebtIsFixedFee ==
    \A c \in Celebrity :
        walletBalance[c] < 0 =>
            \E r \in Request :
                /\ CelebrityOf[r] = c
                /\ PaidOut(r)
                /\ feeSetting # NoRow
                /\ feeSetting.calculationType = "FIXED"
                /\ feeSetting.value * request[r].settledAt > request[r].paid

\* A payout written in this step that concerns the wallet of u.
PaidNow(u, r) == earnings'[r] # earnings[r] /\ u \in {CelebrityOf[r], SuperAdmin}

\* A wallet changes by what a new row of the earnings history says, in the step that
\* writes the row, and never otherwise.  Below zero, and only there, the sum may be
\* rounded otherwise than the increment, and wallet and history part by a cent
\* (backgroundjobs.service.ts:510-567).
BalancesFollowEarnings ==
    [][\A u \in WalletOwner :
          LET moved == walletBalance'[u] - walletBalance[u] IN
          IF \A r \in Request : ~PaidNow(u, r)
            THEN moved = 0
            ELSE \E r \in Request :
                    LET due == IF u = SuperAdmin THEN earnings'[r].vybraaFee
                                                 ELSE earnings'[r].amount
                    IN /\ PaidNow(u, r)
                       /\ \/ moved = due
                          \/ /\ walletBalance[u] < 0 \/ due < 0
                             /\ moved \in due - 1 .. due + 1]_vars

\* What the fan was shown is what he is charged when neither the price nor the rate
\* changed on the way: two computations in two places (request.service.ts:340, 610).
QuoteIsCharged ==
    [][\A r \in Request :
          LET q == quote[r]
              row == request'[r]
          IN request[r] = NoRow /\ row # NoRow /\ q # NoRow =>
               (q.price = row.price /\ q.currency = row.currency /\ q.rate = row.rate
                   => q.total = row.amount)]_vars
=============================================================================
