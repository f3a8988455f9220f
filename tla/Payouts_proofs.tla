--------------------------- MODULE Payouts_proofs ---------------------------
(***************************************************************************)
(* Theorems about Payouts, for any requests, celebrities, prices, rates,    *)
(* service fees and fee settings.                                           *)
(***************************************************************************)
EXTENDS Payouts, TLAPS

-----------------------------------------------------------------------------
(* Division and rounding *)

\* What \div promises, for a divisor that is not a literal.
LEMMA Division ==
    ASSUME NEW a \in Int, NEW b \in Nat \ {0}
    PROVE  /\ a \div b \in Int
           /\ b * (a \div b) <= a
           /\ a < b * (a \div b) + b
BY SMT

\* A multiple of b that is at most a, and by less than b, is the quotient's.
LEMMA Quotient ==
    ASSUME NEW a \in Int, NEW b \in Nat \ {0}, NEW q \in Int,
           b * q <= a, a < b * q + b
    PROVE  a \div b = q
<1> DEFINE p == a \div b
<1>1. p \in Int /\ b * p <= a /\ a < b * p + b
  BY Division
<1>2. ~(p >= q + 1)
  <2>1. SUFFICES ASSUME p >= q + 1 PROVE FALSE
    OBVIOUS
  <2> HIDE DEF p
  <2>2. b * p >= b * (q + 1)
    BY <1>1, <2>1, SMT
  <2> QED
    BY <1>1, <2>2, SMT
<1>3. ~(q >= p + 1)
  <2>1. SUFFICES ASSUME q >= p + 1 PROVE FALSE
    OBVIOUS
  <2> HIDE DEF p
  <2>2. b * q >= b * (p + 1)
    BY <1>1, <2>1, SMT
  <2> QED
    BY <1>1, <2>2, SMT
<1> HIDE DEF p
<1>4. p = q
  BY <1>1, <1>2, <1>3, SMT
<1> QED
  BY <1>4 DEF p

\* Rounding moves an amount by half a cent at most and keeps its sign.
LEMMA RoundNearest ==
    ASSUME NEW n \in Int, NEW d \in Nat \ {0}
    PROVE  /\ Round(n, d) \in Int
           /\ 2 * (d * Round(n, d)) <= 2 * n + d
           /\ 2 * n - d <= 2 * (d * Round(n, d))
           /\ n >= 0 => Round(n, d) >= 0
<1> DEFINE D == 2 * d
           m == IF n >= 0 THEN n ELSE -n
           q == (2 * m + d) \div D
<1>1. D \in Nat \ {0} /\ m \in Nat /\ 2 * m + d \in Int
  BY SMT
<1>2. q \in Int /\ D * q <= 2 * m + d /\ 2 * m + d < D * q + D
  BY <1>1, Division
<1>3. D * q = 2 * (d * q)
  BY <1>2, SMT
<1>4. q >= 0
  <2>1. SUFFICES ASSUME q <= -1 PROVE FALSE
    BY <1>2, SMT
  <2>2. D * q <= -D
    <3> HIDE DEF q, D
    <3> QED BY <1>1, <1>2, <2>1, SMT
  <2> QED
    BY <1>1, <1>2, <2>2, SMT
<1>5. Round(n, d) = IF n >= 0 THEN q ELSE -q
  BY DEF Round
<1>6. CASE n >= 0
  <2> HIDE DEF q
  <2> QED
    BY <1>2, <1>3, <1>4, <1>5, <1>6, SMT
<1>7. CASE n < 0
  <2>1. Round(n, d) = -q /\ m = -n
    BY <1>5, <1>7, SMT
  <2>2. d * Round(n, d) = -(d * q)
    <3> HIDE DEF q, m, D
    <3> QED BY <2>1, <1>2, SMT
  <2> HIDE DEF q
  <2> QED
    BY <1>2, <1>3, <1>7, <2>1, <2>2, SMT
<1> QED
  BY <1>6, <1>7, SMT

\* A positive factor may be cancelled.
LEMMA Cancel ==
    ASSUME NEW x \in Int, NEW y \in Int, NEW d \in Nat \ {0}, d * x <= d * y
    PROVE  x <= y
<1>1. SUFFICES ASSUME x >= y + 1 PROVE FALSE
  BY SMT
<1>2. d * x >= d * (y + 1)
  BY <1>1, SMT
<1> QED
  BY <1>2, SMT

\* Above zero the balance grows by the rounded increment.
LEMMA IncrementExact ==
    ASSUME NEW b \in Nat, NEW n \in Int, NEW d \in Nat \ {0},
           Round(n, d) >= 0
    PROVE  Increment(b, n, d) = b + Round(n, d)
<1> DEFINE D == 2 * d
           R == Round(n, d)
           m == b * d + n
<1>1. D \in Nat \ {0} /\ b * d \in Nat /\ D * b = 2 * (b * d) /\ m \in Int
  BY SMT
<1>2. R \in Int /\ 2 * (d * R) <= 2 * n + d /\ 2 * n - d <= 2 * (d * R)
  BY RoundNearest
<1>3. CASE n >= 0
  <2>1. R = (2 * n + d) \div D
    BY <1>3 DEF Round
  <2>2. D * R <= 2 * n + d /\ 2 * n + d < D * R + D
    <3>1. 2 * n + d \in Int
      OBVIOUS
    <3> HIDE DEF R, D
    <3> QED BY <2>1, <3>1, <1>1, Division
  <2>3. D * (b + R) = D * b + D * R
    <3> HIDE DEF D, R
    <3> QED BY <1>1, <1>2, SMT
  <2>4. D * (b + R) <= 2 * m + d /\ 2 * m + d < D * (b + R) + D
    <3> HIDE DEF R
    <3> QED BY <1>1, <1>2, <2>2, <2>3, SMT
  <2>5. b + R \in Int /\ 2 * m + d \in Int
    <3> HIDE DEF R, m
    <3> QED BY <1>1, <1>2, SMT
  <2>6. (2 * m + d) \div D = b + R
    <3> HIDE DEF R, m, D
    <3> QED BY <1>1, <2>4, <2>5, Quotient
  <2>7. m >= 0
    BY <1>1, <1>3, SMT
  <2> QED
    BY <2>6, <2>7 DEF Increment, Round
<1>4. CASE n < 0
  <2>1. -R >= 0
    <3>1. R = -((2 * (-n) + d) \div D)
      BY <1>4 DEF Round
    <3>2. (2 * (-n) + d) \div D \in Int /\ 2 * (-n) + d < D * ((2 * (-n) + d) \div D) + D
      <4>1. 2 * (-n) + d \in Int
        OBVIOUS
      <4> HIDE DEF D
      <4> QED BY <4>1, <1>1, Division
    <3>3. D * (-R) + D > 0
      BY <3>1, <3>2, <1>4, SMT
    <3>4. SUFFICES ASSUME -R <= -1 PROVE FALSE
      <4> HIDE DEF R
      <4> QED BY <1>2, SMT
    <3>5. D * (-R) <= D * (-1)
      <4> HIDE DEF R, D
      <4> QED BY <1>1, <1>2, <3>4, SMT
    <3> HIDE DEF R, D
    <3> QED BY <1>1, <1>2, <3>3, <3>5, SMT
  <2>2. R = 0
    <3> HIDE DEF R
    <3> QED BY <1>2, <2>1, SMT DEF R
  <2>3. 0 <= 2 * n + d
    <3> HIDE DEF R
    <3> QED BY <1>2, <2>2, SMT
  <2>4. CASE b = 0
    <3>1. m = n
      BY <2>4, SMT
    <3> QED
      BY <3>1, <2>2, <2>4 DEF Increment
  <2>5. CASE b >= 1
    <3>1. b * d >= d
      BY <2>5, SMT
    <3>2. m >= 0
      BY <1>1, <2>3, <3>1, SMT
    <3>3. D * b <= 2 * m + d /\ 2 * m + d < D * b + D
      BY <1>1, <1>4, <2>3, SMT
    <3>4. (2 * m + d) \div D = b
      <4> HIDE DEF m, D
      <4> QED BY <1>1, <3>3, Quotient, SMT
    <3> QED
      BY <3>2, <3>4, <2>2 DEF Increment, Round
  <2> QED
    BY <2>4, <2>5, SMT
<1> QED
  BY <1>3, <1>4, SMT

\* In any case it grows by that to within a cent.
LEMMA IncrementNear ==
    ASSUME NEW b \in Int, NEW n \in Int, NEW d \in Nat \ {0}
    PROVE  /\ Increment(b, n, d) \in Int
           /\ Increment(b, n, d) - b \in Round(n, d) - 1 .. Round(n, d) + 1
<1> DEFINE R == Round(n, d)
           I == Increment(b, n, d)
           m == b * d + n
<1>1. m \in Int /\ b * d = d * b
  BY SMT
<1>2. R \in Int /\ 2 * (d * R) <= 2 * n + d /\ 2 * n - d <= 2 * (d * R)
  BY RoundNearest
<1>3. I \in Int /\ 2 * (d * I) <= 2 * m + d /\ 2 * m - d <= 2 * (d * I)
  <2> HIDE DEF m
  <2>1. I = Round(m, d)
    BY DEF Increment, m
  <2> QED
    BY <1>1, <2>1, RoundNearest
<1> HIDE DEF R, I
<1>4. d * I <= d * (b + R + 1)
  BY <1>1, <1>2, <1>3, SMT
<1>5. d * (b + R - 1) <= d * I
  BY <1>1, <1>2, <1>3, SMT
<1>6. I <= b + R + 1
  BY <1>2, <1>3, <1>4, Cancel
<1>7. b + R - 1 <= I
  BY <1>2, <1>3, <1>5, Cancel
<1> QED
  BY <1>2, <1>3, <1>6, <1>7, SMT DEF R, I

-----------------------------------------------------------------------------
(* What a release writes *)

\* What a release divides among the two, in d-ths of a cent: all there is, and a
\* share below nothing only when a fixed fee is more than that.
Split(r, share, fee, d, rate) ==
    /\ share \in Int /\ fee \in Nat /\ d \in Nat \ {0} /\ rate \in Nat
    /\ rate = 0 => d = 100 /\ share + fee = 100 * request[r].price /\ share >= 0
    /\ rate > 0 => /\ d = 100 * rate
                   /\ share + fee = 100 * request[r].paid
                   /\ share < 0 => /\ feeSetting # NoRow
                                   /\ feeSetting.calculationType = "FIXED"
                                   /\ feeSetting.value * rate > request[r].paid

\* Either release is a payout of such a division.
LEMMA ReleaseIsPayOut ==
    ASSUME TypeOK, NEW r \in Request, ReleaseAtSetting(r) \/ ReleaseAtDefault(r)
    PROVE  \E share, fee, d, rate \in Int :
              PayOut(r, share, fee, d, rate) /\ Split(r, share, fee, d, rate)
<1>1. request[r] \in RequestRow
  BY DEF TypeOK, ReleaseAtSetting, ReleaseAtDefault, Held, Stage
<1>2. CASE ReleaseAtDefault(r)
  <2>1. 90 * request[r].price \in Nat /\ 10 * request[r].price \in Nat
    BY <1>1 DEF RequestRow
  <2>2. Split(r, 90 * request[r].price, 10 * request[r].price, 100, 0)
    BY <1>1, <2>1 DEF Split, RequestRow
  <2>3. PayOut(r, 90 * request[r].price, 10 * request[r].price, 100, 0)
    BY <1>2 DEF ReleaseAtDefault
  <2> QED
    BY <2>1, <2>2, <2>3
<1>3. CASE ReleaseAtSetting(r)
  <2> DEFINE amount == request[r].paid
             rate == RateOf(request[r].paidIn)
             value == feeSetting.value
             fee == EvaluateFee(amount, rate)
             share == EvaluateShare(amount, rate)
  <2>1. amount \in Nat
    BY <1>1 DEF RequestRow
  <2>2. rate \in Nat /\ rate > 0
    BY <1>3 DEF ReleaseAtSetting, RateOf, TypeOK, ExchangeRate
  <2>3. feeSetting \in Setting /\ feeSetting \in FeeSetting /\ feeSetting # NoRow
    BY <1>3, PayoutAssumption DEF ReleaseAtSetting, TypeOK
  <2>4. value \in Nat
    BY <2>3 DEF Setting
  <2>5. PayOut(r, share, fee, 100 * rate, rate)
    BY <1>3 DEF ReleaseAtSetting
  <2>6. share = 100 * amount - fee
    BY DEF EvaluateShare
  <2>7. CASE feeSetting.calculationType = "PERCENTAGE"
    <3>1. fee = amount * value
      BY <2>7 DEF EvaluateFee
    <3>2. value <= 100
      BY <2>3, <2>7, PayoutAssumption
    <3> HIDE DEF amount, value, fee, share, rate
    <3>3. fee \in Nat /\ fee <= amount * 100
      BY <2>1, <2>4, <3>1, <3>2, SMT
    <3>4. share \in Int /\ share >= 0 /\ share + fee = 100 * amount
      BY <2>1, <2>6, <3>3, SMT
    <3>5. 100 * rate \in Nat \ {0}
      BY <2>2, SMT
    <3>6. Split(r, share, fee, 100 * rate, rate)
      BY <2>2, <3>3, <3>4, <3>5 DEF Split, amount
    <3> QED
      BY <2>2, <2>5, <3>3, <3>4, <3>5, <3>6
  <2>8. CASE feeSetting.calculationType = "FIXED"
    <3>1. fee = 100 * rate * value
      BY <2>8 DEF EvaluateFee
    <3> HIDE DEF amount, value, fee, share, rate
    <3>2. fee = 100 * (value * rate) /\ fee \in Nat
      BY <2>2, <2>4, <3>1, SMT
    <3>3. share \in Int /\ share + fee = 100 * amount
      BY <2>1, <2>6, <3>2, SMT
    <3>4. share < 0 => value * rate > amount
      BY <2>1, <2>2, <2>4, <3>2, <3>3, SMT
    <3>5. 100 * rate \in Nat \ {0}
      BY <2>2, SMT
    <3>6. Split(r, share, fee, 100 * rate, rate)
      BY <2>2, <2>3, <2>8, <3>2, <3>3, <3>4, <3>5 DEF Split, amount, value
    <3> QED
      BY <2>2, <2>5, <3>2, <3>3, <3>5, <3>6
  <2> QED
    BY <2>3, <2>7, <2>8 DEF Setting
<1> QED
  BY <1>2, <1>3

\* The rows a payout leaves behind.
LEMMA PayOutEffect ==
    ASSUME TypeOK, NEW r \in Request, NEW share \in Int, NEW fee \in Int,
           NEW d \in Nat \ {0}, NEW rate \in Nat,
           PayOut(r, share, fee, d, rate)
    PROVE  /\ request[r] \in RequestRow /\ request[r].stage = "held"
           /\ request' \in [Request -> RequestRow \cup {NoRow}]
           /\ request'[r] \in RequestRow
           /\ request'[r].stage = "released" /\ request'[r].settledAt = rate
           /\ request'[r].price = request[r].price
           /\ request'[r].currency = request[r].currency
           /\ request'[r].amount = request[r].amount
           /\ request'[r].rate = request[r].rate
           /\ request'[r].paid = request[r].paid
           /\ request'[r].paidIn = request[r].paidIn
           /\ \A s \in Request \ {r} : request'[s] = request[s]
           /\ earnings' \in [Request -> [amount: Int, vybraaFee: Int] \cup {NoRow}]
           /\ earnings'[r] = [amount |-> Round(share, d), vybraaFee |-> Round(fee, d)]
           /\ earnings'[r] # NoRow
           /\ \A s \in Request \ {r} : earnings'[s] = earnings[s]
           /\ walletBalance' \in [WalletOwner -> Int]
           /\ CelebrityOf[r] \in Celebrity
           /\ walletBalance'[CelebrityOf[r]] =
                 Increment(walletBalance[CelebrityOf[r]], share, d)
           /\ walletBalance'[SuperAdmin] = Increment(walletBalance[SuperAdmin], fee, d)
           /\ \A u \in WalletOwner \ {CelebrityOf[r], SuperAdmin} :
                 walletBalance'[u] = walletBalance[u]
<1> DEFINE c == CelebrityOf[r]
<1>1. request[r] \in RequestRow /\ request[r].stage = "held"
  BY DEF PayOut, Held, Stage, TypeOK
<1>2. c \in Celebrity /\ c # SuperAdmin /\ c \in WalletOwner /\ SuperAdmin \in WalletOwner
  BY PayoutAssumption DEF WalletOwner
<1>3. walletBalance[c] \in Int /\ walletBalance[SuperAdmin] \in Int
  BY <1>2 DEF TypeOK
<1>4. /\ Increment(walletBalance[c], share, d) \in Int
      /\ Increment(walletBalance[SuperAdmin], fee, d) \in Int
  BY <1>3, IncrementNear
<1>5. Round(share, d) \in Int /\ Round(fee, d) \in Int
  BY RoundNearest
<1>6. request' = [request EXCEPT ![r] =
                    [@ EXCEPT !.stage = "released", !.settledAt = rate]]
  BY DEF PayOut, TypeOK
<1>7. [request[r] EXCEPT !.stage = "released", !.settledAt = rate] \in RequestRow
  BY <1>1 DEF RequestRow
<1>8. /\ request' \in [Request -> RequestRow \cup {NoRow}]
      /\ request'[r] = [request[r] EXCEPT !.stage = "released", !.settledAt = rate]
      /\ \A s \in Request \ {r} : request'[s] = request[s]
  BY <1>6, <1>7 DEF TypeOK
<1>9. /\ earnings' \in [Request -> [amount: Int, vybraaFee: Int] \cup {NoRow}]
      /\ earnings'[r] = [amount |-> Round(share, d), vybraaFee |-> Round(fee, d)]
      /\ earnings'[r] # NoRow
      /\ \A s \in Request \ {r} : earnings'[s] = earnings[s]
  <2> DEFINE row == [amount |-> Round(share, d), vybraaFee |-> Round(fee, d)]
  <2>1. row \in [amount: Int, vybraaFee: Int] /\ row # NoRow
    BY <1>5, PayoutAssumption
  <2>2. earnings' = [earnings EXCEPT ![r] = row]
    BY DEF PayOut
  <2> HIDE DEF row
  <2>3. /\ earnings' \in [Request -> [amount: Int, vybraaFee: Int] \cup {NoRow}]
        /\ earnings'[r] = row
        /\ \A s \in Request \ {r} : earnings'[s] = earnings[s]
    BY <2>1, <2>2 DEF TypeOK
  <2> QED
    BY <2>1, <2>3 DEF row
<1>10. /\ walletBalance' \in [WalletOwner -> Int]
       /\ walletBalance'[c] = Increment(walletBalance[c], share, d)
       /\ walletBalance'[SuperAdmin] = Increment(walletBalance[SuperAdmin], fee, d)
       /\ \A u \in WalletOwner \ {c, SuperAdmin} : walletBalance'[u] = walletBalance[u]
  <2> DEFINE x == Increment(walletBalance[c], share, d)
             y == Increment(walletBalance[SuperAdmin], fee, d)
  <2>1. walletBalance' = [walletBalance EXCEPT ![c] = x, ![SuperAdmin] = y]
    BY <1>2 DEF PayOut, TypeOK
  <2> HIDE DEF x, y
  <2>2. /\ walletBalance' \in [WalletOwner -> Int]
        /\ walletBalance'[c] = x
        /\ walletBalance'[SuperAdmin] = y
        /\ \A u \in WalletOwner \ {c, SuperAdmin} : walletBalance'[u] = walletBalance[u]
    <3>1. x \in Int /\ y \in Int
      BY <1>4 DEF x, y
    <3> HIDE DEF c
    <3> QED BY <1>2, <2>1, <3>1 DEF TypeOK
  <2> QED
    BY <2>2 DEF x, y
<1>11. LET row == [request[r] EXCEPT !.stage = "released", !.settledAt = rate]
       IN /\ row.stage = "released" /\ row.settledAt = rate
          /\ row.price = request[r].price /\ row.currency = request[r].currency
          /\ row.amount = request[r].amount /\ row.rate = request[r].rate
          /\ row.paid = request[r].paid /\ row.paidIn = request[r].paidIn
  BY <1>1 DEF RequestRow
<1> QED
  BY <1>1, <1>2, <1>7, <1>8, <1>9, <1>10, <1>11

-----------------------------------------------------------------------------
(* Types *)

\* A currency in which a fan can be charged has a rate.
LEMMA ChargeRate ==
    ASSUME TypeOK, NEW currency \in Currency, CanCharge(currency)
    PROVE  RateOf(currency) \in Nat
BY DEF TypeOK, ExchangeRate, CanCharge, RateOf

\* The row a request is created with.
LEMMA CreateEffect ==
    ASSUME TypeOK, NEW r \in Request, CreateRequest(r)
    PROVE  /\ request' \in [Request -> RequestRow \cup {NoRow}]
           /\ request'[r] \in RequestRow
           /\ request'[r].stage = "created"
           /\ request'[r].price = creating[r].price
           /\ request'[r].currency = creating[r].currency
           /\ request'[r].rate = RateOf(creating[r].currency)
           /\ request'[r].amount =
                 request'[r].price * request'[r].rate + ServiceFee[request'[r].currency]
           /\ \A s \in Request \ {r} : request'[s] = request[s]
<1> DEFINE call == creating[r]
           amount == PaymentAmount(call.price, call.currency)
           row == [stage |-> "created", price |-> call.price,
                   currency |-> call.currency, amount |-> amount,
                   rate |-> RateOf(call.currency),
                   paid |-> 0, paidIn |-> call.currency, settledAt |-> 0]
<1>1. call \in [price: Nat, currency: Currency]
  BY DEF CreateRequest, TypeOK
<1>2. RateOf(call.currency) \in Nat
  BY <1>1, ChargeRate DEF CreateRequest
<1>3. amount = call.price * RateOf(call.currency) + ServiceFee[call.currency]
  BY DEF PaymentAmount, HandleCurrencyConversion
<1>4. ServiceFee[call.currency] \in Nat
  BY <1>1, PayoutAssumption
<1>5. amount \in Nat
  BY <1>1, <1>2, <1>3, <1>4
<1>6. row \in RequestRow
  BY <1>1, <1>2, <1>5 DEF RequestRow
<1>7. request' = [request EXCEPT ![r] = row]
  BY DEF CreateRequest
<1>8. request'[r] = row /\ request' \in [Request -> RequestRow \cup {NoRow}]
      /\ \A s \in Request \ {r} : request'[s] = request[s]
  <2> HIDE DEF row
  <2> QED BY <1>6, <1>7 DEF TypeOK
<1> QED
  BY <1>3, <1>6, <1>8

\* The report of a provider is recorded.
Recorded(r) == \E paid \in Reported, paidIn \in Currency : RecordPayment(r, paid, paidIn)

\* A recorded payment is held, and nothing else of its row changes.
LEMMA RecordEffect ==
    ASSUME TypeOK, NEW r \in Request, Recorded(r)
    PROVE  /\ request[r] \in RequestRow /\ request[r].stage = "created"
           /\ request' \in [Request -> RequestRow \cup {NoRow}]
           /\ request'[r] \in RequestRow
           /\ request'[r].stage = "held"
           /\ request'[r].price = request[r].price
           /\ request'[r].currency = request[r].currency
           /\ request'[r].amount = request[r].amount
           /\ request'[r].rate = request[r].rate
           /\ \A s \in Request \ {r} : request'[s] = request[s]
           /\ UNCHANGED <<requestPrice, exchangeRate, feeSetting, quote, creating,
                          walletBalance, earnings>>
<1>1. PICK paid \in Reported, paidIn \in Currency : RecordPayment(r, paid, paidIn)
  BY DEF Recorded
<1>2. request[r] \in RequestRow /\ request[r].stage = "created"
  BY <1>1 DEF RecordPayment, Stage, TypeOK
<1> DEFINE row == [request[r] EXCEPT !.stage = "held", !.paid = paid, !.paidIn = paidIn]
<1>3. /\ row \in RequestRow /\ row.stage = "held"
      /\ row.price = request[r].price /\ row.currency = request[r].currency
      /\ row.amount = request[r].amount /\ row.rate = request[r].rate
  <2>1. paid \in Nat
    BY PayoutAssumption
  <2> QED
    BY <1>2, <2>1 DEF RequestRow
<1>4. request' = [request EXCEPT ![r] = row]
  BY <1>1 DEF RecordPayment, TypeOK
<1> HIDE DEF row
<1>5. /\ request'[r] = row
      /\ request' \in [Request -> RequestRow \cup {NoRow}]
      /\ \A s \in Request \ {r} : request'[s] = request[s]
  BY <1>3, <1>4 DEF TypeOK
<1> QED
  BY <1>1, <1>2, <1>3, <1>5 DEF RecordPayment

\* Only the creation of a request, its payment and its release touch its row; only
\* its release touches wallets and earnings.
LEMMA StepKinds ==
    ASSUME TypeOK, [Next]_vars
    PROVE  \/ UNCHANGED <<request, walletBalance, earnings, feeSetting>>
           \/ \E r \in Request : \/ CreateRequest(r)
                                 \/ Recorded(r)
                                 \/ ReleaseAtSetting(r) \/ ReleaseAtDefault(r)
BY DEF Next, vars, SetPrice, CreateExchangeRate, UpdateExchangeRate, ShowPaymentInfo,
       FetchRequestDependencies, FailCreate, Recorded

\* A release changes nothing but the request, the wallets and the earnings.
LEMMA ReleaseFrame ==
    ASSUME NEW r \in Request, ReleaseAtSetting(r) \/ ReleaseAtDefault(r)
    PROVE  UNCHANGED <<requestPrice, exchangeRate, feeSetting, quote, creating>>
BY DEF ReleaseAtSetting, ReleaseAtDefault, PayOut

LEMMA TypeInit == Init => TypeOK
BY PayoutAssumption DEF Init, TypeOK

LEMMA TypeStep == TypeOK /\ [Next]_vars => TypeOK'
<1> SUFFICES ASSUME TypeOK, [Next]_vars PROVE TypeOK'
  OBVIOUS
<1>1. CASE UNCHANGED vars
  BY <1>1 DEF vars, TypeOK
<1>2. ASSUME NEW c \in Celebrity, NEW p \in Price, SetPrice(c, p)
      PROVE  TypeOK'
  BY <1>2, PayoutAssumption DEF SetPrice, TypeOK
<1>3. ASSUME NEW rate \in Rate, CreateExchangeRate(rate)
      PROVE  TypeOK'
  BY <1>3, PayoutAssumption DEF CreateExchangeRate, TypeOK, ExchangeRate
<1>4. ASSUME NEW rate \in Rate, NEW isActive \in BOOLEAN,
             UpdateExchangeRate(rate, isActive)
      PROVE  TypeOK'
  BY <1>4, PayoutAssumption DEF UpdateExchangeRate, TypeOK, ExchangeRate
<1>5. ASSUME NEW r \in Request, NEW currency \in Currency,
             ShowPaymentInfo(r, currency)
      PROVE  TypeOK'
  <2> DEFINE price == requestPrice[CelebrityOf[r]]
             total == HandleCurrencyConversion(price, currency) + ServiceFee[currency]
             q == [price |-> price, currency |-> currency,
                   rate |-> RateOf(currency), total |-> total]
  <2>1. price \in Nat
    BY PayoutAssumption DEF TypeOK
  <2>2. RateOf(currency) \in Nat
    BY <1>5, ChargeRate DEF ShowPaymentInfo
  <2>3. total \in Nat
    BY <2>1, <2>2, PayoutAssumption DEF HandleCurrencyConversion
  <2>4. quote' = [quote EXCEPT ![r] = q]
    BY <1>5 DEF ShowPaymentInfo
  <2> HIDE DEF price, total
  <2>5. q \in [price: Nat, currency: Currency, rate: Nat, total: Nat]
    BY <2>1, <2>2, <2>3
  <2> QED
    BY <1>5, <2>4, <2>5 DEF ShowPaymentInfo, TypeOK
<1>6. ASSUME NEW r \in Request, NEW currency \in Currency,
             FetchRequestDependencies(r, currency)
      PROVE  TypeOK'
  BY <1>6, PayoutAssumption DEF FetchRequestDependencies, TypeOK
<1>7. ASSUME NEW r \in Request, CreateRequest(r)
      PROVE  TypeOK'
  <2>1. request' \in [Request -> RequestRow \cup {NoRow}]
    BY <1>7, CreateEffect
  <2> QED
    BY <1>7, <2>1 DEF CreateRequest, TypeOK
<1>8. ASSUME NEW r \in Request, FailCreate(r)
      PROVE  TypeOK'
  BY <1>8 DEF FailCreate, TypeOK
<1>9. ASSUME NEW r \in Request, Recorded(r)
      PROVE  TypeOK'
  BY <1>9, RecordEffect DEF TypeOK
<1>10. ASSUME NEW r \in Request, ReleaseAtSetting(r) \/ ReleaseAtDefault(r)
       PROVE  TypeOK'
  <2>1. PICK share, fee, d, rate \in Int :
           PayOut(r, share, fee, d, rate) /\ Split(r, share, fee, d, rate)
    BY <1>10, ReleaseIsPayOut
  <2>2. share \in Int /\ fee \in Int /\ d \in Nat \ {0} /\ rate \in Nat
    BY <2>1 DEF Split
  <2>3. /\ request' \in [Request -> RequestRow \cup {NoRow}]
        /\ earnings' \in [Request -> [amount: Int, vybraaFee: Int] \cup {NoRow}]
        /\ walletBalance' \in [WalletOwner -> Int]
    BY <2>1, <2>2, PayOutEffect
  <2> QED
    BY <1>10, <2>3, ReleaseFrame DEF TypeOK
<1> QED
  BY <1>1, <1>2, <1>3, <1>4, <1>5, <1>6, <1>7, <1>8, <1>9, <1>10 DEF Next, Recorded

\* Every reachable state has the declared types: amounts stay whole cents, and the
\* balances of celebrities are integers that may be below zero.
THEOREM TypeCorrect == Spec => []TypeOK
BY TypeInit, TypeStep, PTL DEF Spec

-----------------------------------------------------------------------------
(* The books: what the row of a request says of its payout, and a balance of  *)
(* its payouts                                                               *)

\* The payout of r was more than a fixed fee left of it.
FixedFeeExceeds(r) ==
    /\ feeSetting # NoRow
    /\ feeSetting.calculationType = "FIXED"
    /\ feeSetting.value * request[r].settledAt > request[r].paid

\* A request that is being created is not there yet; one that is there was charged
\* its price at its rate; one that is released, and no other, has an earnings row,
\* whose parts add up and are below nothing only for a fixed fee.
Sound(r) ==
    /\ creating[r] # NoRow => request[r] = NoRow
    /\ request[r] # NoRow =>
          request[r].amount =
             request[r].price * request[r].rate + ServiceFee[request[r].currency]
    /\ PaidOut(r) <=> Stage(r) = "released"
    /\ PaidOut(r) => PartsAddUp(r)
    /\ PaidOut(r) /\ earnings[r].amount < 0 => FixedFeeExceeds(r)

\* A wallet below zero has had a payout below zero.
Solvent(c) ==
    walletBalance[c] < 0 =>
        \E r \in Request : CelebrityOf[r] = c /\ PaidOut(r) /\ earnings[r].amount < 0

Books == TypeOK /\ (\A r \in Request : Sound(r)) /\ (\A c \in Celebrity : Solvent(c))

\* The two parts of a payout add up.
LEMMA SplitAddsUp ==
    ASSUME TypeOK, NEW r \in Request, NEW share \in Int, NEW fee \in Int, NEW d \in Int,
           NEW rate \in Int, request[r] \in RequestRow, Split(r, share, fee, d, rate)
    PROVE  LET total == Round(share, d) + Round(fee, d)
           IN  IF rate = 0
                 THEN total \in request[r].price - 1 .. request[r].price + 1
                 ELSE total * rate \in request[r].paid - rate .. request[r].paid + rate
<1> DEFINE S1 == Round(share, d)
           F1 == Round(fee, d)
           amount == request[r].paid
           price == request[r].price
<1>1. amount \in Nat /\ price \in Nat
  BY DEF RequestRow
<1>2. d \in Nat \ {0} /\ rate \in Nat
  BY DEF Split
<1>3. /\ S1 \in Int /\ 2 * (d * S1) <= 2 * share + d /\ 2 * share - d <= 2 * (d * S1)
      /\ F1 \in Int /\ 2 * (d * F1) <= 2 * fee + d /\ 2 * fee - d <= 2 * (d * F1)
  BY <1>2, RoundNearest
<1>4. CASE rate = 0
  <2>1. d = 100 /\ share + fee = 100 * price
    BY <1>4 DEF Split
  <2> HIDE DEF S1, F1, price
  <2>2. S1 + F1 \in price - 1 .. price + 1
    BY <1>1, <1>3, <2>1, SMT
  <2> QED
    BY <2>2, <1>4 DEF S1, F1, price
<1>5. CASE rate # 0
  <2>1. d = 100 * rate /\ share + fee = 100 * amount
    BY <1>2, <1>5 DEF Split
  <2> HIDE DEF S1, F1, amount
  <2>2. d * (S1 + F1) <= 100 * amount + d /\ 100 * amount - d <= d * (S1 + F1)
    BY <1>1, <1>2, <1>3, <2>1, SMT
  <2>3. d * (S1 + F1) = 100 * ((S1 + F1) * rate)
    BY <1>2, <1>3, <2>1, SMT
  <2>4. (S1 + F1) * rate \in amount - rate .. amount + rate
    <3>1. (S1 + F1) * rate \in Int
      BY <1>2, <1>3, SMT
    <3> QED BY <1>1, <1>2, <2>1, <2>2, <2>3, <3>1, SMT
  <2> QED
    BY <2>4, <1>5 DEF S1, F1, amount
<1> QED
  BY <1>4, <1>5

LEMMA BooksInit == Init => Books
<1> SUFFICES ASSUME Init PROVE Books
  OBVIOUS
<1>1. TypeOK
  BY TypeInit
<1>2. ASSUME NEW r \in Request PROVE Sound(r)
  BY <1>2 DEF Init, Sound, PaidOut, Stage
<1>3. ASSUME NEW c \in Celebrity PROVE Solvent(c)
  BY <1>3 DEF Init, Solvent, WalletOwner
<1> QED
  BY <1>1, <1>2, <1>3 DEF Books

\* What a release leaves in the books of its request.
LEMMA ReleaseIsSound ==
    ASSUME Books, NEW r \in Request, ReleaseAtSetting(r) \/ ReleaseAtDefault(r)
    PROVE  Sound(r)'
<1>1. TypeOK /\ Sound(r)
  BY DEF Books
<1>2. PICK share, fee, d, rate \in Int :
         PayOut(r, share, fee, d, rate) /\ Split(r, share, fee, d, rate)
  BY <1>1, ReleaseIsPayOut
<1>3. d \in Nat \ {0} /\ rate \in Nat
  BY <1>2 DEF Split
<1>4. /\ request[r] \in RequestRow
      /\ request'[r] \in RequestRow
      /\ request'[r].stage = "released" /\ request'[r].settledAt = rate
      /\ request'[r].price = request[r].price
      /\ request'[r].currency = request[r].currency
      /\ request'[r].amount = request[r].amount
      /\ request'[r].rate = request[r].rate
      /\ request'[r].paid = request[r].paid
      /\ earnings'[r] = [amount |-> Round(share, d), vybraaFee |-> Round(fee, d)]
      /\ earnings'[r] # NoRow
  BY <1>1, <1>2, <1>3, PayOutEffect
<1>5. request[r] # NoRow /\ request'[r] # NoRow
  BY <1>4, PayoutAssumption
<1>6. creating[r] = NoRow /\ creating'[r] = NoRow /\ feeSetting' = feeSetting
  BY <1>1, <1>5, ReleaseFrame DEF Sound
<1>7. PartsAddUp(r)'
  BY <1>1, <1>2, <1>4, SplitAddsUp DEF PartsAddUp
<1>8. earnings'[r].amount < 0 => FixedFeeExceeds(r)'
  <2>1. SUFFICES ASSUME Round(share, d) < 0 PROVE FixedFeeExceeds(r)'
    BY <1>4
  <2>2. share < 0
    <3>1. share >= 0 => Round(share, d) >= 0
      BY <1>3, RoundNearest
    <3>2. Round(share, d) \in Int
      BY <1>3, RoundNearest
    <3> QED
      BY <2>1, <3>1, <3>2, SMT
  <2>3. rate > 0
    BY <1>2, <1>3, <2>2 DEF Split
  <2> QED
    BY <1>2, <1>4, <1>6, <2>2, <2>3 DEF Split, FixedFeeExceeds
<1>9. /\ request[r].amount =
           request[r].price * request[r].rate + ServiceFee[request[r].currency]
  BY <1>1, <1>5 DEF Sound
<1> QED
  BY <1>4, <1>5, <1>6, <1>7, <1>8, <1>9 DEF Sound, PaidOut, Stage

\* The wallet the release credits, and the others.
LEMMA ReleaseIsSolvent ==
    ASSUME Books, NEW r \in Request, ReleaseAtSetting(r) \/ ReleaseAtDefault(r),
           NEW c \in Celebrity
    PROVE  Solvent(c)'
<1>1. TypeOK /\ Sound(r) /\ Solvent(c)
  BY DEF Books
<1>2. PICK share, fee, d, rate \in Int :
         PayOut(r, share, fee, d, rate) /\ Split(r, share, fee, d, rate)
  BY <1>1, ReleaseIsPayOut
<1>3. d \in Nat \ {0} /\ rate \in Nat
  BY <1>2 DEF Split
<1>4. /\ request[r] \in RequestRow /\ request[r].stage = "held"
      /\ earnings'[r] = [amount |-> Round(share, d), vybraaFee |-> Round(fee, d)]
      /\ earnings'[r] # NoRow
      /\ \A s \in Request \ {r} : earnings'[s] = earnings[s]
      /\ walletBalance' \in [WalletOwner -> Int]
      /\ walletBalance'[CelebrityOf[r]] =
            Increment(walletBalance[CelebrityOf[r]], share, d)
      /\ \A u \in WalletOwner \ {CelebrityOf[r], SuperAdmin} :
            walletBalance'[u] = walletBalance[u]
  BY <1>1, <1>2, <1>3, PayOutEffect
<1>5. earnings[r] = NoRow
  BY <1>1, <1>4, PayoutAssumption DEF Sound, PaidOut, Stage
<1>6. SUFFICES ASSUME walletBalance'[c] < 0
               PROVE  \E s \in Request : /\ CelebrityOf[s] = c
                                         /\ earnings'[s] # NoRow
                                         /\ earnings'[s].amount < 0
  BY DEF Solvent, PaidOut
<1>7. c \in WalletOwner /\ c # SuperAdmin /\ walletBalance[c] \in Int
  BY <1>1, PayoutAssumption DEF WalletOwner, TypeOK
<1>8. CASE walletBalance[c] < 0
  <2>1. PICK s \in Request : CelebrityOf[s] = c /\ PaidOut(s) /\ earnings[s].amount < 0
    BY <1>1, <1>8 DEF Solvent
  <2>2. s # r
    BY <1>5, <2>1 DEF PaidOut
  <2> QED
    BY <1>4, <2>1, <2>2 DEF PaidOut
<1>9. CASE walletBalance[c] >= 0
  <2>1. c = CelebrityOf[r]
    BY <1>4, <1>6, <1>7, <1>9
  <2>2. walletBalance[c] \in Nat
    BY <1>7, <1>9
  <2>3. Round(share, d) < 0
    <3>1. Round(share, d) \in Int
      BY <1>3, RoundNearest
    <3>2. SUFFICES ASSUME Round(share, d) >= 0 PROVE FALSE
      BY <3>1, SMT
    <3>3. walletBalance'[c] = walletBalance[c] + Round(share, d)
      BY <1>3, <1>4, <2>1, <2>2, <3>2, IncrementExact
    <3> QED
      BY <1>6, <2>2, <3>1, <3>2, <3>3, SMT
  <2> QED
    BY <1>4, <2>1, <2>3
<1> QED
  BY <1>7, <1>8, <1>9

\* Books whose rows a step leaves alone stay as they are.
LEMMA SoundStays ==
    ASSUME NEW r \in Request, Sound(r),
           request'[r] = request[r], earnings'[r] = earnings[r],
           feeSetting' = feeSetting,
           creating'[r] # NoRow => request[r] = NoRow
    PROVE  Sound(r)'
BY DEF Sound, PaidOut, Stage, PartsAddUp, FixedFeeExceeds

LEMMA SolventStays ==
    ASSUME NEW c \in Celebrity, Solvent(c),
           walletBalance' = walletBalance, earnings' = earnings
    PROVE  Solvent(c)'
BY DEF Solvent, PaidOut

\* A call that is creating a request stays one, or was just begun for a request
\* that is not there.
LEMMA CreatingStep ==
    ASSUME Books, [Next]_vars, NEW r \in Request, request'[r] = request[r]
    PROVE  creating'[r] # NoRow => request[r] = NoRow
<1>1. Sound(r) /\ TypeOK
  BY DEF Books
<1>2. CASE UNCHANGED creating
  BY <1>1, <1>2 DEF Sound
<1>3. ASSUME NEW s \in Request, NEW currency \in Currency,
             FetchRequestDependencies(s, currency)
      PROVE  creating'[r] # NoRow => request[r] = NoRow
  BY <1>1, <1>3 DEF FetchRequestDependencies, TypeOK, Sound
<1>4. ASSUME NEW s \in Request, CreateRequest(s) \/ FailCreate(s)
      PROVE  creating'[r] # NoRow => request[r] = NoRow
  BY <1>1, <1>4 DEF CreateRequest, FailCreate, TypeOK, Sound
<1> QED
  BY <1>2, <1>3, <1>4, ReleaseFrame DEF Next, vars, SetPrice, CreateExchangeRate,
     UpdateExchangeRate, ShowPaymentInfo, RecordPayment

LEMMA BooksStep == Books /\ [Next]_vars => Books'
<1> SUFFICES ASSUME Books, [Next]_vars PROVE Books'
  OBVIOUS
<1>1. TypeOK /\ TypeOK'
  BY TypeStep DEF Books
<1>2. CASE UNCHANGED <<request, walletBalance, earnings, feeSetting>>
  <2>1. ASSUME NEW r \in Request PROVE Sound(r)'
    BY <1>2, SoundStays, CreatingStep DEF Books
  <2>2. ASSUME NEW c \in Celebrity PROVE Solvent(c)'
    BY <1>2, SolventStays DEF Books
  <2> QED
    BY <1>1, <2>1, <2>2 DEF Books
<1>3. ASSUME NEW r \in Request, CreateRequest(r)
      PROVE  Books'
  <2>1. UNCHANGED <<walletBalance, earnings, feeSetting>> /\ creating'[r] = NoRow
    BY <1>1, <1>3 DEF CreateRequest, TypeOK
  <2>2. Sound(r)'
    <3>1. earnings[r] = NoRow
      BY <1>3 DEF Books, Sound, CreateRequest, PaidOut, Stage
    <3>2. /\ request'[r].stage = "created"
          /\ request'[r].amount =
                request'[r].price * request'[r].rate + ServiceFee[request'[r].currency]
      BY <1>1, <1>3, CreateEffect
    <3> QED
      BY <2>1, <3>1, <3>2 DEF Sound, PaidOut, Stage
  <2>3. ASSUME NEW s \in Request \ {r} PROVE Sound(s)'
    <3>1. request'[s] = request[s]
      BY <1>1, <1>3, CreateEffect
    <3> QED
      BY <2>1, <3>1, SoundStays, CreatingStep DEF Books
  <2>4. ASSUME NEW c \in Celebrity PROVE Solvent(c)'
    BY <2>1, SolventStays DEF Books
  <2> QED
    BY <1>1, <2>2, <2>3, <2>4 DEF Books
<1>4. ASSUME NEW r \in Request, Recorded(r)
      PROVE  Books'
  <2>1. /\ UNCHANGED <<walletBalance, earnings, feeSetting, creating>>
        /\ request[r] \in RequestRow /\ request[r].stage = "created"
        /\ request'[r] \in RequestRow /\ request'[r].stage = "held"
        /\ request'[r].price = request[r].price
        /\ request'[r].currency = request[r].currency
        /\ request'[r].amount = request[r].amount /\ request'[r].rate = request[r].rate
        /\ \A s \in Request \ {r} : request'[s] = request[s]
    BY <1>1, <1>4, RecordEffect
  <2>2. Sound(r)'
    <3>1. request[r] # NoRow /\ request'[r] # NoRow
      BY <2>1, PayoutAssumption
    <3>2. earnings[r] = NoRow /\ creating[r] = NoRow
      BY <2>1, <3>1 DEF Books, Sound, PaidOut, Stage
    <3> QED
      BY <2>1, <3>1, <3>2 DEF Books, Sound, PaidOut, Stage
  <2>3. ASSUME NEW s \in Request \ {r} PROVE Sound(s)'
    BY <2>1, SoundStays, CreatingStep DEF Books
  <2>4. ASSUME NEW c \in Celebrity PROVE Solvent(c)'
    BY <2>1, SolventStays DEF Books
  <2> QED
    BY <1>1, <2>2, <2>3, <2>4 DEF Books
<1>5. ASSUME NEW r \in Request, ReleaseAtSetting(r) \/ ReleaseAtDefault(r)
      PROVE  Books'
  <2>1. ASSUME NEW s \in Request \ {r} PROVE Sound(s)'
    <3>1. PICK share, fee, d, rate \in Int :
             PayOut(r, share, fee, d, rate) /\ Split(r, share, fee, d, rate)
      BY <1>1, <1>5, ReleaseIsPayOut
    <3>2. PayOut(r, share, fee, d, rate) /\ d \in Nat \ {0} /\ rate \in Nat
      BY <3>1 DEF Split
    <3> HIDE <3>1
    <3>3. /\ \A t \in Request \ {r} : request'[t] = request[t]
          /\ \A t \in Request \ {r} : earnings'[t] = earnings[t]
      BY <1>1, <3>2, PayOutEffect
    <3> QED
      BY <1>5, <3>3, SoundStays, CreatingStep, ReleaseFrame DEF Books
  <2> QED
    BY <1>1, <1>5, <2>1, ReleaseIsSound, ReleaseIsSolvent DEF Books
<1> QED
  BY <1>1, <1>2, <1>3, <1>4, <1>5, StepKinds

LEMMA BooksAlways == Spec => []Books
BY BooksInit, BooksStep, PTL DEF Spec

-----------------------------------------------------------------------------
(* Theorems *)

\* The parts of every payout add up to what was paid out.
THEOREM AddsUp == Spec => []PayoutsAddUp
<1>1. Books => PayoutsAddUp
  BY DEF Books, Sound, PayoutsAddUp
<1> QED
  BY <1>1, BooksAlways, PTL

\* Of a payment reported in full the parts cover the price, unless the rate rose
\* between charge and release: the request was charged its price at a rate that is not
\* below the one that divides, and no less than that was recorded.
THEOREM PriceCovered == Spec => []PriceIsCovered
<1>1. ASSUME Books PROVE PriceIsCovered
  <2>1. SUFFICES ASSUME NEW r \in Request, PaidOut(r), PaidInFull(r),
                        ~(request[r].settledAt > request[r].rate)
                 PROVE  ~(earnings[r].amount + earnings[r].vybraaFee < request[r].price - 1)
    BY DEF PriceIsCovered
  <2> DEFINE total == earnings[r].amount + earnings[r].vybraaFee
             at == request[r].settledAt
             price == request[r].price
             rate == request[r].rate
             amount == request[r].amount
             paid == request[r].paid
  <2>2. TypeOK /\ Sound(r)
    BY <1>1 DEF Books
  <2>3. request[r] # NoRow /\ request[r] \in RequestRow
    BY <2>1, <2>2 DEF Sound, Stage, TypeOK
  <2>4. at \in Nat /\ price \in Nat /\ rate \in Nat /\ amount \in Nat /\ paid \in Nat
    BY <2>3 DEF RequestRow
  <2>5. total \in Int
    BY <2>1, <2>2 DEF TypeOK, PaidOut
  <2>6. PartsAddUp(r)
    BY <2>1, <2>2 DEF Sound
  <2>7. CASE at = 0
    <3>1. total \in price - 1 .. price + 1
      BY <2>6, <2>7 DEF PartsAddUp
    <3> HIDE DEF total, price
    <3>2. total >= price - 1
      BY <2>4, <2>5, <3>1, SMT
    <3> QED BY <2>4, <2>5, <3>2, SMT DEF total, price
  <2>8. CASE at # 0
    <3>1. total * at \in paid - at .. paid + at
      BY <2>6, <2>8 DEF PartsAddUp
    <3>2. ServiceFee[request[r].currency] \in Nat
      BY <2>3, PayoutAssumption DEF RequestRow
    <3>3. amount = price * rate + ServiceFee[request[r].currency]
      BY <2>2, <2>3 DEF Sound
    <3>4. at <= rate /\ amount <= paid
      BY <2>1, <2>4 DEF PaidInFull
    <3> HIDE DEF total, price, at, rate, amount, paid
    <3>5. price * at <= price * rate
      BY <2>4, <3>4, SMT
    <3>6. price * rate <= amount
      BY <2>4, <3>2, <3>3, SMT
    <3>7. at * (price - 1) <= at * total
      <4>1. total * at >= amount - at
        BY <2>4, <2>5, <3>1, <3>4, SMT
      <4> QED BY <2>4, <2>5, <3>5, <3>6, <4>1, SMT
    <3>8. price - 1 <= total
      BY <2>4, <2>5, <2>8, <3>7, Cancel
    <3> QED BY <2>4, <2>5, <3>8, SMT DEF total, price
  <2> QED
    BY <2>7, <2>8
<1> QED
  BY <1>1, BooksAlways, PTL

\* Only fixed fees bring a celebrity into debt.
THEOREM DebtComesFromFixedFees == Spec => []DebtIsFixedFee
<1>1. Books => DebtIsFixedFee
  BY DEF Books, Sound, Solvent, DebtIsFixedFee, FixedFeeExceeds
<1> QED
  BY <1>1, BooksAlways, PTL

\* Balances and earnings move together: a release credits both wallets in the step
\* that writes the row, exactly unless the balance or the part is below zero.
THEOREM BalancesMove == Spec => BalancesFollowEarnings
<1> DEFINE Moved(u) == walletBalance'[u] - walletBalance[u]
           Due(u, r) == IF u = SuperAdmin THEN earnings'[r].vybraaFee
                                          ELSE earnings'[r].amount
           Follows(u) ==
              IF \A r \in Request : ~PaidNow(u, r)
                THEN Moved(u) = 0
                ELSE \E r \in Request :
                        /\ PaidNow(u, r)
                        /\ \/ Moved(u) = Due(u, r)
                           \/ /\ walletBalance[u] < 0 \/ Due(u, r) < 0
                              /\ Moved(u) \in Due(u, r) - 1 .. Due(u, r) + 1
<1>1. ASSUME TypeOK, UNCHANGED <<walletBalance, earnings>>, NEW u \in WalletOwner
      PROVE  Follows(u)
  <2>1. Moved(u) = 0
    BY <1>1 DEF TypeOK
  <2>2. \A r \in Request : ~PaidNow(u, r)
    BY <1>1 DEF PaidNow
  <2> QED
    BY <2>1, <2>2
<1>2. ASSUME Books, NEW r \in Request, ReleaseAtSetting(r) \/ ReleaseAtDefault(r),
             NEW u \in WalletOwner
      PROVE  Follows(u)
  <2>1. TypeOK /\ Sound(r)
    BY <1>2 DEF Books
  <2>2. PICK share, fee, d, rate \in Int :
           PayOut(r, share, fee, d, rate) /\ Split(r, share, fee, d, rate)
    BY <1>2, <2>1, ReleaseIsPayOut
  <2>3. d \in Nat \ {0} /\ rate \in Nat
    BY <2>2 DEF Split
  <2>4. /\ request[r] \in RequestRow /\ request[r].stage = "held"
        /\ earnings'[r] = [amount |-> Round(share, d), vybraaFee |-> Round(fee, d)]
        /\ earnings'[r] # NoRow
        /\ \A s \in Request \ {r} : earnings'[s] = earnings[s]
        /\ walletBalance' \in [WalletOwner -> Int]
        /\ CelebrityOf[r] \in Celebrity
        /\ walletBalance'[CelebrityOf[r]] =
              Increment(walletBalance[CelebrityOf[r]], share, d)
        /\ walletBalance'[SuperAdmin] = Increment(walletBalance[SuperAdmin], fee, d)
        /\ \A v \in WalletOwner \ {CelebrityOf[r], SuperAdmin} :
              walletBalance'[v] = walletBalance[v]
    BY <2>1, <2>2, <2>3, PayOutEffect
  <2>5. earnings[r] = NoRow
    BY <2>1, <2>4, PayoutAssumption DEF Sound, PaidOut, Stage
  <2>6. earnings'[r] # earnings[r]
    BY <2>4, <2>5
  <2>7. walletBalance[u] \in Int
    BY <2>1 DEF TypeOK
  <2>8. SuperAdmin # CelebrityOf[r]
    BY <2>4, PayoutAssumption
  <2>9. ASSUME NEW n \in Int, Due(u, r) = Round(n, d),
               walletBalance'[u] = Increment(walletBalance[u], n, d), PaidNow(u, r)
        PROVE  Follows(u)
    <3> DEFINE b == walletBalance[u]
               due == Due(u, r)
    <3>1. Increment(b, n, d) \in Int /\ Increment(b, n, d) - b \in due - 1 .. due + 1
      BY <2>3, <2>7, <2>9, IncrementNear
    <3>2. due \in Int
      BY <2>3, <2>9, RoundNearest
    <3>3. b >= 0 /\ due >= 0 => Increment(b, n, d) = b + due
      BY <2>3, <2>7, <2>9, IncrementExact
    <3>4. \/ Moved(u) = due
          \/ (b < 0 \/ due < 0) /\ Moved(u) \in due - 1 .. due + 1
      <4> DEFINE i == Increment(b, n, d)
      <4>1. Moved(u) = i - b
        BY <2>9
      <4> HIDE DEF i, due, b
      <4>2. b \in Int
        BY <2>7 DEF b
      <4>3. \/ i - b = due
            \/ (b < 0 \/ due < 0) /\ i - b \in due - 1 .. due + 1
        BY <3>1, <3>2, <3>3, <4>2, SMT DEF i
      <4> QED BY <4>1, <4>3
    <3> QED
      BY <2>9, <3>4
  <2>10. CASE u = SuperAdmin
    <3>1. PaidNow(u, r)
      BY <2>6, <2>10 DEF PaidNow
    <3>2. Due(u, r) = Round(fee, d)
      BY <2>4, <2>10
    <3> QED
      BY <2>4, <2>9, <2>10, <3>1, <3>2
  <2>11. CASE u = CelebrityOf[r]
    <3>1. PaidNow(u, r)
      BY <2>6, <2>11 DEF PaidNow
    <3>2. Due(u, r) = Round(share, d)
      BY <2>4, <2>8, <2>11
    <3> QED
      BY <2>4, <2>9, <2>11, <3>1, <3>2
  <2>12. CASE u \notin {SuperAdmin, CelebrityOf[r]}
    <3>1. Moved(u) = 0
      BY <2>4, <2>7, <2>12
    <3>2. \A s \in Request : ~PaidNow(u, s)
      BY <2>4, <2>12 DEF PaidNow
    <3> QED
      BY <3>1, <3>2
  <2> QED
    BY <2>10, <2>11, <2>12
<1>3. Books /\ [Next]_vars => \A u \in WalletOwner : Follows(u)
  <2> SUFFICES ASSUME Books, [Next]_vars, NEW u \in WalletOwner PROVE Follows(u)
    OBVIOUS
  <2>1. TypeOK
    BY DEF Books
  <2> HIDE DEF Follows
  <2>2. ASSUME NEW r \in Request, CreateRequest(r) \/ Recorded(r) PROVE Follows(u)
    BY <1>1, <2>1, <2>2 DEF CreateRequest, Recorded, RecordPayment
  <2> QED
    BY <1>1, <1>2, <2>1, <2>2, StepKinds
<1>4. Books /\ [Next]_vars => [\A u \in WalletOwner : Follows(u)]_vars
  BY <1>3
<1> QED
  BY <1>4, BooksAlways, PTL DEF Spec, BalancesFollowEarnings

-----------------------------------------------------------------------------
(* Quotes *)

\* What a fan was last shown is its price at its rate, and the service fee.
QuoteAddsUp(r) ==
    quote[r] # NoRow =>
        quote[r].total = quote[r].price * quote[r].rate + ServiceFee[quote[r].currency]

Quotes == TypeOK /\ \A r \in Request : QuoteAddsUp(r)

LEMMA QuotesStep == Quotes /\ [Next]_vars => Quotes'
<1> SUFFICES ASSUME Quotes, [Next]_vars PROVE Quotes'
  OBVIOUS
<1>1. TypeOK /\ TypeOK'
  BY TypeStep DEF Quotes
<1>2. CASE UNCHANGED quote
  BY <1>1, <1>2 DEF Quotes, QuoteAddsUp
<1>3. ASSUME NEW s \in Request, NEW currency \in Currency, ShowPaymentInfo(s, currency)
      PROVE  Quotes'
  <2> DEFINE price == requestPrice[CelebrityOf[s]]
             rate == RateOf(currency)
             total == HandleCurrencyConversion(price, currency) + ServiceFee[currency]
             q == [price |-> price, currency |-> currency, rate |-> rate, total |-> total]
  <2>1. quote' = [quote EXCEPT ![s] = q]
    BY <1>3 DEF ShowPaymentInfo
  <2>2. total = price * rate + ServiceFee[currency]
    BY DEF HandleCurrencyConversion
  <2> HIDE DEF price, rate, total
  <2>3. q.total = q.price * q.rate + ServiceFee[q.currency]
    BY <2>2
  <2> HIDE DEF q
  <2>4. ASSUME NEW r \in Request PROVE QuoteAddsUp(r)'
    BY <1>1, <2>1, <2>3 DEF Quotes, QuoteAddsUp, TypeOK
  <2> QED
    BY <1>1, <2>4 DEF Quotes
<1>4. ASSUME NEW s \in Request, CreateRequest(s) PROVE Quotes'
  <2>1. \A r \in Request : quote'[r] = quote[r] \/ quote'[r] = NoRow
    BY <1>1, <1>4 DEF CreateRequest, TypeOK
  <2> QED
    BY <1>1, <2>1 DEF Quotes, QuoteAddsUp
<1> QED
  BY <1>2, <1>3, <1>4, ReleaseFrame DEF Next, vars, SetPrice, CreateExchangeRate,
     UpdateExchangeRate, FetchRequestDependencies, FailCreate, RecordPayment

LEMMA QuotesAlways == Spec => []Quotes
<1>1. Init => Quotes
  BY TypeInit DEF Init, Quotes, QuoteAddsUp
<1> QED
  BY <1>1, QuotesStep, PTL DEF Spec

\* The charge is computed as the quote was, from a price, a currency and a rate: the
\* same of each give the same amount.
THEOREM ChargedAsQuoted == Spec => QuoteIsCharged
<1> DEFINE AsQuoted(r) ==
              request[r] = NoRow /\ request'[r] # NoRow /\ quote[r] # NoRow =>
                 (quote[r].price = request'[r].price
                  /\ quote[r].currency = request'[r].currency
                  /\ quote[r].rate = request'[r].rate
                    => quote[r].total = request'[r].amount)
<1>1. ASSUME Quotes, [Next]_vars, NEW r \in Request PROVE AsQuoted(r)
  <2>1. TypeOK /\ QuoteAddsUp(r)
    BY <1>1 DEF Quotes
  <2>2. CASE request'[r] = request[r]
    BY <2>2
  <2>3. CASE CreateRequest(r)
    <3>1. request'[r].amount =
             request'[r].price * request'[r].rate + ServiceFee[request'[r].currency]
      BY <2>1, <2>3, CreateEffect
    <3> QED
      BY <2>1, <3>1 DEF QuoteAddsUp
  <2>4. CASE Recorded(r) \/ ReleaseAtSetting(r) \/ ReleaseAtDefault(r)
    BY <2>4, PayoutAssumption DEF Recorded, RecordPayment, ReleaseAtSetting, ReleaseAtDefault,
       PayOut, Held, Stage
  <2>5. ASSUME NEW s \in Request \ {r},
               \/ CreateRequest(s) \/ Recorded(s)
               \/ ReleaseAtSetting(s) \/ ReleaseAtDefault(s)
        PROVE  request'[r] = request[r]
    <3>1. CASE CreateRequest(s)
      BY <2>1, <3>1, CreateEffect
    <3>2. CASE Recorded(s)
      BY <2>1, <3>2, RecordEffect
    <3>3. CASE ReleaseAtSetting(s) \/ ReleaseAtDefault(s)
      BY <2>1, <3>3 DEF ReleaseAtSetting, ReleaseAtDefault, PayOut, TypeOK
    <3> QED
      BY <2>5, <3>1, <3>2, <3>3
  <2> HIDE DEF AsQuoted
  <2>6. CASE UNCHANGED <<request, walletBalance, earnings, feeSetting>>
    BY <2>2, <2>6
  <2>7. ASSUME NEW s \in Request,
               \/ CreateRequest(s) \/ Recorded(s)
               \/ ReleaseAtSetting(s) \/ ReleaseAtDefault(s)
        PROVE  AsQuoted(r)
    BY <2>2, <2>3, <2>4, <2>5, <2>7
  <2> QED
    BY <1>1, <2>1, <2>6, <2>7, StepKinds
<1>2. Quotes /\ [Next]_vars => [\A r \in Request : AsQuoted(r)]_vars
  BY <1>1
<1> QED
  BY <1>2, QuotesAlways, PTL DEF Spec, QuoteIsCharged

=============================================================================
