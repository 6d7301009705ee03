---------------------------- MODULE PaymentOrders ----------------------------
(***************************************************************************)
(* One user's payment orders, balance and plan term                        *)
(* (internal/core/manager_billing.go, manager_payments.go,                 *)
(* manager_wallet*.go, internal/store/wallet.go, billing.go).              *)
(*                                                                         *)
(* An order is opened for a plan or a top-up, collected by a payment       *)
(* provider or by hand, confirmed by whoever hears of the money first (a   *)
(* webhook, the poll, the operator), and may be refunded.  Notifications   *)
(* of the provider come in any order, any number of times and arbitrarily  *)
(* late; the operator, the expiry sweep and the user act in between.       *)
(*                                                                         *)
(* Every plan write holds applyPlanMu and every database write is one      *)
(* transaction, so most handlers are one action.  Those that let go in     *)
(* between are several: opening an invoice at the provider, a refund       *)
(* notification, and taking back the term a refunded order bought.         *)
(*                                                                         *)
(* Amounts are whole units, every plan costs Price for a term of Period    *)
(* ticks of the clock; the user owns one discount code.                    *)
(***************************************************************************)
EXTENDS Integers, FiniteSets, FiniteSetsExt

CONSTANTS
    Orders,         \* payment orders of the user
    Plans,          \* paid plans on sale, all with a term
    Free,           \* the free plan
    Price,          \* what a plan's period costs
    Discount,       \* what the discount code takes off it
    Period,         \* a plan's period
    TopUps,         \* amounts a top-up may have
    RenewAhead,     \* how early the balance renews a term
    RenewGrace,     \* how long after its end it still does
    WalletEnabled,  \* settings.wallet_enabled
    FirstOnly,      \* settings.ref_first_only
    Gifts,          \* bound: what the operator's corrections of the balance add up to
    MaxNow          \* bound: the last tick of the clock

ASSUME PaymentOrdersAssumption ==
    /\ Free \notin Plans
    /\ Price \in Nat /\ Discount \in Nat /\ Discount < Price
    /\ Period \in Nat \ {0}
    /\ TopUps \subseteq Nat \ {0}
    /\ RenewAhead \in Nat /\ RenewGrace \in Nat
    /\ {WalletEnabled, FirstOnly} \subseteq BOOLEAN
    /\ Gifts \subseteq Int

VARIABLES
    now,        \* the clock
    (* users *)
    plan, exp,  \* plan_id and expire_at, 0 for no end
    balance,    \* balance_kop
    promo,      \* the discount code: attached to the next payment, or used
    (* payment_orders *)
    order,
    (* the payment system *)
    invoice,    \* what has happened to an order's invoice there
    (* handlers under way *)
    unpaidRead, \* refund notifications that found their order not paid
    takeBack,   \* refunds that still have the bought term to take back
    (* observation only *)
    gifts,      \* what the operator put on the balance, or took off it
    short,      \* returned money that the balance no longer had
    due,        \* the ticks of the term paid for and not refunded: the order that bought
                \* each, and its turn
    told,       \* refund notifications handled to their end
    setBack,    \* orders set back to cancelled although they were paid
    unbooked    \* what those have moved the balance by

userVars == <<plan, exp, balance, promo>>
taskVars == <<unpaidRead, takeBack>>
setBackVars == <<setBack, unbooked>>
vars == <<now, userVars, order, invoice, taskVars, gifts, short, due, told, setBackVars>>

Statuses == {"none", "pending", "paid", "cancelled"}
Order ==
    [status : Statuses, kind : {"plan", "topup"}, plan : Plans \cup {Free},
     money : Nat, bal : Nat, promo : BOOLEAN,
     refund : {"no", "balance", "provider"}, ref : {"no", "given", "back"}]
NoOrder ==
    [status |-> "none", kind |-> "plan", plan |-> Free, money |-> 0, bal |-> 0,
     promo |-> FALSE, refund |-> "no", ref |-> "no"]

\* "none": not with a provider; "creating": Client.Create is on its way; "captured": the
\* payer's money is there; "returned": refunded or charged back after that.
Invoices == {"none", "creating", "open", "captured", "returned", "closed"}

TypeOK ==
    /\ now \in Nat
    /\ plan \in Plans \cup {Free}
    /\ exp \in Nat
    /\ balance \in Nat
    /\ promo \in {"attached", "used"}
    /\ order \in [Orders -> Order]
    /\ invoice \in [Orders -> Invoices]
    /\ unpaidRead \subseteq Orders
    /\ takeBack \in [Orders -> {"no", "shorten", "end"}]
    /\ gifts \in Int
    /\ short \in Nat
    /\ due \subseteq [by : Orders, at : Nat] /\ IsFiniteSet(due)
    /\ told \subseteq Orders
    /\ setBack \subseteq Orders
    /\ unbooked \in Int

Init ==
    /\ now = 1
    /\ plan = Free /\ exp = 0
    /\ balance = 0
    /\ promo = "attached"
    /\ order = [o \in Orders |-> NoOrder]
    /\ invoice = [o \in Orders |-> "none"]
    /\ unpaidRead = {}
    /\ takeBack = [o \in Orders |-> "no"]
    /\ gifts = 0 /\ short = 0
    /\ due = {}
    /\ told = {}
    /\ setBack = {} /\ unbooked = 0

-----------------------------------------------------------------------------
(* What the handlers read *)

Later(a, b) == IF a >= b THEN a ELSE b
Lesser(a, b) == IF a <= b THEN a ELSE b

ActivePaidPlan == IF plan \in Plans /\ exp > now THEN plan ELSE Free

\* checkPlanPurchase: no switching away from a running paid plan.
MayBuy(p) == ActivePaidPlan \in {Free, p}

Discounted == promo = "attached"
Total == Price - (IF Discounted THEN Discount ELSE 0)
FromBalance == IF WalletEnabled THEN Lesser(balance, Total) ELSE 0

Is(o, status) == order[o].status = status
ConfirmablePending(o) == Is(o, "pending")
ConfirmableAny(o) == ~Is(o, "none")
Confirmable(o) == order[o].status \in {"pending", "cancelled"}

\* A plan bought for money: what rewardReferrer's "first" counts.
BroughtMoney(o) == Is(o, "paid") /\ order[o].money > 0
RewardsEach(o) == order[o].money > 0
Rewards(o) ==
    /\ order[o].money > 0
    /\ FirstOnly => \A x \in Orders \ {o} : ~BroughtMoney(x)
Reward(o) == IF Rewards(o) THEN "given" ELSE order[o].ref

\* What an order is worth to the balance, as its record tells it: refunding a purchase to
\* the balance undoes what the balance paid and adds the money; the payment system taking
\* the money back leaves nothing of either. An order set back is off the books.
Worth(o) ==
    IF o \in setBack \/ ~Is(o, "paid") \/ order[o].refund = "provider" THEN 0
    ELSE IF order[o].kind = "topup" \/ order[o].refund = "balance" THEN order[o].money
    ELSE -order[o].bal

MovesUnbooked(o) ==
    unbooked' = unbooked + (IF o \in setBack THEN balance' - balance ELSE 0)

-----------------------------------------------------------------------------
(* Opening an order *)

Cancelled(orders, which) ==
    [o \in Orders |-> IF o \in which THEN [orders[o] EXCEPT !.status = "cancelled"]
                                     ELSE orders[o]]

\* The user's other pending orders that carry the code the given one took.
Superseded(orders, keep) ==
    {o \in Orders \ {keep} :
        orders[keep].promo /\ orders[o].promo /\ orders[o].status = "pending"}

Supersede(orders, keep) == Cancelled(orders, Superseded(orders, keep))

PlanOrder(p) ==
    [NoOrder EXCEPT !.status = "pending", !.plan = p, !.money = Total - FromBalance,
                    !.bal = FromBalance, !.promo = Discounted]
PaidOrder(p, price, discounted) ==
    [NoOrder EXCEPT !.status = "paid", !.plan = p, !.bal = price, !.promo = discounted]
TopUp(m) == [NoOrder EXCEPT !.status = "pending", !.kind = "topup", !.money = m]

\* The orders a purchase or a top-up may open now; a price the balance covers is not one.
Drafts ==
    {PlanOrder(p) : p \in {x \in Plans : MayBuy(x) /\ FromBalance < Total}}
        \cup (IF WalletEnabled THEN {TopUp(m) : m \in TopUps} ELSE {})

RequestManual(o) ==
    /\ Is(o, "none")
    /\ \E d \in Drafts : order' = Supersede([order EXCEPT ![o] = d], o)
    /\ UNCHANGED <<now, userVars, invoice, taskVars, gifts, short, due, told, setBackVars>>

\* startProviderOrder up to its call of the provider ...
StartProviderOrder(o) ==
    /\ Is(o, "none")
    /\ \E d \in Drafts : order' = [order EXCEPT ![o] = d]
    /\ invoice' = [invoice EXCEPT ![o] = "creating"]
    /\ UNCHANGED <<now, userVars, taskVars, gifts, short, due, told, setBackVars>>

\* ... the payment created there ...
Created(o) ==
    /\ invoice[o] = "creating"
    /\ invoice' = [invoice EXCEPT ![o] = "open"]
    /\ order' = Supersede(order, o)
    /\ UNCHANGED <<now, userVars, taskVars, gifts, short, due, told, setBackVars>>

\* ... or refused, or not answered in time: SetPaymentOrderStatus, whatever it was, even
\* paid by the operator's word meanwhile.
NotCreated(o) ==
    /\ invoice[o] = "creating"
    /\ invoice' = [invoice EXCEPT ![o] = "none"]
    /\ order' = Cancelled(order, {o})
    /\ setBack' = IF Is(o, "paid") THEN setBack \cup {o} ELSE setBack
    /\ unbooked' = unbooked + Worth(o)
    /\ UNCHANGED <<now, userVars, taskVars, gifts, short, due, told>>

-----------------------------------------------------------------------------
(* Confirming an order: confirmOrderPaid under applyPlanMu, ConfirmOrder one transaction *)

\* planWriteFor: a renewal of the running plan adds to its term, any other purchase
\* starts one now.
TermEnd(p) == (IF ActivePaidPlan = p THEN exp ELSE now) + Period

\* A period bought by o, to be used after what is already paid for.
LastTurn(ticks) == IF ticks = {} THEN now ELSE Max({tick.at : tick \in ticks})
WithPeriod(ticks, o) ==
    ticks \cup {[by |-> o, at |-> LastTurn(ticks) + i] : i \in 1..Period}

Grant(o, p) ==
    /\ plan' = p
    /\ exp' = TermEnd(p)
    /\ due' = WithPeriod(IF ActivePaidPlan = p THEN due ELSE {}, o)

SettledAsOrdered(o, kind) == [order EXCEPT ![o].status = "paid", ![o].ref = Reward(o)]
Settled(o, kind) ==
    [order EXCEPT ![o].status = "paid", ![o].kind = kind, ![o].ref = Reward(o)]

\* What the order was for can no longer be given: its code is used, or the user runs
\* another plan by now.
CodeUsedUnchecked(o) == FALSE
CodeUsed(o) == order[o].promo /\ promo = "used"
OtherPlan(o) == ActivePaidPlan \notin {Free, order[o].plan}
Undeliverable(o) == WalletEnabled /\ (CodeUsed(o) \/ OtherPlan(o))

\* The money buys the plan; the balance pays its own part, if it still can.
Deliver(o) ==
    /\ order[o].kind = "plan" /\ ~Undeliverable(o)
    /\ order[o].bal <= balance
    /\ balance' = balance - order[o].bal
    /\ Grant(o, order[o].plan)
    /\ promo' = IF order[o].promo THEN "used" ELSE promo
    /\ order' = Settled(o, "plan")

\* The money lands on the balance.
Bank(o) ==
    /\ \/ order[o].kind = "topup"
       \/ Undeliverable(o)
       \/ order[o].bal > balance
    /\ balance' = balance + order[o].money
    /\ order' = Settled(o, "topup")
    /\ UNCHANGED <<plan, exp, promo, due>>

ConfirmOrderPaid(o) ==
    /\ Confirmable(o)
    /\ Deliver(o) \/ Bank(o)
    /\ MovesUnbooked(o)
    /\ UNCHANGED <<now, invoice, taskVars, gifts, short, told, setBack>>

\* The provider says an order is paid: to a webhook, or to the poll. It may have said so
\* long ago.
ProviderPaid(o) ==
    /\ invoice[o] \in {"captured", "returned"}
    /\ ConfirmOrderPaid(o)

\* The operator says the money arrived, of any order that is not paid.
ConfirmPayment(o) == ConfirmOrderPaid(o)

\* An order is given up: by the operator, by the sweep of stale orders, or because the
\* provider closed its invoice.
CancelPaymentOrderIfPending(o) ==
    /\ Is(o, "pending")
    /\ order' = Cancelled(order, {o})
    /\ UNCHANGED <<now, userVars, invoice, taskVars, gifts, short, due, told, setBackVars>>

-----------------------------------------------------------------------------
(* Refunds *)

\* takeBackTerm is to come; the order no longer pays for its part of the term, unless it
\* may have bought two: what one that was set back has bought counts as paid for.
WithdrawTermNot(o) ==
    /\ due' = {tick \in due : tick.by # o \/ o \in setBack}
    /\ UNCHANGED takeBack

WithdrawTerm(o) ==
    /\ takeBack' = [takeBack EXCEPT ![o] = "shorten"]
    /\ due' = {tick \in due : tick.by # o \/ o \in setBack}

\* RefundOrder, by the operator, who may have the term taken back as well.
RefundOrder(o) ==
    /\ WalletEnabled
    /\ Is(o, "paid") /\ order[o].kind = "plan" /\ order[o].refund = "no"
    /\ order' = [order EXCEPT ![o].refund = "balance"]
    /\ balance' = balance + order[o].money + order[o].bal
    /\ \/ WithdrawTerm(o)                          \* cancelPlan
       \/ UNCHANGED <<takeBack, due>>
    /\ MovesUnbooked(o)
    /\ UNCHANGED <<now, plan, exp, promo, invoice, unpaidRead, gifts, short, told, setBack>>

\* ProviderRefundOrder: what the money put on the balance comes off it, as far as the
\* balance goes; a plan still paid for gives its own part of the balance back, and loses
\* its term.
ProviderRefundOrder(o) ==
    LET onBalance == order[o].kind = "topup" \/ order[o].refund = "balance"
        taken == IF onBalance THEN Lesser(balance, order[o].money) ELSE 0
        returned == IF onBalance THEN 0 ELSE order[o].bal
        credit == order[o].ref
    IN  /\ order' = [order EXCEPT ![o].refund = "provider",
                                  ![o].ref = IF credit = "given" THEN "back" ELSE credit]
        /\ balance' = balance - taken + returned
        /\ short' = short + (IF onBalance THEN order[o].money - taken ELSE 0)
        /\ IF onBalance THEN UNCHANGED <<takeBack, due>> ELSE WithdrawTerm(o)

\* A refund notification: handleProviderWebhook reads the order ...
RefundedPaid(o) ==
    /\ invoice[o] = "returned"
    /\ Is(o, "paid")
    /\ told' = told \cup {o}
    /\ \/ order[o].refund # "provider" /\ ProviderRefundOrder(o)
       \/ order[o].refund = "provider" /\ UNCHANGED <<order, balance, short, takeBack, due>>
    /\ UNCHANGED <<now, plan, exp, promo, invoice, unpaidRead, gifts, setBackVars>>

RefundedUnpaid(o) ==
    /\ invoice[o] = "returned"
    /\ ~Is(o, "paid")
    /\ unpaidRead' = unpaidRead \cup {o}
    /\ UNCHANGED <<now, userVars, order, invoice, takeBack, gifts, short, due, told, setBackVars>>

\* ... and, found unpaid, cancels it if it still waits for its money.
RefundedCancels(o) ==
    /\ o \in unpaidRead
    /\ unpaidRead' = unpaidRead \ {o}
    /\ told' = told \cup {o}
    /\ order' = IF Is(o, "pending") THEN Cancelled(order, {o}) ELSE order
    /\ UNCHANGED <<now, userVars, invoice, takeBack, gifts, short, due, setBackVars>>

\* takeBackTerm: the bought period comes off the end of the term of the same plan ...
ShortenTerm(o) ==
    /\ takeBack[o] = "shorten"
    /\ IF ActivePaidPlan = order[o].plan
       THEN /\ exp' = Later(exp - Period, now)
            /\ takeBack' = [takeBack EXCEPT ![o] = IF exp' <= now THEN "end" ELSE "no"]
       ELSE /\ takeBack' = [takeBack EXCEPT ![o] = "no"]
            /\ UNCHANGED exp
    /\ UNCHANGED <<now, plan, balance, promo, order, invoice, unpaidRead, gifts, short, due, told, setBackVars>>

ToFree ==
    /\ plan' = Free
    /\ exp' = 0
    /\ due' = {}

\* ... and a term that leaves nothing ends the plan: cancelUserPlan, outside the lock.
EndTerm(o) ==
    /\ takeBack[o] = "end"
    /\ takeBack' = [takeBack EXCEPT ![o] = "no"]
    /\ ToFree
    /\ UNCHANGED <<now, balance, promo, order, invoice, unpaidRead, gifts, short, told, setBackVars>>

-----------------------------------------------------------------------------
(* The balance and the term *)

\* BuyFromBalance: a purchase the balance pays alone.
Bought(o, p, price, discounted) ==
    /\ WalletEnabled
    /\ Is(o, "none")
    /\ balance >= price
    /\ balance' = balance - price
    /\ Grant(o, p)
    /\ promo' = IF discounted THEN "used" ELSE promo
    /\ order' = Supersede([order EXCEPT ![o] = PaidOrder(p, price, discounted)], o)
    /\ UNCHANGED <<now, invoice, taskVars, gifts, short, told, setBackVars>>

BuyPlanFromBalance(o, p) ==
    /\ MayBuy(p)
    /\ Bought(o, p, Total, Discounted)

\* renewFromBalance: the plan the user has, at the full price, about when its term ends.
RenewalDue == exp + RenewGrace > now /\ exp <= now + RenewAhead
RenewFromBalance(o) ==
    /\ plan \in Plans /\ RenewalDue
    /\ Bought(o, plan, Price, FALSE)

\* downgradeExpired, which looks at the term again under the lock.
DowngradeExpired ==
    /\ plan # Free /\ exp # 0 /\ exp <= now
    /\ ToFree
    /\ UNCHANGED <<now, balance, promo, order, invoice, taskVars, gifts, short, told, setBackVars>>

\* CancelUserPlan, asked for by the user or the operator.
CancelUserPlan ==
    /\ ToFree
    /\ UNCHANGED <<now, balance, promo, order, invoice, taskVars, gifts, short, told, setBackVars>>

AdjustBalance(delta) ==
    /\ gifts + delta \in Gifts
    /\ balance + delta >= 0
    /\ balance' = balance + delta
    /\ gifts' = gifts + delta
    /\ UNCHANGED <<now, plan, exp, promo, order, invoice, taskVars, short, due, told, setBackVars>>

-----------------------------------------------------------------------------
(* The payer, the payment system and the clock *)

Invoice(o, from, to) ==
    /\ invoice[o] \in from
    /\ invoice' = [invoice EXCEPT ![o] = to]
    /\ UNCHANGED <<now, userVars, order, taskVars, gifts, short, due, told, setBackVars>>

Pays(o) == Invoice(o, {"open"}, "captured")
Closes(o) == Invoice(o, {"open"}, "closed")
Returns(o) == Invoice(o, {"captured"}, "returned")

Tick ==
    /\ now < MaxNow
    /\ now' = now + 1
    /\ due' = {tick \in due : \E earlier \in due : earlier.at < tick.at}
    /\ UNCHANGED <<userVars, order, invoice, taskVars, gifts, short, told, setBackVars>>

Opens(o) == RequestManual(o) \/ StartProviderOrder(o) \/ Created(o) \/ NotCreated(o)
Resolves(o) == ProviderPaid(o) \/ ConfirmPayment(o) \/ CancelPaymentOrderIfPending(o)
Buys(o) == (\E p \in Plans : BuyPlanFromBalance(o, p)) \/ RenewFromBalance(o)
Refunds(o) ==
    \/ RefundOrder(o) \/ RefundedPaid(o) \/ RefundedUnpaid(o) \/ RefundedCancels(o)
    \/ ShortenTerm(o) \/ EndTerm(o)

Next ==
    \/ \E o \in Orders : Opens(o) \/ Resolves(o) \/ Buys(o) \/ Pays(o)
    \/ DowngradeExpired \/ CancelUserPlan \/ Tick
    \/ \E o \in Orders : Closes(o) \/ Returns(o)
    \/ \E o \in Orders : Refunds(o)
    \/ \E g \in Gifts : AdjustBalance(g - gifts)

Spec == Init /\ [][Next]_vars

-----------------------------------------------------------------------------
(* Properties *)

\* The balance is what the orders' records and the operator's corrections say, but for
\* returned money it no longer had and for orders set back after they were paid: no
\* confirmation, refund or chargeback moves it twice or leaves its order saying something
\* else happened.
BalanceIsOrders == balance = gifts + short + unbooked + MapThenSumSet(Worth, Orders)

\* "A paid order stays paid" (markPaidIfOpenOn): nothing puts it back among the orders a
\* payment can still claim, but an invoice that fails to be created after the operator
\* has confirmed its order (startProviderOrder).
PaidStaysPaid ==
    [][\A o \in Orders : Is(o, "paid") /\ order'[o].status # "paid" =>
            /\ invoice[o] = "creating" /\ invoice'[o] = "none"
            /\ o \in setBack' \ setBack]_vars

\* The discount is one per user: of all the checkouts that carried the code, superseded,
\* paid late or paid twice over, one at most buys its plan for less.
DiscountOnce ==
    WalletEnabled =>
        \A a, b \in Orders :
            (\A o \in {a, b} : Is(o, "paid") /\ order[o].kind = "plan" /\ order[o].promo) => a = b

\* With "first only", one order at most earns the referrer a reward, of those that were not
\* set back after it, and none does whose money the payment system took back.
RewardOnce ==
    /\ FirstOnly => \A a, b \in Orders \ setBack :
          order[a].ref # "no" /\ order[b].ref # "no" => a = b
    /\ \A o \in Orders : order[o].refund = "provider" => order[o].ref # "given"

\* The user never runs on time nobody paid for: unless a refund still has its term to take
\* back, what is left of the term was bought by orders whose money was not returned, or by
\* one that was set back after it had been paid.
NoTimeForFree ==
    plan \in Plans /\ (\A o \in Orders : takeBack[o] = "no") => exp - now <= Cardinality(due)

\* providerRefunded's comment: a paid order whose money the payment system returned
\* "leaves revenue", "what it put on a balance comes off, and a plan it bought loses the
\* time it paid for" - once its refund notification has been handled.
ReturnedIsSettled ==
    \A o \in told : Is(o, "paid") => order[o].refund = "provider"

-----------------------------------------------------------------------------
(* The order book this implements *)

Fate(o) ==
    IF Is(o, "none") THEN "new"
    ELSE IF o \in setBack THEN
        IF ~Is(o, "paid") THEN "lapsed"
        ELSE IF order[o].refund = "balance" THEN "regained" ELSE "again"
    ELSE IF ~Is(o, "paid") THEN "open"
    ELSE IF order[o].refund = "provider" THEN "returned"
    ELSE IF order[o].refund = "balance" THEN "refunded"
    ELSE IF order[o].kind = "topup" THEN "banked"
    ELSE "bought"

Book == INSTANCE OrderBook WITH
    terms <- [o \in Orders |-> [money |-> order[o].money, bal |-> order[o].bal]],
    fate <- [o \in Orders |-> Fate(o)]

\* Whatever the interleaving of webhooks, polls, operators, the sweep and refunds, each
\* order settles once - twice if it was set back - and moves the balance by what the book
\* says.
ImplementsOrderBook == Book!Spec

-----------------------------------------------------------------------------
(* Fairness: a provider repeats a notification until it is answered, so what it says about *)
(* money it holds is heard in the end; a goroutine that has begun a refund ends it.        *)

Fairness ==
    \A o \in Orders :
        /\ WF_vars(ProviderPaid(o))
        /\ WF_vars(ShortenTerm(o)) /\ WF_vars(EndTerm(o))

FairSpec == Spec /\ Fairness

\* Captured money is never lost sight of, even when the order was swept, superseded or
\* cancelled before it arrived.
CapturedIsDelivered ==
    \A o \in Orders : invoice[o] = "captured" ~> Is(o, "paid")
=============================================================================
