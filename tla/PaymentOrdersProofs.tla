------------------------- MODULE PaymentOrdersProofs -------------------------
(***************************************************************************)
(* Proofs about PaymentOrders, for any orders, plans, prices and periods.  *)
(*                                                                         *)
(* The invariant behind them: an order that is not paid has nothing to     *)
(* refund and has earned no reward, unless it was set back; a purchase at a*)
(* discount leaves the code used; an order whose invoice is being created  *)
(* has begun, one that was set back has no invoice, and one whose money    *)
(* the payment system took back was paid there.                            *)
(***************************************************************************)
EXTENDS PaymentOrders, FiniteSetTheorems, TLAPS

\* A plan bought with the discount code.
AtDiscount(o) == Is(o, "paid") /\ order[o].kind = "plan" /\ order[o].promo

CodeIsSpent == \A o \in Orders : AtDiscount(o) => promo = "used"

\* What the invoices say of the orders.
InvoicesFit ==
    \A o \in Orders :
        /\ invoice[o] = "creating" => ~Is(o, "none")
        /\ o \in setBack => ~Is(o, "none") /\ invoice[o] = "none"
        /\ order[o].refund = "provider" => Is(o, "paid") /\ invoice[o] = "returned"

UnpaidIsPlain ==
    \A o \in Orders \ setBack : ~Is(o, "paid") => order[o].refund = "no" /\ order[o].ref = "no"

RewardIsForMoney == \A o \in Orders \ setBack : order[o].ref # "no" => BroughtMoney(o)

-----------------------------------------------------------------------------
(* Finite sets *)

\* Induction over the subsets of a finite set: what holds of the empty one, and goes on
\* holding as elements are added, holds of the whole.
LEMMA FiniteInduction ==
    ASSUME NEW S, IsFiniteSet(S), NEW Good, {} \in Good,
           \A T \in SUBSET S : \A x \in T : T \ {x} \in Good => T \in Good
    PROVE  S \in Good
<1> DEFINE Bad == {T \in SUBSET S : T \notin Good}
<1> SUFFICES ASSUME S \notin Good PROVE FALSE
  OBVIOUS
<1>1. \A T \in SUBSET S : IsFiniteSet(T)
  BY FS_Subset
<1>2. Bad \subseteq FiniteSubsetsOf(S) /\ Bad # {}
  BY <1>1 DEF FiniteSubsetsOf
<1>3. PICK T \in Bad : \A U \in Bad : ~(<<U, T>> \in StrictSubsetOrdering(S))
  <2>1. IsWellFoundedOn(StrictSubsetOrdering(S), FiniteSubsetsOf(S))
    BY FS_StrictSubsetOrderingWellFounded
  <2> HIDE DEF Bad
  <2> QED
    BY <1>2, <2>1, WFMin
<1>4. PICK x : x \in T
  BY <1>3
<1>5. T \ {x} \in SUBSET S /\ T \ {x} # T
  BY <1>3, <1>4
<1>6. <<T \ {x}, T>> \in StrictSubsetOrdering(S)
  BY <1>3, <1>5 DEF StrictSubsetOrdering
<1> QED
  BY <1>3, <1>4, <1>5, <1>6

LEMMA FiniteMax ==
    ASSUME NEW S \in SUBSET Int, IsFiniteSet(S), S # {}
    PROVE  Max(S) \in S /\ \A y \in S : y <= Max(S)
<1> DEFINE Good == {T \in SUBSET S : T # {} => \E x \in T : \A y \in T : y <= x}
<1>1. ASSUME NEW T \in SUBSET S, NEW x \in T, T \ {x} \in Good
      PROVE  T \in Good
  <2>1. CASE T = {x}
    BY <2>1
  <2>2. CASE T # {x}
    <3>1. PICK m \in T \ {x} : \A y \in T \ {x} : y <= m
      BY <1>1, <2>2
    <3>2. x \in Int /\ m \in Int
      OBVIOUS
    <3>3. CASE x <= m
      BY <3>1, <3>2, <3>3
    <3>4. CASE ~(x <= m)
      <4>1. \A y \in T : y <= x
        BY <3>1, <3>2, <3>4
      <4> QED
        BY <4>1
    <3> QED
      BY <3>3, <3>4
  <2> QED
    BY <2>1, <2>2
<1>2. S \in Good
  <2>1. {} \in Good
    OBVIOUS
  <2> HIDE DEF Good
  <2> QED
    BY <1>1, <2>1, FiniteInduction
<1>3. \E x \in S : \A y \in S : x >= y
  BY <1>2
<1> QED
  BY <1>3, Zenon DEF Max

-----------------------------------------------------------------------------
(* Types *)

LEMMA NoOrderType == NoOrder \in Order
BY DEF NoOrder, Order, Statuses

LEMMA InitType == Init => TypeOK
BY NoOrderType, FS_EmptySet DEF Init, TypeOK, Invoices

LEMMA DraftType ==
    ASSUME PaymentOrdersAssumption, TypeOK, NEW d \in Drafts
    PROVE  d \in Order /\ d.status = "pending" /\ d.refund = "no" /\ d.ref = "no"
<1>1. ASSUME NEW p \in Plans, d = PlanOrder(p)
      PROVE  d \in Order /\ d.status = "pending" /\ d.refund = "no" /\ d.ref = "no"
  <2>1. FromBalance \in Nat /\ Total \in Nat /\ FromBalance <= Total
    BY DEF PaymentOrdersAssumption, TypeOK, FromBalance, Total, Lesser
  <2>2. Total - FromBalance \in Nat
    BY <2>1
  <2> QED
    BY <1>1, <2>1, <2>2 DEF PlanOrder, NoOrder, Order, Statuses, Discounted
<1>2. ASSUME NEW m \in TopUps, d = TopUp(m)
      PROVE  d \in Order /\ d.status = "pending" /\ d.refund = "no" /\ d.ref = "no"
  <2>1. m \in Nat
    BY DEF PaymentOrdersAssumption
  <2> QED
    BY <1>2, <2>1 DEF TopUp, NoOrder, Order, Statuses
<1> QED
  BY <1>1, <1>2 DEF Drafts

\* Two records of an order that differ in its status at most.
StatusAside(old, new) ==
    /\ new.kind = old.kind /\ new.plan = old.plan
    /\ new.money = old.money /\ new.bal = old.bal /\ new.promo = old.promo
    /\ new.refund = old.refund /\ new.ref = old.ref

\* Cancelling changes the status of some orders and nothing else.
LEMMA CancelledOrders ==
    ASSUME NEW orders \in [Orders -> Order], NEW which
    PROVE  /\ Cancelled(orders, which) \in [Orders -> Order]
           /\ \A x \in Orders :
                 /\ Cancelled(orders, which)[x].status
                        = IF x \in which THEN "cancelled" ELSE orders[x].status
                 /\ StatusAside(orders[x], Cancelled(orders, which)[x])
<1>1. ASSUME NEW x \in Orders
      PROVE  [orders[x] EXCEPT !.status = "cancelled"] \in Order
  BY DEF Order, Statuses
<1> QED
  BY <1>1 DEF Cancelled, Order, StatusAside

\* Superseding cancels pending orders and nothing else.
LEMMA SupersededOrders ==
    ASSUME NEW orders \in [Orders -> Order], NEW keep \in Orders
    PROVE  /\ Supersede(orders, keep) \in [Orders -> Order]
           /\ \A x \in Orders :
                 /\ \/ Supersede(orders, keep)[x].status = orders[x].status
                    \/ /\ x # keep
                       /\ orders[x].status = "pending"
                       /\ Supersede(orders, keep)[x].status = "cancelled"
                 /\ StatusAside(orders[x], Supersede(orders, keep)[x])
<1>1. PICK which : which = Superseded(orders, keep)
  OBVIOUS
<1>2. Supersede(orders, keep) = Cancelled(orders, which)
  BY <1>1 DEF Supersede
<1>3. \A x \in Orders : x \in which => x # keep /\ orders[x].status = "pending"
  BY <1>1 DEF Superseded
<1> QED
  BY <1>2, <1>3, CancelledOrders

LEMMA OpenedOrders ==
    ASSUME PaymentOrdersAssumption, TypeOK, NEW o \in Orders, NEW d \in Drafts
    PROVE  /\ [order EXCEPT ![o] = d] \in [Orders -> Order]
           /\ Supersede([order EXCEPT ![o] = d], o) \in [Orders -> Order]
<1>1. [order EXCEPT ![o] = d] \in [Orders -> Order]
  BY DraftType DEF TypeOK
<1> QED
  BY <1>1, SupersededOrders

LEMMA RewardType ==
    ASSUME TypeOK, NEW o \in Orders
    PROVE  Reward(o) \in {"no", "given", "back"}
BY DEF TypeOK, Order, Reward

LEMMA SettledType ==
    ASSUME TypeOK, NEW o \in Orders, NEW kind \in {"plan", "topup"}
    PROVE  /\ Settled(o, kind) \in [Orders -> Order]
           /\ \A x \in Orders : x # o => Settled(o, kind)[x] = order[x]
           /\ LET new == Settled(o, kind)[o] IN
              /\ new.status = "paid" /\ new.kind = kind /\ new.ref = Reward(o)
              /\ new.plan = order[o].plan /\ new.money = order[o].money
              /\ new.bal = order[o].bal /\ new.promo = order[o].promo
              /\ new.refund = order[o].refund
<1> DEFINE s == [order[o] EXCEPT !.status = "paid", !.kind = kind, !.ref = Reward(o)]
<1>1. order[o] \in Order
  BY DEF TypeOK
<1>2. Reward(o) \in {"no", "given", "back"}
  BY RewardType
<1>3. /\ s \in Order
      /\ s.status = "paid" /\ s.kind = kind /\ s.ref = Reward(o)
      /\ s.plan = order[o].plan /\ s.money = order[o].money
      /\ s.bal = order[o].bal /\ s.promo = order[o].promo
      /\ s.refund = order[o].refund
  BY <1>1, <1>2 DEF Order, Statuses
<1>4. Settled(o, kind) = [order EXCEPT ![o] = s]
  BY DEF TypeOK, Settled
<1> HIDE DEF s
<1> QED
  BY <1>3, <1>4 DEF TypeOK

LEMMA BoughtOrders ==
    ASSUME TypeOK, NEW o \in Orders, NEW p \in Plans, NEW price \in Nat,
           NEW discounted \in BOOLEAN
    PROVE  /\ PaidOrder(p, price, discounted) \in Order
           /\ [order EXCEPT ![o] = PaidOrder(p, price, discounted)] \in [Orders -> Order]
           /\ Supersede([order EXCEPT ![o] = PaidOrder(p, price, discounted)], o)
                \in [Orders -> Order]
<1>1. PaidOrder(p, price, discounted) \in Order
  BY DEF PaidOrder, NoOrder, Order, Statuses
<1>2. [order EXCEPT ![o] = PaidOrder(p, price, discounted)] \in [Orders -> Order]
  BY <1>1 DEF TypeOK
<1> QED
  BY <1>1, <1>2, SupersededOrders

\* The period bought comes after all that is paid for already.
LEMMA LastTurnType ==
    ASSUME TypeOK, NEW ticks \in SUBSET due
    PROVE  LastTurn(ticks) \in Nat /\ \A tick \in ticks : tick.at <= LastTurn(ticks)
<1>1. CASE ticks = {}
  BY <1>1 DEF LastTurn, TypeOK
<1>2. CASE ticks # {}
  <2> DEFINE turns == {tick.at : tick \in ticks}
             turnOf == [tick \in ticks |-> tick.at]
  <2>1. IsFiniteSet(ticks) /\ turns \subseteq Nat /\ turns # {}
    BY <1>2, FS_Subset DEF TypeOK
  <2>2. turnOf \in Surjection(ticks, turns)
    BY DEF Surjection
  <2>3. IsFiniteSet(turns)
    <3> HIDE DEF turns, turnOf
    <3> QED
      BY <2>1, <2>2, FS_Surjection
  <2>4. Max(turns) \in turns /\ \A y \in turns : y <= Max(turns)
    <3>1. turns \in SUBSET Int
      BY <2>1
    <3> HIDE DEF turns, turnOf
    <3> QED
      BY <2>1, <2>3, <3>1, FiniteMax
  <2> QED
    BY <1>2, <2>1, <2>4 DEF LastTurn
<1> QED
  BY <1>1, <1>2

\* A period bought by o: that many ticks more, unless o has some of them already.
LEMMA PeriodType ==
    ASSUME PaymentOrdersAssumption, TypeOK, NEW o \in Orders, NEW ticks \in SUBSET due
    PROVE  LET bought == WithPeriod(ticks, o) \ ticks IN
           /\ WithPeriod(ticks, o) \subseteq [by : Orders, at : Nat]
           /\ IsFiniteSet(WithPeriod(ticks, o)) /\ IsFiniteSet(ticks)
           /\ ticks \subseteq WithPeriod(ticks, o)
           /\ \A tick \in bought : tick.by = o /\ \A before \in ticks : before.at < tick.at
           /\ \A a, b \in bought : a.at = b.at => a = b
           /\ Cardinality(bought) = Period
           /\ Cardinality(WithPeriod(ticks, o)) = Cardinality(ticks) + Period
<1> DEFINE last == LastTurn(ticks)
           bought == {[by |-> o, at |-> last + i] : i \in 1..Period}
           turn == [i \in 1..Period |-> [by |-> o, at |-> last + i]]
<1>1. last \in Nat /\ Period \in Nat /\ \A tick \in ticks : tick.at \in Nat /\ tick.at <= last
  BY LastTurnType DEF PaymentOrdersAssumption, TypeOK
<1>2. WithPeriod(ticks, o) = ticks \cup bought
  BY DEF WithPeriod
<1>3. IsFiniteSet(ticks)
  BY FS_Subset DEF TypeOK
<1> HIDE DEF last
<1>4. /\ bought \subseteq [by : Orders, at : Nat]
      /\ \A tick \in bought : tick.by = o /\ tick.at \in Nat /\ last < tick.at
      /\ \A a, b \in bought : a.at = b.at => a = b
  BY <1>1
<1>5. turn \in Bijection(1..Period, bought)
  <2>1. \A i \in 1..Period : turn[i] = [by |-> o, at |-> last + i] /\ turn[i].at = last + i
    OBVIOUS
  <2>2. turn \in [1..Period -> bought] /\ \A t \in bought : \E i \in 1..Period : turn[i] = t
    OBVIOUS
  <2>3. \A i, j \in 1..Period : turn[i] = turn[j] => i = j
    BY <1>1, <2>1
  <2> HIDE DEF bought, turn
  <2> QED
    BY <2>2, <2>3 DEF Bijection, Injection, IsInjective, Surjection
<1>6. IsFiniteSet(bought) /\ Cardinality(bought) = Period
  <2>1. IsFiniteSet(1..Period) /\ Cardinality(1..Period) = Period
    BY <1>1, FS_Interval
  <2>2. ExistsBijection(1..Period, bought)
    BY <1>5 DEF ExistsBijection
  <2> HIDE DEF bought, turn
  <2> QED
    BY <2>1, <2>2, FS_Bijection
<1> HIDE DEF bought, turn
<1>7. \A tick \in bought : \A before \in ticks : before.at < tick.at
  BY <1>1, <1>4
<1>8. ticks \cap bought = {} /\ (ticks \cup bought) \ ticks = bought
  BY <1>1, <1>7
<1>9. /\ IsFiniteSet(ticks \cup bought)
      /\ Cardinality(ticks \cup bought) = Cardinality(ticks) + Period
  <2>1. Cardinality(ticks) \in Nat /\ Cardinality(ticks \cap bought) = 0
    BY <1>3, <1>8, FS_EmptySet, FS_CardinalityType
  <2>2. Cardinality(ticks \cup bought)
          = Cardinality(ticks) + Cardinality(bought) - Cardinality(ticks \cap bought)
    BY <1>3, <1>6, FS_Union
  <2>3. IsFiniteSet(ticks \cup bought)
    BY <1>3, <1>6, FS_Union
  <2> QED
    BY <1>1, <1>6, <2>1, <2>2, <2>3
<1> QED
  BY <1>2, <1>3, <1>4, <1>6, <1>7, <1>8, <1>9 DEF TypeOK

\* A term granted is a term.
LEMMA GrantType ==
    ASSUME PaymentOrdersAssumption, TypeOK, NEW o \in Orders, NEW p \in Plans, Grant(o, p)
    PROVE  /\ plan' \in Plans \cup {Free} /\ exp' \in Nat
           /\ due' \subseteq [by : Orders, at : Nat] /\ IsFiniteSet(due')
<1>1. PICK ticks \in SUBSET due : due' = WithPeriod(ticks, o)
  BY DEF Grant
<1>2. due' \subseteq [by : Orders, at : Nat] /\ IsFiniteSet(due')
  BY <1>1, PeriodType
<1> QED
  BY <1>2 DEF PaymentOrdersAssumption, TypeOK, Grant, TermEnd

LEMMA FewerType ==
    ASSUME TypeOK, due' \subseteq due
    PROVE  due' \subseteq [by : Orders, at : Nat] /\ IsFiniteSet(due')
BY FS_Subset DEF TypeOK

LEMMA WorthType == TypeOK => \A o \in Orders : Worth(o) \in Int
BY DEF TypeOK, Order, Worth, Is

LEMMA TypeStep ==
    ASSUME PaymentOrdersAssumption, TypeOK, [Next]_vars
    PROVE  TypeOK'
<1> USE DEF TypeOK, Invoices, setBackVars
<1>1. ASSUME NEW o \in Orders, Opens(o)
      PROVE  TypeOK'
  <2>1. CASE RequestManual(o)
    <3>1. PICK d \in Drafts : order' = Supersede([order EXCEPT ![o] = d], o)
      BY <2>1 DEF RequestManual
    <3>2. order' \in [Orders -> Order]
      BY <3>1, OpenedOrders
    <3> QED
      BY <2>1, <3>2 DEF RequestManual, userVars, taskVars
  <2>2. CASE StartProviderOrder(o)
    <3>1. PICK d \in Drafts : order' = [order EXCEPT ![o] = d]
      BY <2>2 DEF StartProviderOrder
    <3>2. order' \in [Orders -> Order]
      BY <3>1, OpenedOrders
    <3> QED
      BY <2>2, <3>2 DEF StartProviderOrder, userVars, taskVars
  <2>3. CASE Created(o)
    BY <2>3, SupersededOrders DEF Created, userVars, taskVars
  <2>4. CASE NotCreated(o)
    <3>1. Worth(o) \in Int
      BY WorthType
    <3>2. setBack' \subseteq Orders /\ unbooked' \in Int
      BY <2>4, <3>1 DEF NotCreated
    <3>3. order' \in [Orders -> Order]
      BY <2>4, CancelledOrders DEF NotCreated
    <3> QED
      BY <2>4, <3>2, <3>3 DEF NotCreated, userVars, taskVars
  <2> QED
    BY <1>1, <2>1, <2>2, <2>3, <2>4 DEF Opens
<1>2. ASSUME NEW o \in Orders, ConfirmOrderPaid(o)
      PROVE  TypeOK'
  <2>1. order[o] \in Order
    OBVIOUS
  <2>2. CASE Deliver(o)
    <3>1. PICK p \in Plans \cup {Free} : p = order[o].plan
      BY <2>1 DEF Order
    <3>2. balance' \in Nat
      BY <2>1, <2>2 DEF Deliver, Order
    <3>3. plan' \in Plans \cup {Free} /\ exp' \in Nat
      BY <2>2, <3>1 DEF Deliver, Grant, TermEnd, PaymentOrdersAssumption
    <3>6. due' \subseteq [by : Orders, at : Nat] /\ IsFiniteSet(due')
      <4>1. PICK ticks \in SUBSET due : due' = WithPeriod(ticks, o)
        BY <2>2 DEF Deliver, Grant
      <4> QED
        BY <4>1, PeriodType
    <3>4. order' \in [Orders -> Order]
      BY <2>2, SettledType DEF Deliver
    <3>5. promo' \in {"attached", "used"}
      BY <2>2 DEF Deliver
    <3>7. unbooked' \in Int
      BY <1>2, <3>2 DEF ConfirmOrderPaid, MovesUnbooked
    <3> QED
      BY <1>2, <3>2, <3>3, <3>4, <3>5, <3>6, <3>7 DEF ConfirmOrderPaid, taskVars
  <2>3. CASE Bank(o)
    <3>1. balance' \in Nat
      BY <2>1, <2>3 DEF Bank, Order
    <3>2. order' \in [Orders -> Order]
      BY <2>3, SettledType DEF Bank
    <3>3. unbooked' \in Int
      BY <1>2, <3>1 DEF ConfirmOrderPaid, MovesUnbooked
    <3> QED
      BY <1>2, <2>3, <3>1, <3>2, <3>3 DEF ConfirmOrderPaid, Bank, taskVars
  <2> QED
    BY <1>2, <2>2, <2>3 DEF ConfirmOrderPaid
<1>3. ASSUME NEW o \in Orders, CancelPaymentOrderIfPending(o)
      PROVE  TypeOK'
  BY <1>3, CancelledOrders DEF CancelPaymentOrderIfPending, userVars, taskVars
<1>4. ASSUME NEW o \in Orders, NEW p \in Plans, NEW price \in Nat,
             NEW discounted \in BOOLEAN, Bought(o, p, price, discounted)
      PROVE  TypeOK'
  <2>1. balance' \in Nat /\ promo' \in {"attached", "used"}
    BY <1>4 DEF Bought
  <2>2. /\ plan' \in Plans \cup {Free} /\ exp' \in Nat
        /\ due' \subseteq [by : Orders, at : Nat] /\ IsFiniteSet(due')
    BY <1>4, GrantType DEF Bought
  <2>3. order' \in [Orders -> Order]
    BY <1>4, BoughtOrders DEF Bought
  <2> QED
    BY <1>4, <2>1, <2>2, <2>3 DEF Bought, taskVars
<1>5. ASSUME NEW o \in Orders, Buys(o)
      PROVE  TypeOK'
  <2>1. Total \in Nat /\ Price \in Nat /\ Discounted \in BOOLEAN
    BY DEF PaymentOrdersAssumption, Total, Discounted
  <2>2. ASSUME NEW p \in Plans, BuyPlanFromBalance(o, p)
        PROVE  TypeOK'
    BY <1>4, <2>1, <2>2 DEF BuyPlanFromBalance
  <2>3. CASE RenewFromBalance(o)
    BY <1>4, <2>1, <2>3 DEF RenewFromBalance
  <2> QED
    BY <1>5, <2>2, <2>3 DEF Buys
<1>6. ASSUME NEW o \in Orders, Refunds(o)
      PROVE  TypeOK'
  <2>1. order[o] \in Order
    OBVIOUS
  <2>2. CASE RefundOrder(o)
    <3>1. due' \subseteq due
      BY <2>2 DEF RefundOrder, WithdrawTerm
    <3>2. due' \subseteq [by : Orders, at : Nat] /\ IsFiniteSet(due')
      BY <3>1, FewerType
    <3>3. balance' \in Nat
      BY <2>1, <2>2 DEF RefundOrder, Order
    <3>4. unbooked' \in Int
      BY <2>2, <3>3 DEF RefundOrder, MovesUnbooked
    <3>5. order' \in [Orders -> Order]
      BY <2>1, <2>2 DEF RefundOrder, Order
    <3> QED
      BY <2>2, <3>2, <3>3, <3>4, <3>5 DEF RefundOrder, WithdrawTerm
  <2>3. ASSUME ProviderRefundOrder(o)
        PROVE  /\ order' \in [Orders -> Order] /\ balance' \in Nat /\ short' \in Nat
               /\ takeBack' \in [Orders -> {"no", "shorten", "end"}]
    <3> DEFINE back == IF order[o].ref = "given" THEN "back" ELSE order[o].ref
    <3>1. /\ order[o].money \in Nat /\ order[o].bal \in Nat
          /\ back \in {"no", "given", "back"}
      BY <2>1 DEF Order
    <3>2. order' = [order EXCEPT ![o] = [order[o] EXCEPT !.refund = "provider", !.ref = back]]
      BY <2>3 DEF ProviderRefundOrder
    <3>3. [order[o] EXCEPT !.refund = "provider", !.ref = back] \in Order
      BY <2>1, <3>1 DEF Order
    <3> HIDE DEF back
    <3>4. order' \in [Orders -> Order]
      BY <3>2, <3>3
    <3>5. takeBack' \in [Orders -> {"no", "shorten", "end"}]
      BY <2>3 DEF ProviderRefundOrder, WithdrawTerm
    <3>6. CASE order[o].kind = "topup" \/ order[o].refund = "balance"
      <4>1. PICK taken \in Int :
               /\ taken = Lesser(balance, order[o].money)
               /\ taken <= balance /\ taken <= order[o].money
        BY <3>1 DEF Lesser
      <4>2. /\ balance' = balance - taken + 0
            /\ short' = short + (order[o].money - taken)
        BY <2>3, <3>6, <4>1 DEF ProviderRefundOrder
      <4> QED
        BY <3>1, <3>4, <3>5, <4>1, <4>2
    <3>7. CASE ~(order[o].kind = "topup" \/ order[o].refund = "balance")
      <4>1. balance' = balance - 0 + order[o].bal /\ short' = short + 0
        BY <2>3, <3>7 DEF ProviderRefundOrder
      <4> QED
        BY <3>1, <3>4, <3>5, <4>1
    <3> QED
      BY <3>6, <3>7
  <2>4. CASE RefundedPaid(o)
    <3>1. due' \subseteq due
      BY <2>4 DEF RefundedPaid, ProviderRefundOrder, WithdrawTerm
    <3>2. due' \subseteq [by : Orders, at : Nat] /\ IsFiniteSet(due')
      BY <3>1, FewerType
    <3> QED
      BY <2>3, <2>4, <3>2 DEF RefundedPaid
  <2>5. CASE RefundedUnpaid(o)
    BY <2>5 DEF RefundedUnpaid, userVars
  <2>6. CASE RefundedCancels(o)
    BY <2>6, CancelledOrders DEF RefundedCancels, userVars
  <2>7. CASE ShortenTerm(o)
    BY <2>7 DEF ShortenTerm, Later, PaymentOrdersAssumption, ActivePaidPlan
  <2>8. CASE EndTerm(o)
    BY <2>8, FS_EmptySet DEF EndTerm, ToFree
  <2> QED
    BY <1>6, <2>2, <2>4, <2>5, <2>6, <2>7, <2>8 DEF Refunds
<1>7. ASSUME NEW o \in Orders, Pays(o) \/ Closes(o) \/ Returns(o)
      PROVE  TypeOK'
  BY <1>7 DEF Pays, Closes, Returns, Invoice, userVars, taskVars
<1>8. CASE DowngradeExpired \/ CancelUserPlan \/ Tick
  <2>1. CASE Tick
    <3>1. due' \subseteq [by : Orders, at : Nat] /\ IsFiniteSet(due')
      BY <2>1, FewerType DEF Tick
    <3> QED
      BY <2>1, <3>1 DEF Tick, userVars, taskVars
  <2>2. CASE DowngradeExpired \/ CancelUserPlan
    BY <2>2, FS_EmptySet DEF DowngradeExpired, CancelUserPlan, ToFree, userVars, taskVars
  <2> QED
    BY <1>8, <2>1, <2>2
<1>9. ASSUME NEW g \in Gifts, AdjustBalance(g - gifts)
      PROVE  TypeOK'
  BY <1>9 DEF AdjustBalance, PaymentOrdersAssumption, taskVars
<1>10. CASE UNCHANGED vars
  BY <1>10 DEF vars, userVars, taskVars
<1> QED
  BY <1>1, <1>2, <1>3, <1>5, <1>6, <1>7, <1>8, <1>9, <1>10
  DEF Next, Resolves, ProviderPaid, ConfirmPayment

\* Every reachable state is well formed: money and time are never negative, whatever is
\* confirmed, refunded or charged back when.
THEOREM TypeCorrect == Spec => []TypeOK
<1>1. Init => TypeOK
  BY InitType
<1>2. TypeOK /\ [Next]_vars => TypeOK'
  BY TypeStep, PaymentOrdersAssumption
<1> QED
  BY <1>1, <1>2, PTL DEF Spec

-----------------------------------------------------------------------------
(* What a step does to the orders *)

\* x is left alone, or given up.
GivenUp(x) == Confirmable(x) /\ order'[x].status = "cancelled"
LeftAlone(x) ==
    /\ order'[x].status = order[x].status \/ GivenUp(x)
    /\ StatusAside(order[x], order'[x])
OthersLeft(o) == \A x \in Orders \ {o} : LeftAlone(x)

Quiet ==
    /\ \A x \in Orders : LeftAlone(x)
    /\ UNCHANGED <<promo, short, setBack, unbooked>>
    /\ gifts' = gifts + (balance' - balance)

\* A paid order is set back to cancelled.
Lapsing(o) ==
    /\ Is(o, "paid") /\ order'[o].status = "cancelled"
    /\ invoice[o] = "creating" /\ invoice'[o] = "none"
    /\ StatusAside(order[o], order'[o])
    /\ \A x \in Orders \ {o} : order'[x] = order[x]
    /\ setBack' = setBack \cup {o} /\ unbooked' = unbooked + Worth(o)
    /\ UNCHANGED <<promo, balance, gifts, short>>

Opening(o) ==
    /\ Is(o, "none") /\ order'[o].status = "pending"
    /\ order'[o].refund = "no" /\ order'[o].ref = "no"
    /\ OthersLeft(o)
    /\ UNCHANGED <<promo, balance, gifts, short, setBack, unbooked>>

Delivered(o) ==
    /\ order'[o].kind = "plan"
    /\ WalletEnabled => ~CodeUsed(o)
    /\ promo' = IF order[o].promo THEN "used" ELSE promo
    /\ order[o].bal <= balance /\ balance' = balance - order[o].bal
Banked(o) ==
    /\ order'[o].kind = "topup"
    /\ promo' = promo
    /\ balance' = balance + order[o].money
Settling(o) ==
    /\ Confirmable(o) /\ order'[o].status = "paid"
    /\ order'[o].plan = order[o].plan
    /\ order'[o].money = order[o].money /\ order'[o].bal = order[o].bal
    /\ order'[o].promo = order[o].promo /\ order'[o].refund = order[o].refund
    /\ order'[o].ref = Reward(o)
    /\ \A x \in Orders \ {o} : order'[x] = order[x]
    /\ Delivered(o) \/ Banked(o)
    /\ MovesUnbooked(o)
    /\ UNCHANGED <<gifts, short, setBack>>

Buying(o) ==
    /\ Is(o, "none") /\ order'[o].status = "paid" /\ order'[o].kind = "plan"
    /\ order'[o].money = 0
    /\ order'[o].refund = "no" /\ order'[o].ref = "no"
    /\ order'[o].promo => promo = "attached"
    /\ promo' = IF order'[o].promo THEN "used" ELSE promo
    /\ order'[o].bal <= balance /\ balance' = balance - order'[o].bal
    /\ OthersLeft(o)
    /\ UNCHANGED <<gifts, short, setBack, unbooked>>

Refunding(o) ==
    /\ Is(o, "paid") /\ order'[o].status = "paid"
    /\ order'[o].kind = order[o].kind /\ order'[o].plan = order[o].plan
    /\ order'[o].money = order[o].money /\ order'[o].bal = order[o].bal
    /\ order'[o].promo = order[o].promo
    /\ \A x \in Orders \ {o} : order'[x] = order[x]
    /\ UNCHANGED <<promo, gifts, setBack>>
ToBalance(o) ==
    /\ order[o].kind = "plan" /\ order[o].refund = "no"
    /\ order'[o].refund = "balance" /\ order'[o].ref = order[o].ref
    /\ balance' = balance + order[o].money + order[o].bal
    /\ short' = short
    /\ MovesUnbooked(o)
ToPayer(o) ==
    /\ invoice[o] = "returned" /\ unbooked' = unbooked
    /\ order[o].refund # "provider" /\ order'[o].refund = "provider"
    /\ order'[o].ref = IF order[o].ref = "given" THEN "back" ELSE order[o].ref
    /\ IF order[o].kind = "topup" \/ order[o].refund = "balance"
       THEN \E taken \in 0..order[o].money :
                /\ taken <= balance /\ (taken = order[o].money \/ taken = balance)
                /\ balance' = balance - taken
                /\ short' = short + (order[o].money - taken)
       ELSE balance' = balance + order[o].bal /\ short' = short

Move ==
    \/ Quiet
    \/ \E o \in Orders :
        \/ Opening(o) \/ Settling(o) \/ Lapsing(o) \/ Buying(o)
        \/ Refunding(o) /\ (ToBalance(o) \/ ToPayer(o))

\* A step that leaves the orders and the balance alone is a quiet move.
LEMMA NothingMoves ==
    ASSUME TypeOK, UNCHANGED <<order, balance, promo, gifts, short, setBackVars>>
    PROVE  Quiet
BY DEF TypeOK, Quiet, LeftAlone, StatusAside, setBackVars

LEMMA CancellingMoves ==
    ASSUME TypeOK, NEW o \in Orders, Confirmable(o), order' = Cancelled(order, {o}),
           UNCHANGED <<balance, promo, gifts, short, setBack, unbooked>>
    PROVE  Quiet
<1>1. /\ order \in [Orders -> Order]
      /\ gifts' = gifts + (balance' - balance)
  BY DEF TypeOK
<1> QED
  BY <1>1, CancelledOrders DEF Quiet, LeftAlone, GivenUp

LEMMA OpeningMoves ==
    ASSUME PaymentOrdersAssumption, TypeOK, InvoicesFit, NEW o \in Orders, Opens(o)
    PROVE  Quiet \/ Opening(o) \/ Lapsing(o)
<1>1. order \in [Orders -> Order]
  BY DEF TypeOK
<1>2. CASE RequestManual(o)
  <2>1. PICK d \in Drafts : order' = Supersede([order EXCEPT ![o] = d], o)
    BY <1>2 DEF RequestManual
  <2> DEFINE opened == [order EXCEPT ![o] = d]
  <2>2. /\ opened \in [Orders -> Order] /\ opened[o] = d
        /\ \A x \in Orders \ {o} : opened[x] = order[x]
    BY <1>1, DraftType
  <2>3. order' = Supersede(opened, o)
    BY <2>1
  <2> HIDE DEF opened
  <2>4. /\ order'[o].status = "pending" /\ order'[o].refund = "no" /\ order'[o].ref = "no"
    BY <2>2, <2>3, DraftType, SupersededOrders DEF StatusAside
  <2>5. OthersLeft(o)
    BY <2>2, <2>3, SupersededOrders DEF OthersLeft, LeftAlone, GivenUp, Confirmable, Is
  <2> QED
    BY <1>2, <2>4, <2>5 DEF Opening, RequestManual, userVars, setBackVars
<1>3. CASE StartProviderOrder(o)
  <2>1. PICK d \in Drafts : order' = [order EXCEPT ![o] = d]
    BY <1>3 DEF StartProviderOrder
  <2>2. order'[o] = d /\ \A x \in Orders \ {o} : order'[x] = order[x]
    BY <1>1, <2>1
  <2> QED
    BY <1>3, <2>2, DraftType
    DEF Opening, OthersLeft, LeftAlone, StatusAside, StartProviderOrder, userVars,
        setBackVars
<1>4. CASE Created(o)
  <2>1. order' = Supersede(order, o)
    BY <1>4 DEF Created
  <2>2. \A x \in Orders : LeftAlone(x)
    BY <1>1, <2>1, SupersededOrders DEF LeftAlone, GivenUp, Confirmable, Is
  <2> QED
    BY <1>4, <2>2 DEF Quiet, Created, userVars, setBackVars, TypeOK
<1>5. CASE NotCreated(o)
  <2>1. /\ order' = Cancelled(order, {o})
        /\ invoice[o] = "creating" /\ invoice'[o] = "none"
        /\ UNCHANGED <<promo, balance, gifts, short>>
    BY <1>5 DEF NotCreated, userVars, TypeOK
  <2>2. CASE Is(o, "paid")
    <3>1. /\ order'[o].status = "cancelled" /\ StatusAside(order[o], order'[o])
          /\ \A x \in Orders \ {o} : order'[x] = order[x]
      BY <1>1, <2>1, CancelledOrders DEF Cancelled
    <3> QED
      BY <1>5, <2>1, <2>2, <3>1 DEF NotCreated, Lapsing
  <2>3. CASE ~Is(o, "paid")
    <3>1. Confirmable(o)
      <4>1. order[o].status \in Statuses
        BY DEF TypeOK, Order
      <4> QED
        BY <2>1, <2>3, <4>1 DEF InvoicesFit, Confirmable, Is, Statuses
    <3>2. setBack' = setBack /\ unbooked' = unbooked
      BY <1>5, <2>3 DEF NotCreated, Worth, TypeOK
    <3> QED
      BY <2>1, <3>1, <3>2, CancellingMoves
  <2> QED
    BY <2>2, <2>3
<1> QED
  BY <1>2, <1>3, <1>4, <1>5 DEF Opens

LEMMA SettlingMoves ==
    ASSUME PaymentOrdersAssumption, TypeOK, NEW o \in Orders, ConfirmOrderPaid(o)
    PROVE  Settling(o)
<1>1. CASE Deliver(o)
  <2>1. order' = Settled(o, "plan")
    BY <1>1 DEF Deliver
  <2>2. Delivered(o)
    BY <1>1, <2>1, SettledType DEF Delivered, Deliver, Undeliverable
  <2> QED
    BY <2>1, <2>2, SettledType DEF Settling, ConfirmOrderPaid
<1>2. CASE Bank(o)
  <2>1. order' = Settled(o, "topup")
    BY <1>2 DEF Bank
  <2>2. Banked(o)
    BY <1>2, <2>1, SettledType DEF Banked, Bank
  <2> QED
    BY <2>1, <2>2, SettledType DEF Settling, ConfirmOrderPaid
<1> QED
  BY <1>1, <1>2 DEF ConfirmOrderPaid

LEMMA BuyingMoves ==
    ASSUME PaymentOrdersAssumption, TypeOK, NEW o \in Orders, Buys(o)
    PROVE  Buying(o)
<1>1. Total \in Nat /\ Price \in Nat
  BY DEF PaymentOrdersAssumption, Total
<1>2. ASSUME NEW p \in Plans, NEW price \in Nat, NEW discounted \in BOOLEAN,
             Bought(o, p, price, discounted), discounted => Discounted
      PROVE  Buying(o)
  <2> DEFINE paid == PaidOrder(p, price, discounted)
             bought == [order EXCEPT ![o] = paid]
  <2>1. /\ paid.status = "paid" /\ paid.kind = "plan" /\ paid.money = 0
        /\ paid.refund = "no" /\ paid.ref = "no"
        /\ paid.promo = discounted /\ paid.bal = price
    BY DEF PaidOrder, NoOrder
  <2>2. /\ bought \in [Orders -> Order] /\ bought[o] = paid
        /\ \A x \in Orders \ {o} : bought[x] = order[x]
    BY BoughtOrders DEF TypeOK
  <2>3. order' = Supersede(bought, o)
    BY <1>2 DEF Bought
  <2> HIDE DEF paid, bought
  <2>4. /\ order'[o].status = paid.status /\ StatusAside(paid, order'[o])
    BY <2>2, <2>3, SupersededOrders
  <2>5. OthersLeft(o)
    BY <2>2, <2>3, SupersededOrders DEF OthersLeft, LeftAlone, GivenUp, Confirmable, Is
  <2> QED
    BY <1>2, <2>1, <2>4, <2>5 DEF Buying, StatusAside, Bought, Discounted, setBackVars
<1>3. ASSUME NEW p \in Plans, BuyPlanFromBalance(o, p)
      PROVE  Buying(o)
  <2>1. Discounted \in BOOLEAN /\ Bought(o, p, Total, Discounted)
    BY <1>3 DEF BuyPlanFromBalance, Discounted
  <2> QED
    BY <1>1, <1>2, <2>1
<1>4. CASE RenewFromBalance(o)
  BY <1>1, <1>2, <1>4 DEF RenewFromBalance
<1> QED
  BY <1>3, <1>4 DEF Buys

LEMMA RefundingMoves ==
    ASSUME PaymentOrdersAssumption, TypeOK, NEW o \in Orders, Refunds(o)
    PROVE  Quiet \/ (Refunding(o) /\ (ToBalance(o) \/ ToPayer(o)))
<1>1. order \in [Orders -> Order] /\ order[o] \in Order
  BY DEF TypeOK
<1>2. CASE RefundOrder(o)
  <2> DEFINE back == [order[o] EXCEPT !.refund = "balance"]
  <2>1. /\ back.status = order[o].status /\ back.kind = order[o].kind
        /\ back.plan = order[o].plan
        /\ back.money = order[o].money /\ back.bal = order[o].bal
        /\ back.promo = order[o].promo /\ back.ref = order[o].ref
        /\ back.refund = "balance"
    BY <1>1 DEF Order
  <2>2. order' = [order EXCEPT ![o] = back]
    BY <1>2 DEF RefundOrder
  <2> HIDE DEF back
  <2>3. order'[o] = back /\ \A x \in Orders \ {o} : order'[x] = order[x]
    BY <1>1, <2>2
  <2> QED
    BY <1>2, <2>1, <2>3 DEF RefundOrder, Refunding, ToBalance, Is
<1>3. ASSUME Is(o, "paid"), order[o].refund # "provider", ProviderRefundOrder(o),
             invoice[o] = "returned", UNCHANGED <<promo, gifts, setBack, unbooked>>
      PROVE  Refunding(o) /\ ToPayer(o)
  <2> DEFINE ref == IF order[o].ref = "given" THEN "back" ELSE order[o].ref
             back == [order[o] EXCEPT !.refund = "provider", !.ref = ref]
  <2>1. /\ back.status = order[o].status /\ back.kind = order[o].kind
        /\ back.plan = order[o].plan
        /\ back.money = order[o].money /\ back.bal = order[o].bal
        /\ back.promo = order[o].promo /\ back.ref = ref
        /\ back.refund = "provider"
    BY <1>1 DEF Order
  <2>2. order' = [order EXCEPT ![o] = back]
    BY <1>3 DEF ProviderRefundOrder
  <2> HIDE DEF back
  <2>3. order'[o] = back /\ \A x \in Orders \ {o} : order'[x] = order[x]
    BY <1>1, <2>2
  <2>4. Refunding(o)
    BY <1>3, <2>1, <2>3 DEF Refunding, Is
  <2>5. balance \in Nat /\ short \in Nat /\ order[o].money \in Nat /\ order[o].bal \in Nat
    BY <1>1 DEF TypeOK, Order
  <2>6. CASE order[o].kind = "topup" \/ order[o].refund = "balance"
    <3>1. PICK taken \in 0..order[o].money :
             /\ taken = Lesser(balance, order[o].money)
             /\ taken <= balance /\ (taken = order[o].money \/ taken = balance)
      BY <2>5 DEF Lesser
    <3>2. /\ balance' = balance - taken + 0
          /\ short' = short + (order[o].money - taken)
      BY <1>3, <2>6, <3>1 DEF ProviderRefundOrder
    <3>3. balance' = balance - taken
      BY <2>5, <3>2
    <3>4. \E t \in 0..order[o].money :
             /\ t <= balance /\ (t = order[o].money \/ t = balance)
             /\ balance' = balance - t
             /\ short' = short + (order[o].money - t)
      BY <3>1, <3>2, <3>3
    <3> QED
      BY <1>3, <2>1, <2>3, <2>4, <2>6, <3>4 DEF ToPayer
  <2>7. CASE ~(order[o].kind = "topup" \/ order[o].refund = "balance")
    <3>1. balance' = balance - 0 + order[o].bal /\ short' = short + 0
      BY <1>3, <2>7 DEF ProviderRefundOrder
    <3>2. balance' = balance + order[o].bal /\ short' = short
      BY <2>5, <3>1
    <3> QED
      BY <1>3, <2>1, <2>3, <2>4, <2>7, <3>2 DEF ToPayer
  <2> QED
    BY <2>6, <2>7
<1>4. CASE RefundedPaid(o)
  <2>1. CASE order[o].refund # "provider" /\ ProviderRefundOrder(o)
    BY <1>3, <1>4, <2>1 DEF RefundedPaid, setBackVars
  <2>2. CASE order[o].refund = "provider" /\ UNCHANGED <<order, balance, short, takeBack, due>>
    BY <1>4, <2>2, NothingMoves DEF RefundedPaid
  <2> QED
    BY <1>4, <2>1, <2>2 DEF RefundedPaid
<1>5. CASE RefundedUnpaid(o)
  BY <1>5, NothingMoves DEF RefundedUnpaid, userVars
<1>6. CASE RefundedCancels(o)
  BY <1>6, CancellingMoves, NothingMoves DEF RefundedCancels, Confirmable, Is, userVars,
     setBackVars
<1>7. CASE ShortenTerm(o) \/ EndTerm(o)
  BY <1>7, NothingMoves DEF ShortenTerm, EndTerm
<1> QED
  BY <1>2, <1>4, <1>5, <1>6, <1>7 DEF Refunds

\* Every step of the specification is a move.
LEMMA StepMoves ==
    ASSUME PaymentOrdersAssumption, TypeOK, InvoicesFit, [Next]_vars
    PROVE  Move
<1>1. ASSUME NEW o \in Orders, Opens(o)
      PROVE  Move
  BY <1>1, OpeningMoves DEF Move
<1>2. ASSUME NEW o \in Orders, ProviderPaid(o) \/ ConfirmPayment(o)
      PROVE  Move
  BY <1>2, SettlingMoves DEF Move, ProviderPaid, ConfirmPayment
<1>3. ASSUME NEW o \in Orders, CancelPaymentOrderIfPending(o)
      PROVE  Move
  BY <1>3, CancellingMoves
  DEF Move, CancelPaymentOrderIfPending, Confirmable, Is, userVars, setBackVars
<1>4. ASSUME NEW o \in Orders, Buys(o)
      PROVE  Move
  BY <1>4, BuyingMoves DEF Move
<1>5. ASSUME NEW o \in Orders, Refunds(o)
      PROVE  Move
  BY <1>5, RefundingMoves DEF Move
<1>6. ASSUME NEW o \in Orders, Pays(o) \/ Closes(o) \/ Returns(o)
      PROVE  Move
  BY <1>6, NothingMoves DEF Move, Pays, Closes, Returns, Invoice, userVars
<1>7. CASE DowngradeExpired \/ CancelUserPlan \/ Tick
  BY <1>7, NothingMoves DEF Move, DowngradeExpired, CancelUserPlan, Tick, userVars
<1>8. ASSUME NEW g \in Gifts, AdjustBalance(g - gifts)
      PROVE  Move
  <2>1. g \in Int /\ gifts \in Int /\ balance \in Nat
    BY DEF PaymentOrdersAssumption, TypeOK
  <2>2. gifts' = gifts + (balance' - balance)
    BY <1>8, <2>1 DEF AdjustBalance
  <2>3. Quiet
    BY <1>8, <2>2 DEF AdjustBalance, Quiet, LeftAlone, StatusAside, setBackVars
  <2> QED
    BY <2>3 DEF Move
<1>9. CASE UNCHANGED vars
  BY <1>9, NothingMoves DEF Move, vars, userVars
<1> QED
  BY <1>1, <1>2, <1>3, <1>4, <1>5, <1>6, <1>7, <1>8, <1>9 DEF Next, Resolves

-----------------------------------------------------------------------------
(* One discount per user *)

LEMMA DiscountStep ==
    ASSUME CodeIsSpent, DiscountOnce, Move
    PROVE  CodeIsSpent' /\ DiscountOnce'
<1>1. ASSUME NEW x, LeftAlone(x), AtDiscount(x)'
      PROVE  AtDiscount(x)
  BY <1>1 DEF LeftAlone, GivenUp, StatusAside, AtDiscount, Is
<1>2. CASE Quiet
  BY <1>1, <1>2 DEF Quiet, CodeIsSpent, DiscountOnce, AtDiscount
<1>3. ASSUME NEW o \in Orders, OthersLeft(o), ~AtDiscount(o)', promo' = promo
      PROVE  CodeIsSpent' /\ DiscountOnce'
  BY <1>1, <1>3 DEF OthersLeft, CodeIsSpent, DiscountOnce, AtDiscount
<1>10. ASSUME NEW o \in Orders, Lapsing(o)
       PROVE  CodeIsSpent' /\ DiscountOnce'
  <2>1. OthersLeft(o)
    BY <1>10 DEF Lapsing, OthersLeft, LeftAlone, StatusAside
  <2>2. ~AtDiscount(o)' /\ promo' = promo
    BY <1>10 DEF Lapsing, AtDiscount, Is
  <2> QED
    BY <1>3, <2>1, <2>2
<1>4. ASSUME NEW o \in Orders, OthersLeft(o), promo' = "used",
             WalletEnabled => promo # "used"
      PROVE  CodeIsSpent' /\ DiscountOnce'
  <2>1. WalletEnabled => \A x \in Orders : ~AtDiscount(x)
    BY <1>4 DEF CodeIsSpent
  <2> QED
    BY <1>1, <1>4, <2>1 DEF OthersLeft, CodeIsSpent, DiscountOnce, AtDiscount
<1>5. ASSUME NEW o \in Orders, \A x \in Orders \ {o} : order'[x] = order[x]
      PROVE  OthersLeft(o)
  BY <1>5 DEF OthersLeft, LeftAlone, StatusAside
<1>6. ASSUME NEW o \in Orders, Opening(o)
      PROVE  CodeIsSpent' /\ DiscountOnce'
  BY <1>3, <1>6 DEF Opening, AtDiscount, Is
<1>7. ASSUME NEW o \in Orders, Settling(o)
      PROVE  CodeIsSpent' /\ DiscountOnce'
  <2>1. OthersLeft(o)
    BY <1>5, <1>7 DEF Settling
  <2>2. CASE Banked(o)
    BY <1>3, <2>1, <2>2 DEF Banked, AtDiscount
  <2>3. CASE Delivered(o) /\ order[o].promo
    BY <1>4, <2>1, <2>3 DEF Delivered, CodeUsed
  <2>4. CASE Delivered(o) /\ ~order[o].promo
    BY <1>3, <1>7, <2>1, <2>4 DEF Delivered, Settling, AtDiscount
  <2> QED
    BY <1>7, <2>2, <2>3, <2>4 DEF Settling
<1>8. ASSUME NEW o \in Orders, Buying(o)
      PROVE  CodeIsSpent' /\ DiscountOnce'
  <2>1. CASE order'[o].promo
    BY <1>4, <1>8, <2>1 DEF Buying
  <2>2. CASE ~order'[o].promo
    BY <1>3, <1>8, <2>2 DEF Buying, AtDiscount
  <2> QED
    BY <2>1, <2>2
<1>9. ASSUME NEW o \in Orders, Refunding(o)
      PROVE  CodeIsSpent' /\ DiscountOnce'
  <2>1. \A x \in Orders : AtDiscount(x)' => AtDiscount(x)
    BY <1>1, <1>5, <1>9 DEF Refunding, OthersLeft, AtDiscount, Is
  <2> QED
    BY <1>9, <2>1 DEF Refunding, CodeIsSpent, DiscountOnce, AtDiscount
<1> QED
  BY <1>2, <1>6, <1>7, <1>8, <1>9, <1>10 DEF Move

-----------------------------------------------------------------------------
(* The invoices *)

\* How an invoice changes, and what that says of its order.
InvoiceMoves(x) ==
    \/ invoice'[x] = invoice[x]
    \/ Is(x, "none") /\ Is(x, "pending")' /\ invoice'[x] = "creating"
    \/ invoice[x] \in {"creating", "open", "captured"} /\ invoice'[x] # "creating"

LEMMA InvoiceStep ==
    ASSUME PaymentOrdersAssumption, TypeOK, [Next]_vars
    PROVE  \A x \in Orders : InvoiceMoves(x)
<1>1. ASSUME NEW o \in Orders, Opens(o)
      PROVE  \A x \in Orders : InvoiceMoves(x)
  <2>1. CASE StartProviderOrder(o)
    <3>1. PICK d \in Drafts : order' = [order EXCEPT ![o] = d]
      BY <2>1 DEF StartProviderOrder
    <3>2. d.status = "pending"
      BY DraftType
    <3>3. order'[o].status = "pending"
      BY <3>1, <3>2 DEF TypeOK
    <3> QED
      BY <2>1, <3>3 DEF StartProviderOrder, TypeOK, Is, InvoiceMoves
  <2>2. CASE RequestManual(o) \/ Created(o) \/ NotCreated(o)
    BY <2>2 DEF RequestManual, Created, NotCreated, TypeOK, InvoiceMoves
  <2> QED
    BY <1>1, <2>1, <2>2 DEF Opens
<1>2. ASSUME NEW o \in Orders, Pays(o) \/ Closes(o) \/ Returns(o)
      PROVE  \A x \in Orders : InvoiceMoves(x)
  BY <1>2 DEF Pays, Closes, Returns, Invoice, TypeOK, InvoiceMoves
<1>3. ASSUME NEW o \in Orders, Resolves(o) \/ Buys(o) \/ Refunds(o)
      PROVE  invoice' = invoice
  BY <1>3 DEF Resolves, ProviderPaid, ConfirmPayment, ConfirmOrderPaid,
              CancelPaymentOrderIfPending, Buys, BuyPlanFromBalance, RenewFromBalance,
              Bought, Refunds, RefundOrder, RefundedPaid, RefundedUnpaid, RefundedCancels,
              ShortenTerm, EndTerm
<1>4. ASSUME DowngradeExpired \/ CancelUserPlan \/ Tick
             \/ (\E g \in Gifts : AdjustBalance(g - gifts)) \/ UNCHANGED vars
      PROVE  invoice' = invoice
  BY <1>4 DEF DowngradeExpired, CancelUserPlan, Tick, AdjustBalance, vars
<1> QED
  BY <1>1, <1>2, <1>3, <1>4 DEF Next, InvoiceMoves

\* An order that is left alone keeps all but the way it waits.
LEMMA LeftAloneKeeps ==
    ASSUME NEW x \in Orders, LeftAlone(x)
    PROVE  /\ Is(x, "paid")' <=> Is(x, "paid")
           /\ Is(x, "none")' <=> Is(x, "none")
           /\ Confirmable(x)' <=> Confirmable(x)
           /\ StatusAside(order[x], order'[x])
BY DEF LeftAlone, GivenUp, Confirmable, Is

\* An order that has begun does not end, keeps its plan, and once refunded stays refunded;
\* a paid one stays paid unless it is set back.
LEMMA BegunKept ==
    ASSUME Move, NEW o \in Orders, ~Is(o, "none")
    PROVE  /\ ~Is(o, "none")' /\ order'[o].plan = order[o].plan
           /\ order[o].refund # "no" => order'[o].refund # "no"
           /\ Is(o, "paid") => Is(o, "paid")' \/ Lapsing(o)
<1> DEFINE Kept == /\ ~Is(o, "none")' /\ order'[o].plan = order[o].plan
                   /\ order[o].refund # "no" => order'[o].refund # "no"
                   /\ Is(o, "paid") => Is(o, "paid")' \/ Lapsing(o)
<1>1. LeftAlone(o) => Kept
  BY LeftAloneKeeps DEF StatusAside
<1>2. ASSUME NEW x \in Orders, x # o, OthersLeft(x) \/ order'[o] = order[o]
      PROVE  Kept
  BY <1>1, <1>2 DEF OthersLeft, Is
<1>3. CASE Quiet
  BY <1>1, <1>3 DEF Quiet
<1>4. ASSUME NEW x \in Orders, Opening(x) \/ Buying(x)
      PROVE  Kept
  BY <1>2, <1>4 DEF Opening, Buying, Is
<1>5. ASSUME NEW x \in Orders, Settling(x)
      PROVE  Kept
  BY <1>2, <1>5 DEF Settling, Is
<1>6. ASSUME NEW x \in Orders, Lapsing(x)
      PROVE  Kept
  BY <1>2, <1>6 DEF Lapsing, StatusAside, Is
<1>7. ASSUME NEW x \in Orders, Refunding(x), ToBalance(x) \/ ToPayer(x)
      PROVE  Kept
  BY <1>2, <1>7 DEF Refunding, ToBalance, ToPayer, Is
<1> QED
  BY <1>3, <1>4, <1>5, <1>6, <1>7 DEF Move

\* Only an order that lapses is set back, and none ceases to be.
LEMMA SetBackMoves ==
    ASSUME Move
    PROVE  /\ setBack \subseteq setBack'
           /\ \A x \in setBack' \ setBack : x \in Orders => Lapsing(x)
BY DEF Move, Quiet, Opening, Settling, Lapsing, Buying, Refunding

\* Only money that was captured and returned goes back to its payer.
LEMMA ReturnedMoves ==
    ASSUME InvoicesFit, Move, NEW x \in Orders, order'[x].refund = "provider"
    PROVE  invoice[x] = "returned"
<1>1. order[x].refund = "provider" => invoice[x] = "returned"
  BY DEF InvoicesFit
<1>2. LeftAlone(x) => order'[x].refund = order[x].refund
  BY DEF LeftAlone, StatusAside
<1>3. ASSUME NEW o \in Orders, x # o, OthersLeft(o) \/ order'[x] = order[x]
      PROVE  invoice[x] = "returned"
  BY <1>1, <1>2, <1>3 DEF OthersLeft
<1>4. CASE Quiet
  BY <1>1, <1>2, <1>4 DEF Quiet
<1>5. ASSUME NEW o \in Orders, Opening(o) \/ Buying(o)
      PROVE  invoice[x] = "returned"
  BY <1>3, <1>5 DEF Opening, Buying
<1>6. ASSUME NEW o \in Orders, Settling(o)
      PROVE  invoice[x] = "returned"
  BY <1>1, <1>3, <1>6 DEF Settling
<1>7. ASSUME NEW o \in Orders, Lapsing(o)
      PROVE  invoice[x] = "returned"
  BY <1>1, <1>3, <1>7 DEF Lapsing, StatusAside
<1>8. ASSUME NEW o \in Orders, Refunding(o), ToBalance(o) \/ ToPayer(o)
      PROVE  invoice[x] = "returned"
  BY <1>3, <1>8 DEF Refunding, ToBalance, ToPayer
<1> QED
  BY <1>4, <1>5, <1>6, <1>7, <1>8 DEF Move

LEMMA InvoicesFitStep ==
    ASSUME PaymentOrdersAssumption, TypeOK, InvoicesFit, [Next]_vars
    PROVE  InvoicesFit'
<1>1. Move /\ \A x \in Orders : InvoiceMoves(x)
  BY StepMoves, InvoiceStep
<1> SUFFICES ASSUME NEW x \in Orders
             PROVE  /\ invoice'[x] = "creating" => ~Is(x, "none")'
                    /\ x \in setBack' => ~Is(x, "none")' /\ invoice'[x] = "none"
                    /\ order'[x].refund = "provider"
                          => Is(x, "paid")' /\ invoice'[x] = "returned"
  BY DEF InvoicesFit
<1>2. ~Is(x, "none") => ~Is(x, "none")'
  BY <1>1, BegunKept
<1>3. ASSUME invoice'[x] = "creating"
      PROVE  ~Is(x, "none")'
  BY <1>1, <1>2, <1>3 DEF InvoiceMoves, InvoicesFit, Is
<1>4. ASSUME x \in setBack'
      PROVE  ~Is(x, "none")' /\ invoice'[x] = "none"
  <2>1. CASE x \in setBack
    BY <1>1, <1>2, <2>1 DEF InvoiceMoves, InvoicesFit
  <2>2. CASE x \notin setBack
    <3>1. Lapsing(x)
      BY <1>1, <1>4, <2>2, SetBackMoves
    <3> QED
      BY <3>1 DEF Lapsing, Is
  <2> QED
    BY <2>1, <2>2
<1>5. ASSUME order'[x].refund = "provider"
      PROVE  Is(x, "paid")' /\ invoice'[x] = "returned"
  <2>1. invoice[x] = "returned"
    BY <1>1, <1>5, ReturnedMoves
  <2>2. order[x].refund = "provider" \/ \E o \in Orders : Refunding(o) /\ ToPayer(o) /\ x = o
    <3>1. LeftAlone(x) => order'[x].refund = order[x].refund
      BY DEF LeftAlone, StatusAside
    <3>2. ASSUME NEW o \in Orders, x # o, OthersLeft(o) \/ order'[x] = order[x]
          PROVE  order'[x].refund = order[x].refund
      BY <3>1, <3>2 DEF OthersLeft
    <3>3. CASE Quiet
      BY <1>5, <3>1, <3>3 DEF Quiet
    <3>4. ASSUME NEW o \in Orders, Opening(o) \/ Buying(o) \/ Settling(o) \/ Lapsing(o)
          PROVE  order[x].refund = "provider"
      BY <1>5, <3>2, <3>4 DEF Opening, Buying, Settling, Lapsing, StatusAside
    <3>5. ASSUME NEW o \in Orders, Refunding(o), ToBalance(o) \/ ToPayer(o)
          PROVE  order[x].refund = "provider" \/ (ToPayer(o) /\ x = o)
      BY <1>5, <3>2, <3>5 DEF Refunding, ToBalance
    <3> QED
      BY <1>1, <3>3, <3>4, <3>5 DEF Move
  <2>3. Is(x, "paid")
    BY <2>2 DEF InvoicesFit, Refunding
  <2>4. Is(x, "paid")'
    BY <1>1, <2>1, <2>3, BegunKept DEF Lapsing, Is
  <2> QED
    BY <1>1, <2>1, <2>3, <2>4 DEF InvoiceMoves, Is
<1> QED
  BY <1>3, <1>4, <1>5

\* Of all the checkouts that carried the code - superseded, swept, paid late or paid twice,
\* confirmed by hand while the invoice is created - one at most buys its plan for less
\* (ConfirmOrder's check of the code under the lock, supersedePromoOrders).
THEOREM DiscountOnceHolds == Spec => []DiscountOnce
<1> DEFINE Inv == TypeOK /\ InvoicesFit /\ CodeIsSpent /\ DiscountOnce
<1>1. Init => Inv
  <2>1. Init => TypeOK
    BY InitType
  <2>3. Init => InvoicesFit
    BY DEF Init, NoOrder, InvoicesFit, Is
  <2>2. Init => CodeIsSpent /\ DiscountOnce
    BY DEF Init, NoOrder, CodeIsSpent, DiscountOnce, AtDiscount, Is
  <2> QED
    BY <2>1, <2>2, <2>3
<1>2. Inv /\ [Next]_vars => Inv'
  BY TypeStep, StepMoves, InvoicesFitStep, DiscountStep, PaymentOrdersAssumption
<1>3. Inv => DiscountOnce
  OBVIOUS
<1> QED
  BY <1>1, <1>2, <1>3, PTL DEF Spec

-----------------------------------------------------------------------------
(* Rewards *)

OrdersInv == TypeOK /\ InvoicesFit /\ UnpaidIsPlain /\ RewardIsForMoney /\ RewardOnce

LEMMA OrdersInvStep ==
    ASSUME PaymentOrdersAssumption, OrdersInv, [Next]_vars
    PROVE  OrdersInv'
<1>1. TypeOK' /\ Move /\ InvoicesFit'
  BY TypeStep, StepMoves, InvoicesFitStep DEF OrdersInv
<1>2. setBack \subseteq setBack'
  BY <1>1, SetBackMoves
<1>3. ASSUME NEW o \in Orders, \A x \in Orders \ {o} : order'[x] = order[x]
      PROVE  OthersLeft(o)
  BY <1>3 DEF OthersLeft, LeftAlone, StatusAside
<1>4. InvoicesFit /\ UnpaidIsPlain /\ RewardIsForMoney /\ RewardOnce
  BY DEF OrdersInv
<1>5. ASSUME NEW x \in Orders, LeftAlone(x)
      PROVE  /\ Is(x, "paid")' <=> Is(x, "paid")
             /\ Confirmable(x)' <=> Confirmable(x)
             /\ BroughtMoney(x)' <=> BroughtMoney(x)
             /\ order'[x].refund = order[x].refund /\ order'[x].ref = order[x].ref
  BY <1>4, <1>5, LeftAloneKeeps DEF StatusAside, BroughtMoney
<1>6. ASSUME NEW x \in Orders, x \in setBack'
      PROVE  order'[x].refund # "provider"
  BY <1>1, <1>6 DEF InvoicesFit
<1>7. UnpaidIsPlain' /\ RewardIsForMoney' /\ RewardOnce'
  <2>1. CASE Quiet
    BY <1>4, <1>5, <2>1 DEF Quiet, UnpaidIsPlain, RewardIsForMoney, RewardOnce
  <2>2. ASSUME NEW o \in Orders, OthersLeft(o), order'[o].ref = "no", order'[o].refund = "no"
        PROVE  UnpaidIsPlain' /\ RewardIsForMoney' /\ RewardOnce'
    BY <1>2, <1>4, <1>5, <2>2 DEF OthersLeft, UnpaidIsPlain, RewardIsForMoney, RewardOnce
  <2>3. ASSUME NEW o \in Orders, o \in setBack', OthersLeft(o)
        PROVE  UnpaidIsPlain' /\ RewardIsForMoney' /\ RewardOnce'
    BY <1>2, <1>4, <1>5, <1>6, <2>3 DEF OthersLeft, UnpaidIsPlain, RewardIsForMoney, RewardOnce
  <2>4. ASSUME NEW o \in Orders, Lapsing(o)
        PROVE  UnpaidIsPlain' /\ RewardIsForMoney' /\ RewardOnce'
    BY <1>3, <2>3, <2>4 DEF Lapsing
  <2>5. ASSUME NEW o \in Orders, Settling(o)
        PROVE  UnpaidIsPlain' /\ RewardIsForMoney' /\ RewardOnce'
    <3>1. OthersLeft(o)
      BY <1>3, <2>5 DEF Settling
    <3>2. CASE o \in setBack
      BY <1>2, <2>3, <3>1, <3>2
    <3>3. CASE o \notin setBack
      <4>1. ~Is(o, "paid") /\ order[o].refund = "no" /\ order[o].ref = "no"
        BY <1>4, <2>5, <3>3 DEF Settling, Confirmable, UnpaidIsPlain, Is
      <4>2. CASE ~Rewards(o)
        BY <2>2, <2>5, <3>1, <4>1, <4>2 DEF Settling, Reward
      <4>3. CASE Rewards(o)
        <5>1. /\ order'[o].ref = "given" /\ order'[o].refund = "no" /\ order'[o].money > 0
              /\ order'[o].status = "paid"
          BY <2>5, <4>1, <4>3 DEF Settling, Reward, Rewards
        <5>2. FirstOnly => \A x \in (Orders \ setBack) \ {o} : order[x].ref = "no"
          BY <1>4, <4>3 DEF Rewards, RewardIsForMoney
        <5>3. UnpaidIsPlain' /\ RewardIsForMoney'
          BY <1>2, <1>4, <1>5, <3>1, <5>1
          DEF OthersLeft, UnpaidIsPlain, RewardIsForMoney, BroughtMoney, Is
        <5>4. RewardOnce'
          BY <1>2, <1>4, <1>5, <3>1, <5>1, <5>2 DEF OthersLeft, RewardOnce
        <5> QED
          BY <5>3, <5>4
      <4> QED
        BY <4>2, <4>3
    <3> QED
      BY <3>2, <3>3
  <2>6. ASSUME NEW o \in Orders, Refunding(o), ToBalance(o) \/ ToPayer(o)
        PROVE  UnpaidIsPlain' /\ RewardIsForMoney' /\ RewardOnce'
    <3>1. OthersLeft(o)
      BY <1>3, <2>6 DEF Refunding
    <3>2. /\ Is(o, "paid") /\ Is(o, "paid")' /\ order'[o].money = order[o].money
          /\ order'[o].ref # "no" => order[o].ref # "no"
          /\ order'[o].refund = "provider" => order'[o].ref # "given"
      BY <2>6 DEF Refunding, ToBalance, ToPayer, Is
    <3>3. \A x \in Orders : order'[x].ref # "no" => order[x].ref # "no"
      BY <1>5, <3>1, <3>2 DEF OthersLeft
    <3>4. UnpaidIsPlain' /\ RewardIsForMoney'
      BY <1>2, <1>4, <1>5, <3>1, <3>2
      DEF OthersLeft, UnpaidIsPlain, RewardIsForMoney, BroughtMoney
    <3>5. RewardOnce'
      BY <1>2, <1>4, <1>5, <3>1, <3>2, <3>3 DEF OthersLeft, RewardOnce
    <3> QED
      BY <3>4, <3>5
  <2> QED
    BY <1>1, <2>1, <2>2, <2>4, <2>5, <2>6 DEF Move, Opening, Buying
<1> QED
  BY <1>1, <1>7 DEF OrdersInv

LEMMA OrdersInvHolds == Spec => []OrdersInv
<1>1. Init => OrdersInv
  <2>1. Init => TypeOK
    BY InitType
  <2>2. Init => \A o \in Orders : /\ invoice[o] = "none" /\ ~Is(o, "paid") /\ o \notin setBack
                                  /\ order[o].refund = "no" /\ order[o].ref = "no"
    BY DEF Init, NoOrder, Is
  <2>3. Init => InvoicesFit /\ UnpaidIsPlain /\ RewardIsForMoney /\ RewardOnce
    BY <2>2 DEF InvoicesFit, UnpaidIsPlain, RewardIsForMoney, RewardOnce
  <2> QED
    BY <2>1, <2>3 DEF OrdersInv
<1>2. OrdersInv /\ [Next]_vars => OrdersInv'
  BY OrdersInvStep, PaymentOrdersAssumption
<1> QED
  BY <1>1, <1>2, PTL DEF Spec

\* No webhook, poll, sweep, superseding or refund puts a paid order back among those a
\* payment can claim: the one step that does is the end of a checkout whose invoice could
\* not be created, of an order confirmed by hand meanwhile (markPaidIfOpenOn,
\* CancelPaymentOrderIfPending, handleProviderWebhook, startProviderOrder).
THEOREM PaidOrdersStayPaid == Spec => PaidStaysPaid
<1> DEFINE Stays == \A o \in Orders : Is(o, "paid") /\ order'[o].status # "paid" =>
                        /\ invoice[o] = "creating" /\ invoice'[o] = "none"
                        /\ o \in setBack' \ setBack
<1>1. ASSUME OrdersInv, [Next]_vars PROVE Stays
  <2> SUFFICES ASSUME NEW o \in Orders, Is(o, "paid"), order'[o].status # "paid"
               PROVE  /\ invoice[o] = "creating" /\ invoice'[o] = "none"
                      /\ o \in setBack' \ setBack
    OBVIOUS
  <2>1. Move
    BY <1>1, StepMoves, PaymentOrdersAssumption DEF OrdersInv
  <2>2. Lapsing(o)
    BY <2>1, BegunKept DEF Is
  <2> QED
    BY <1>1, <2>2 DEF Lapsing, OrdersInv, InvoicesFit
<1>2. OrdersInv /\ [Next]_vars => [Stays]_vars
  BY <1>1
<1>3. Spec => []OrdersInv
  BY OrdersInvHolds
<1> QED
  BY <1>2, <1>3, PTL DEF Spec, PaidStaysPaid

\* The referrer is rewarded at most once under "first only", by orders that were not set
\* back, however the orders of the referred user are paid, cancelled and refunded, and
\* keeps nothing for returned money (rewardReferrer, ProviderRefundOrder).
THEOREM RewardGivenOnce == Spec => []RewardOnce
<1>1. OrdersInv => RewardOnce
  BY DEF OrdersInv
<1>2. Spec => []OrdersInv
  BY OrdersInvHolds
<1> QED
  BY <1>1, <1>2, PTL

-----------------------------------------------------------------------------
(* The term and what is paid for *)

Shortening == {o \in Orders : takeBack[o] = "shorten"}
OwedBack == {o \in Shortening : order[o].plan = plan}
TicksOf(o) == {tick \in due : tick.by = o}

\* The order is paid, or was when it was set back.
WasPaid(o) == Is(o, "paid") \/ o \in setBack

\* A term is only taken back for an order that was refunded.
TakenBackIsRefunded ==
    \A o \in Orders : takeBack[o] # "no" => WasPaid(o) /\ order[o].refund # "no"

\* Every tick has a turn of its own and was bought by an order that was paid, for the plan
\* the user has, and no order has more of them than it bought, unless it was set back and
\* bought twice.
TurnsDiffer == \A a, b \in due : a.at = b.at => a = b
DueIsPaid ==
    /\ \A tick \in due : WasPaid(tick.by)
    /\ plan \in Plans => \A tick \in due : order[tick.by].plan = plan
OnePeriodEach == \A o \in Orders \ setBack : Cardinality(TicksOf(o)) <= Period

\* The term is paid for, but for the periods that are still to be taken back.
Covered == plan \in Plans => exp - now <= Cardinality(due) + Period * Cardinality(OwedBack)

TermInv ==
    /\ IsFiniteSet(Shortening)
    /\ TakenBackIsRefunded /\ TurnsDiffer /\ DueIsPaid /\ OnePeriodEach /\ Covered

\* What a step does to the term.
Granting(o) ==
    /\ Confirmable(o) \/ Is(o, "none")
    /\ Is(o, "paid")' /\ order'[o].plan = plan'
    /\ Grant(o, plan')
    /\ UNCHANGED <<now, takeBack>>
Withdrawing(o) ==
    /\ Is(o, "paid") /\ order[o].refund = "no" /\ order'[o].refund # "no"
    /\ WithdrawTerm(o)
    /\ UNCHANGED <<now, plan, exp>>
Ending ==
    /\ ToFree /\ now' = now
    /\ \A o \in Orders : takeBack'[o] \in {takeBack[o], "no"}
TermKept == UNCHANGED <<now, plan, exp, due, takeBack>>

TermMove ==
    \/ TermKept \/ Ending \/ Tick
    \/ \E o \in Orders : Granting(o) \/ Withdrawing(o) \/ ShortenTerm(o)

LEMMA StepMovesTerm ==
    ASSUME PaymentOrdersAssumption, TypeOK, [Next]_vars
    PROVE  TermMove
<1>1. ASSUME NEW o \in Orders, Opens(o) \/ CancelPaymentOrderIfPending(o)
      PROVE  TermKept
  BY <1>1 DEF Opens, RequestManual, StartProviderOrder, Created, NotCreated, TermKept,
              CancelPaymentOrderIfPending, userVars, taskVars
<1>2. ASSUME NEW o \in Orders, ConfirmOrderPaid(o)
      PROVE  TermKept \/ Granting(o)
  <2>1. CASE Deliver(o)
    <3>1. /\ Is(o, "paid")' /\ order'[o].plan = order[o].plan
      BY <2>1, SettledType DEF Deliver, Is
    <3>2. plan' = order[o].plan /\ Grant(o, order[o].plan)
      BY <2>1 DEF Deliver, Grant
    <3> QED
      BY <1>2, <3>1, <3>2 DEF Granting, ConfirmOrderPaid, taskVars
  <2>2. CASE Bank(o)
    BY <1>2, <2>2 DEF Bank, ConfirmOrderPaid, TermKept, taskVars
  <2> QED
    BY <1>2, <2>1, <2>2 DEF ConfirmOrderPaid
<1>3. ASSUME NEW o \in Orders, NEW p \in Plans, NEW price \in Nat,
             NEW discounted \in BOOLEAN, Bought(o, p, price, discounted)
      PROVE  Granting(o)
  <2> DEFINE paid == PaidOrder(p, price, discounted)
             bought == [order EXCEPT ![o] = paid]
  <2>1. paid.status = "paid" /\ paid.plan = p
    BY DEF PaidOrder, NoOrder
  <2>2. bought \in [Orders -> Order] /\ bought[o] = paid
    BY BoughtOrders DEF TypeOK
  <2>3. order' = Supersede(bought, o)
    BY <1>3 DEF Bought
  <2> HIDE DEF paid, bought
  <2>4. order'[o].status = "paid" /\ order'[o].plan = p
    BY <2>1, <2>2, <2>3, SupersededOrders DEF StatusAside
  <2>5. plan' = p /\ Grant(o, p)
    BY <1>3 DEF Bought, Grant
  <2> QED
    BY <1>3, <2>4, <2>5 DEF Granting, Bought, Is, taskVars
<1>4. ASSUME NEW o \in Orders, Buys(o)
      PROVE  Granting(o)
  <2>1. Total \in Nat /\ Price \in Nat /\ Discounted \in BOOLEAN
    BY DEF PaymentOrdersAssumption, Total, Discounted
  <2> QED
    BY <1>3, <1>4, <2>1 DEF Buys, BuyPlanFromBalance, RenewFromBalance
<1>5. ASSUME NEW o \in Orders, Refunds(o)
      PROVE  TermKept \/ Withdrawing(o) \/ ShortenTerm(o) \/ Ending
  <2>1. order \in [Orders -> Order] /\ order[o] \in Order
    BY DEF TypeOK
  <2>2. CASE RefundOrder(o)
    <3>1. order' = [order EXCEPT ![o] = [order[o] EXCEPT !.refund = "balance"]]
      BY <2>2 DEF RefundOrder
    <3>2. [order[o] EXCEPT !.refund = "balance"].refund = "balance"
      BY <2>1 DEF Order
    <3>3. order'[o].refund = "balance"
      BY <2>1, <3>1, <3>2
    <3> QED
      BY <2>2, <3>3 DEF RefundOrder, TermKept, Withdrawing
  <2>3. CASE RefundedPaid(o)
    <3>1. CASE order[o].refund # "provider" /\ ProviderRefundOrder(o)
      <4>1. order'[o].refund = "provider"
        BY <2>1, <3>1 DEF ProviderRefundOrder, Order
      <4>2. (UNCHANGED <<takeBack, due>>) \/ (WithdrawTerm(o) /\ order[o].refund # "balance")
        BY <3>1 DEF ProviderRefundOrder
      <4>3. order[o].refund # "balance" => order[o].refund = "no"
        BY <2>1, <3>1 DEF Order
      <4> QED
        BY <2>3, <4>1, <4>2, <4>3 DEF RefundedPaid, TermKept, Withdrawing
    <3>2. CASE order[o].refund = "provider" /\ UNCHANGED <<order, balance, short, takeBack, due>>
      BY <2>3, <3>2 DEF RefundedPaid, TermKept
    <3> QED
      BY <2>3, <3>1, <3>2 DEF RefundedPaid
  <2>4. CASE RefundedUnpaid(o) \/ RefundedCancels(o)
    BY <2>4 DEF RefundedUnpaid, RefundedCancels, TermKept, userVars
  <2>5. CASE EndTerm(o)
    BY <2>5 DEF EndTerm, Ending, TypeOK
  <2> QED
    BY <1>5, <2>2, <2>3, <2>4, <2>5 DEF Refunds
<1>6. ASSUME NEW o \in Orders, Pays(o) \/ Closes(o) \/ Returns(o)
      PROVE  TermKept
  BY <1>6 DEF Pays, Closes, Returns, Invoice, TermKept, userVars, taskVars
<1>7. CASE DowngradeExpired \/ CancelUserPlan
  BY <1>7 DEF TermMove, DowngradeExpired, CancelUserPlan, Ending, TypeOK, taskVars
<1>8. ASSUME NEW g \in Gifts, AdjustBalance(g - gifts)
      PROVE  TermKept
  BY <1>8 DEF AdjustBalance, TermKept, taskVars
<1>9. CASE UNCHANGED vars
  BY <1>9 DEF TermMove, TermKept, vars, userVars, taskVars
<1> QED
  BY <1>1, <1>2, <1>4, <1>5, <1>6, <1>7, <1>8, <1>9
  DEF Next, Resolves, ProviderPaid, ConfirmPayment, TermMove

\* An order that was paid remains one, for the same plan.
LEMMA WasPaidKept ==
    ASSUME PaymentOrdersAssumption, OrdersInv, [Next]_vars, NEW o \in Orders, WasPaid(o)
    PROVE  /\ WasPaid(o)' /\ order'[o].plan = order[o].plan
           /\ order[o].refund # "no" => order'[o].refund # "no"
<1>1. Move /\ InvoicesFit
  BY StepMoves DEF OrdersInv
<1>2. ~Is(o, "none")
  BY <1>1 DEF WasPaid, InvoicesFit, Is
<1>3. setBack \subseteq setBack' /\ (Lapsing(o) => o \in setBack')
  BY <1>1, SetBackMoves DEF Lapsing
<1> QED
  BY <1>1, <1>2, <1>3, BegunKept DEF WasPaid

\* How periods multiply.
LEMMA Periods ==
    ASSUME PaymentOrdersAssumption, NEW n \in Nat
    PROVE  Period \in Nat /\ Period * n \in Nat /\ Period * (n + 1) = Period * n + Period
BY DEF PaymentOrdersAssumption

LEMMA OwedType ==
    ASSUME PaymentOrdersAssumption, TypeOK, TermInv
    PROVE  /\ IsFiniteSet(OwedBack) /\ Cardinality(OwedBack) \in Nat
           /\ IsFiniteSet(due) /\ Cardinality(due) \in Nat
           /\ \A o \in Orders : IsFiniteSet(TicksOf(o)) /\ Cardinality(TicksOf(o)) \in Nat
           /\ now \in Nat /\ exp \in Nat /\ Period \in Nat
<1>1. OwedBack \in SUBSET Shortening /\ \A o \in Orders : TicksOf(o) \in SUBSET due
  BY DEF OwedBack, TicksOf
<1>2. IsFiniteSet(OwedBack) /\ IsFiniteSet(due) /\ \A o \in Orders : IsFiniteSet(TicksOf(o))
  BY <1>1, FS_Subset DEF TypeOK, TermInv
<1> QED
  BY <1>2, FS_CardinalityType DEF TypeOK, PaymentOrdersAssumption

\* Fewer ticks keep their turns, their payers and their number per order.
LEMMA FewerTicks ==
    ASSUME PaymentOrdersAssumption, OrdersInv, TermInv, [Next]_vars,
           due' \subseteq due, plan' = plan
    PROVE  (TurnsDiffer /\ DueIsPaid /\ OnePeriodEach)'
<1>1. TypeOK'
  BY TypeStep DEF OrdersInv
<1>2. TurnsDiffer'
  BY DEF TermInv, TurnsDiffer
<1>3. DueIsPaid'
  <2>1. \A tick \in due : tick.by \in Orders /\ WasPaid(tick.by)
    BY DEF TermInv, DueIsPaid, OrdersInv, TypeOK
  <2>2. \A tick \in due : WasPaid(tick.by)' /\ order'[tick.by].plan = order[tick.by].plan
    BY <2>1, WasPaidKept
  <2> QED
    BY <2>2 DEF TermInv, DueIsPaid
<1>4. OnePeriodEach'
  <2> SUFFICES ASSUME NEW o \in Orders \ setBack PROVE Cardinality(TicksOf(o)') <= Period
    BY SetBackMoves, StepMoves DEF OnePeriodEach, OrdersInv
  <2>1. TicksOf(o)' \in SUBSET TicksOf(o)
    BY DEF TicksOf
  <2>2. IsFiniteSet(TicksOf(o)) /\ Cardinality(TicksOf(o)) \in Nat /\ Period \in Nat
    BY OwedType DEF OrdersInv
  <2>3. Cardinality(TicksOf(o)') \in Nat /\ Cardinality(TicksOf(o)') <= Cardinality(TicksOf(o))
    BY <2>1, <2>2, FS_Subset, FS_CardinalityType
  <2> QED
    BY <2>2, <2>3 DEF TermInv, OnePeriodEach
<1> QED
  BY <1>2, <1>3, <1>4

\* What only refunds and their ends change.
LEMMA RefundedKept ==
    ASSUME PaymentOrdersAssumption, OrdersInv, TermInv, [Next]_vars,
           NEW o \in Orders, takeBack'[o] # "no" => takeBack[o] # "no"
    PROVE  takeBack'[o] # "no" => WasPaid(o)' /\ order'[o].refund # "no"
BY WasPaidKept DEF TermInv, TakenBackIsRefunded

\* The periods owed are owed by the same orders as long as the user keeps the plan.
LEMMA OwedKept ==
    ASSUME PaymentOrdersAssumption, OrdersInv, TermInv, [Next]_vars, plan' = plan
    PROVE  OwedBack' = {o \in Shortening' : order[o].plan = plan /\ takeBack[o] # "no"}
                \cup {o \in Shortening' : order'[o].plan = plan /\ takeBack[o] = "no"}
<1>1. \A o \in Orders : takeBack[o] # "no" => order'[o].plan = order[o].plan
  BY WasPaidKept DEF TermInv, TakenBackIsRefunded
<1> QED
  BY <1>1 DEF OwedBack, Shortening

LEMMA TermKeptStep ==
    ASSUME PaymentOrdersAssumption, OrdersInv, TermInv, [Next]_vars, TermKept
    PROVE  TermInv'
<1>1. (TurnsDiffer /\ DueIsPaid /\ OnePeriodEach)'
  BY FewerTicks DEF TermKept
<1>2. TakenBackIsRefunded'
  BY RefundedKept DEF TakenBackIsRefunded, TermKept
<1>3. Shortening' = Shortening
  BY DEF TermKept, Shortening
<1>4. OwedBack' = OwedBack
  BY <1>3, OwedKept DEF OwedBack, Shortening, TermKept
<1> QED
  BY <1>1, <1>2, <1>3, <1>4 DEF TermInv, Covered, TermKept

LEMMA EndingStep ==
    ASSUME PaymentOrdersAssumption, OrdersInv, TermInv, [Next]_vars, Ending
    PROVE  TermInv'
<1>1. plan' \notin Plans /\ due' = {}
  BY DEF PaymentOrdersAssumption, Ending, ToFree
<1>2. TakenBackIsRefunded'
  BY RefundedKept DEF TakenBackIsRefunded, Ending
<1>3. IsFiniteSet(Shortening')
  <2>1. Shortening' \in SUBSET Shortening
    BY DEF Shortening, Ending
  <2> QED
    BY <2>1, FS_Subset DEF TermInv
<1>4. OnePeriodEach'
  <2>1. \A o \in Orders : TicksOf(o)' = {}
    BY <1>1 DEF TicksOf
  <2>2. Cardinality({}) = 0 /\ 0 <= Period
    BY FS_EmptySet DEF PaymentOrdersAssumption
  <2> QED
    BY <2>1, <2>2 DEF OnePeriodEach
<1> QED
  BY <1>1, <1>2, <1>3, <1>4 DEF TermInv, TurnsDiffer, DueIsPaid, Covered

LEMMA TickStep ==
    ASSUME PaymentOrdersAssumption, OrdersInv, TermInv, [Next]_vars, Tick
    PROVE  TermInv'
<1> DEFINE first == {tick \in due : ~ \E earlier \in due : earlier.at < tick.at}
<1>1. due' = due \ first /\ first \subseteq due
  BY DEF Tick
<1>2. (TurnsDiffer /\ DueIsPaid /\ OnePeriodEach)'
  BY <1>1, FewerTicks DEF Tick, userVars
<1>3. TakenBackIsRefunded' /\ Shortening' = Shortening /\ OwedBack' = OwedBack
  BY DEF TermInv, TakenBackIsRefunded, WasPaid, Shortening, OwedBack, Is, Tick, userVars,
         taskVars, setBackVars
<1>4. \A a, b \in first : a = b
  BY DEF TermInv, TurnsDiffer, OrdersInv, TypeOK
<1>5. Cardinality(due') \in Nat /\ Cardinality(due) <= Cardinality(due') + 1
  <2>1. IsFiniteSet(due) /\ Cardinality(due) \in Nat
    BY OwedType DEF OrdersInv
  <2>2. CASE first = {}
    <3>1. due' = due
      BY <1>1, <2>2
    <3> QED
      BY <2>1, <3>1
  <2>3. ASSUME NEW tick \in first PROVE Cardinality(due) = Cardinality(due') + 1 /\ Cardinality(due') \in Nat
    <3>1. due' = due \ {tick} /\ tick \in due
      BY <1>1, <1>4, <2>3
    <3>2. IsFiniteSet(due') /\ Cardinality(due') = Cardinality(due) - 1
      BY <2>1, <3>1, FS_RemoveElement
    <3>3. Cardinality(due') \in Nat
      BY <3>2, FS_CardinalityType
    <3> QED
      BY <2>1, <3>2, <3>3
  <2> QED
    BY <2>2, <2>3
<1>6. Covered'
  <2>1. /\ now' = now + 1 /\ exp' = exp /\ plan' = plan
        /\ now \in Nat /\ exp \in Nat /\ Cardinality(due) \in Nat
    BY OwedType DEF Tick, userVars, OrdersInv
  <2>2. Period * Cardinality(OwedBack) \in Nat
    BY OwedType, Periods DEF OrdersInv
  <2> HIDE DEF first
  <2> QED
    BY <1>3, <1>5, <2>1, <2>2 DEF TermInv, Covered
<1> QED
  BY <1>2, <1>3, <1>6 DEF TermInv

LEMMA GrantingStep ==
    ASSUME PaymentOrdersAssumption, OrdersInv, TermInv, [Next]_vars,
           NEW o \in Orders, Granting(o)
    PROVE  TermInv'
<1> DEFINE kept == IF ActivePaidPlan = plan' THEN due ELSE {}
           bought == WithPeriod(kept, o) \ kept
<1>1. TypeOK /\ ~Is(o, "paid") /\ kept \in SUBSET due /\ due' = WithPeriod(kept, o)
  BY DEF OrdersInv, Granting, Grant, Confirmable, Is
<1> HIDE DEF kept
<1>2. /\ due' = kept \cup bought
      /\ \A tick \in bought : tick.by = o /\ \A before \in kept : before.at < tick.at
      /\ \A a, b \in bought : a.at = b.at => a = b
      /\ IsFiniteSet(due') /\ IsFiniteSet(kept)
      /\ Cardinality(bought) = Period
      /\ Cardinality(due') = Cardinality(kept) + Period
      /\ due' \subseteq [by : Orders, at : Nat]
  BY <1>1, PeriodType
<1> HIDE DEF bought
<1>3. \A tick \in kept : /\ tick.by \in Orders /\ WasPaid(tick.by)
                         /\ o \notin setBack => tick.by # o
  BY <1>1 DEF TypeOK, TermInv, DueIsPaid, WasPaid
<1>4. TakenBackIsRefunded' /\ Shortening' = Shortening
  BY RefundedKept DEF TakenBackIsRefunded, Shortening, Granting
<1>5. TurnsDiffer'
  <2>1. \A tick \in due' : tick.at \in Nat
    BY <1>2
  <2> QED
    BY <1>1, <1>2, <2>1 DEF TermInv, TurnsDiffer
<1>6. DueIsPaid'
  <2>1. \A tick \in kept : WasPaid(tick.by)' /\ order'[tick.by].plan = order[tick.by].plan
    BY <1>3, WasPaidKept
  <2>2. ASSUME plan' \in Plans, NEW tick \in kept PROVE order[tick.by].plan = plan'
    <3>1. plan = plan'
      BY <2>2 DEF kept, ActivePaidPlan, PaymentOrdersAssumption
    <3> QED
      BY <1>1, <2>2, <3>1 DEF TermInv, DueIsPaid
  <2> QED
    BY <1>2, <2>1, <2>2 DEF DueIsPaid, Granting, WasPaid
<1>7. OnePeriodEach'
  <2> SUFFICES ASSUME NEW x \in Orders \ setBack PROVE Cardinality(TicksOf(x)') <= Period
    BY SetBackMoves, StepMoves DEF OnePeriodEach, OrdersInv
  <2>1. CASE x = o
    <3>1. TicksOf(x)' = bought
      BY <1>2, <1>3, <2>1 DEF TicksOf
    <3> QED
      BY <1>2, <3>1 DEF PaymentOrdersAssumption
  <2>2. CASE x # o
    <3>1. TicksOf(x)' \in SUBSET TicksOf(x)
      BY <1>1, <1>2, <2>2 DEF TicksOf
    <3>2. IsFiniteSet(TicksOf(x)) /\ Cardinality(TicksOf(x)) \in Nat /\ Period \in Nat
      BY OwedType DEF OrdersInv
    <3>3. Cardinality(TicksOf(x)') \in Nat /\ Cardinality(TicksOf(x)') <= Cardinality(TicksOf(x))
      BY <3>1, <3>2, FS_Subset, FS_CardinalityType
    <3> QED
      BY <3>2, <3>3 DEF TermInv, OnePeriodEach
  <2> QED
    BY <2>1, <2>2
<1>8. Covered'
  <2> SUFFICES ASSUME plan' \in Plans
               PROVE  exp' - now' <= Cardinality(due') + Period * Cardinality(OwedBack')
    BY DEF Covered
  <2>1. now' = now /\ exp' = TermEnd(plan') /\ now \in Nat /\ exp \in Nat /\ Period \in Nat
    BY OwedType DEF Granting, Grant, OrdersInv
  <2>2. CASE ActivePaidPlan = plan'
    <3>1. plan = plan' /\ kept = due
      BY <2>2 DEF kept, ActivePaidPlan, PaymentOrdersAssumption
    <3>2. OwedBack' = OwedBack
      BY <1>4, <3>1, OwedKept DEF OwedBack, Shortening, Granting
    <3>3. exp' = exp + Period
      BY <2>1, <2>2 DEF TermEnd
    <3>4. Period * Cardinality(OwedBack) \in Nat /\ Cardinality(due) \in Nat
      BY OwedType, Periods DEF OrdersInv
    <3>5. exp - now <= Cardinality(due) + Period * Cardinality(OwedBack)
      BY <3>1 DEF TermInv, Covered
    <3> QED
      BY <1>2, <2>1, <3>1, <3>2, <3>3, <3>4, <3>5
  <2>3. CASE ActivePaidPlan # plan'
    <3>1. exp' = now + Period /\ kept = {}
      BY <2>1, <2>3 DEF TermEnd, kept
    <3>2. Cardinality(kept) = 0
      BY <3>1, FS_EmptySet
    <3>3. OwedBack' \in SUBSET Shortening
      BY <1>4 DEF OwedBack
    <3>4. Cardinality(OwedBack') \in Nat
      BY <3>3, FS_Subset, FS_CardinalityType DEF TermInv
    <3>5. Period * Cardinality(OwedBack') \in Nat
      BY <3>4, Periods
    <3> QED
      BY <1>2, <2>1, <3>1, <3>2, <3>5
  <2> QED
    BY <2>2, <2>3
<1> QED
  BY <1>4, <1>5, <1>6, <1>7, <1>8 DEF TermInv

LEMMA WithdrawingStep ==
    ASSUME PaymentOrdersAssumption, OrdersInv, TermInv, [Next]_vars,
           NEW o \in Orders, Withdrawing(o)
    PROVE  TermInv'
<1>1. /\ takeBack[o] = "no" /\ takeBack \in [Orders -> {"no", "shorten", "end"}]
      /\ takeBack' = [takeBack EXCEPT ![o] = "shorten"]
      /\ UNCHANGED <<now, plan, exp>>
  BY DEF Withdrawing, WithdrawTerm, TermInv, TakenBackIsRefunded, OrdersInv, TypeOK
<1>2. /\ due' \subseteq due /\ TicksOf(o) \subseteq due
      /\ o \notin setBack => due' = due \ TicksOf(o)
      /\ o \in setBack => due' = due
  BY DEF Withdrawing, WithdrawTerm, TicksOf
<1>3. (TurnsDiffer /\ DueIsPaid /\ OnePeriodEach)'
  BY <1>1, <1>2, FewerTicks
<1>4. WasPaid(o)' /\ order'[o].refund # "no" /\ order'[o].plan = order[o].plan
  BY WasPaidKept DEF Withdrawing, WasPaid
<1>5. TakenBackIsRefunded'
  <2>1. \A x \in Orders : x # o => takeBack'[x] = takeBack[x]
    BY <1>1
  <2> QED
    BY <1>4, <2>1, RefundedKept DEF TakenBackIsRefunded
<1>6. Shortening' = Shortening \cup {o}
  BY <1>1 DEF Shortening
<1>7. IsFiniteSet(Shortening')
  BY <1>6, FS_AddElement DEF TermInv
<1>8. Covered'
  <2> SUFFICES ASSUME plan \in Plans
               PROVE  exp - now <= Cardinality(due') + Period * Cardinality(OwedBack')
    BY <1>1 DEF Covered
  <2>1. exp - now <= Cardinality(due) + Period * Cardinality(OwedBack)
    BY DEF TermInv, Covered
  <2>2. /\ IsFiniteSet(due) /\ Cardinality(due) \in Nat /\ IsFiniteSet(OwedBack)
        /\ Cardinality(OwedBack) \in Nat /\ now \in Nat /\ exp \in Nat
        /\ IsFiniteSet(TicksOf(o)) /\ Cardinality(TicksOf(o)) \in Nat
        /\ o \notin setBack => Cardinality(TicksOf(o)) <= Period
    BY OwedType DEF OrdersInv, TermInv, OnePeriodEach
  <2>3. Cardinality(due') \in Nat /\ Cardinality(due) <= Cardinality(due') + Period
    <3>1. CASE o \in setBack
      BY <1>2, <2>2, <3>1, PaymentOrdersAssumption DEF PaymentOrdersAssumption
    <3>2. CASE o \notin setBack
      <4>1. due \cap TicksOf(o) = TicksOf(o) /\ due' = due \ TicksOf(o)
        BY <1>2, <3>2
      <4>2. IsFiniteSet(due') /\ Cardinality(due') = Cardinality(due) - Cardinality(TicksOf(o))
        BY <2>2, <4>1, FS_Difference
      <4>3. Cardinality(due') \in Nat
        BY <4>2, FS_CardinalityType
      <4> QED
        BY <2>2, <3>2, <4>2, <4>3, PaymentOrdersAssumption DEF PaymentOrdersAssumption
    <3> QED
      BY <3>1, <3>2
  <2>4. /\ Period \in Nat /\ Period * Cardinality(OwedBack) \in Nat
        /\ Period * (Cardinality(OwedBack) + 1) = Period * Cardinality(OwedBack) + Period
    BY <2>2, Periods
  <2>5. CASE order[o].plan = plan
    <3>1. OwedBack' = OwedBack \cup {o} /\ o \notin OwedBack
      BY <1>1, <1>4, <1>6, <2>5, OwedKept DEF OwedBack, Shortening
    <3>2. Cardinality(OwedBack') = Cardinality(OwedBack) + 1
      BY <2>2, <3>1, FS_AddElement
    <3> QED
      BY <2>1, <2>2, <2>3, <2>4, <3>2
  <2>6. CASE order[o].plan # plan
    <3>1. TicksOf(o) = {}
      BY <2>6 DEF TicksOf, TermInv, DueIsPaid
    <3>2. due' = due
      BY <1>2, <3>1
    <3>3. OwedBack' = OwedBack
      BY <1>1, <1>4, <1>6, <2>6, OwedKept DEF OwedBack, Shortening
    <3> QED
      BY <2>1, <3>2, <3>3
  <2> QED
    BY <2>5, <2>6
<1> QED
  BY <1>3, <1>5, <1>7, <1>8 DEF TermInv

LEMMA ShorteningStep ==
    ASSUME PaymentOrdersAssumption, OrdersInv, TermInv, [Next]_vars,
           NEW o \in Orders, ShortenTerm(o)
    PROVE  TermInv'
<1>1. /\ takeBack[o] = "shorten" /\ takeBack \in [Orders -> {"no", "shorten", "end"}]
      /\ takeBack'[o] \in {"no", "end"}
      /\ \A x \in Orders : x # o => takeBack'[x] = takeBack[x]
      /\ UNCHANGED <<now, plan, order, due>>
  BY DEF ShortenTerm, OrdersInv, TypeOK
<1>2. (TurnsDiffer /\ DueIsPaid /\ OnePeriodEach)'
  BY <1>1, FewerTicks
<1>3. TakenBackIsRefunded'
  BY <1>1, RefundedKept DEF TakenBackIsRefunded
<1>4. Shortening' = Shortening \ {o} /\ o \in Shortening
  BY <1>1 DEF Shortening
<1>5. IsFiniteSet(Shortening')
  BY <1>4, FS_RemoveElement DEF TermInv
<1>6. Covered'
  <2> SUFFICES ASSUME plan \in Plans
               PROVE  exp' - now <= Cardinality(due) + Period * Cardinality(OwedBack')
    BY <1>1 DEF Covered
  <2>1. exp - now <= Cardinality(due) + Period * Cardinality(OwedBack)
    BY DEF TermInv, Covered
  <2>2. /\ Cardinality(due) \in Nat /\ IsFiniteSet(OwedBack) /\ Cardinality(OwedBack) \in Nat
        /\ now \in Nat /\ exp \in Nat /\ Period \in Nat
    BY OwedType DEF OrdersInv
  <2>3. OwedBack' = OwedBack \ {o}
    BY <1>1, <1>4 DEF OwedBack
  <2>4. IsFiniteSet(OwedBack') /\ Cardinality(OwedBack') \in Nat
    BY <2>2, <2>3, FS_RemoveElement, FS_CardinalityType
  <2>5. Period * Cardinality(OwedBack') \in Nat
    BY <2>4, Periods
  <2>6. CASE ActivePaidPlan = order[o].plan
    <3>1. exp' = Later(exp - Period, now)
      BY <2>6 DEF ShortenTerm
    <3>2. CASE exp - Period >= now
      <4>1. exp' = exp - Period /\ exp > now
        BY <2>2, <3>1, <3>2 DEF Later, PaymentOrdersAssumption
      <4>2. o \in OwedBack
        BY <1>4, <2>6, <4>1 DEF OwedBack, ActivePaidPlan
      <4>3. Cardinality(OwedBack') = Cardinality(OwedBack) - 1
        BY <2>2, <2>3, <4>2, FS_RemoveElement
      <4>4. Cardinality(OwedBack) = Cardinality(OwedBack') + 1
        BY <2>2, <2>4, <4>3
      <4>5. Period * Cardinality(OwedBack) = Period * Cardinality(OwedBack') + Period
        BY <2>4, <4>4, Periods
      <4> QED
        BY <2>1, <2>2, <2>5, <4>1, <4>5
    <3>3. CASE ~(exp - Period >= now)
      BY <2>2, <2>5, <3>1, <3>3 DEF Later
    <3> QED
      BY <3>2, <3>3
  <2>7. CASE ActivePaidPlan # order[o].plan
    <3>1. exp' = exp
      BY <2>7 DEF ShortenTerm
    <3>2. CASE exp > now
      <4>1. OwedBack' = OwedBack
        BY <2>3, <2>7, <3>2 DEF OwedBack, ActivePaidPlan
      <4> QED
        BY <2>1, <3>1, <4>1
    <3>3. CASE ~(exp > now)
      BY <2>2, <2>5, <3>1, <3>3
    <3> QED
      BY <3>2, <3>3
  <2> QED
    BY <2>6, <2>7
<1> QED
  BY <1>2, <1>3, <1>5, <1>6 DEF TermInv

LEMMA InitTerm == Init => TermInv
<1> SUFFICES ASSUME Init PROVE TermInv
  OBVIOUS
<1>1. due = {} /\ plan \notin Plans /\ \A o \in Orders : takeBack[o] = "no"
  BY PaymentOrdersAssumption DEF Init
<1>2. Shortening = {} /\ \A o \in Orders : TicksOf(o) = {}
  BY <1>1 DEF Shortening, TicksOf
<1>3. IsFiniteSet({}) /\ Cardinality({}) = 0 /\ 0 <= Period
  BY FS_EmptySet, PaymentOrdersAssumption DEF PaymentOrdersAssumption
<1>4. IsFiniteSet(Shortening) /\ OnePeriodEach
  BY <1>2, <1>3 DEF OnePeriodEach
<1> QED
  BY <1>1, <1>4 DEF TermInv, TakenBackIsRefunded, TurnsDiffer, DueIsPaid, Covered

\* Whatever is bought, renewed, refunded, charged back and taken back, and however these
\* interleave with the clock: once no refund has its term to take back, the time the user
\* has left was bought by orders whose purchase stands or that were set back (takeBackTerm, ShortenTerm,
\* planWriteForDays, ProviderRefundOrder).
THEOREM NoFreeTime == Spec => []NoTimeForFree
<1>1. OrdersInv /\ TermInv /\ [Next]_vars => TermInv'
  <2> SUFFICES ASSUME OrdersInv, TermInv, [Next]_vars PROVE TermInv'
    OBVIOUS
  <2>1. TermMove
    BY StepMovesTerm, PaymentOrdersAssumption DEF OrdersInv
  <2> QED
    BY <2>1, TermKeptStep, EndingStep, TickStep, GrantingStep, WithdrawingStep, ShorteningStep,
       PaymentOrdersAssumption DEF TermMove
<1>2. OrdersInv /\ TermInv => NoTimeForFree
  <2> SUFFICES ASSUME OrdersInv, TermInv, plan \in Plans, \A o \in Orders : takeBack[o] = "no"
               PROVE  exp - now <= Cardinality(due)
    BY DEF NoTimeForFree
  <2>1. OwedBack = {}
    BY DEF OwedBack, Shortening
  <2>2. Cardinality(OwedBack) = 0 /\ Period * 0 = 0
    BY <2>1, FS_EmptySet, PaymentOrdersAssumption DEF PaymentOrdersAssumption
  <2>3. Cardinality(due) \in Nat /\ exp \in Nat /\ now \in Nat
    BY OwedType, PaymentOrdersAssumption DEF OrdersInv
  <2>4. exp - now <= Cardinality(due) + Period * Cardinality(OwedBack)
    BY DEF TermInv, Covered
  <2> QED
    BY <2>2, <2>3, <2>4
<1>3. Spec => []OrdersInv
  BY OrdersInvHolds
<1> QED
  BY <1>1, <1>2, <1>3, InitTerm, PTL DEF Spec

-----------------------------------------------------------------------------
(* Sums over the orders *)

\* g adds up the weights w of every set of orders, an order at a time.
One(s) == CHOOSE x \in s : TRUE
AddsUp(g, w) ==
    g = [s \in SUBSET Orders |-> IF s = {} THEN 0 ELSE w[One(s)] + g[s \ {One(s)}]]

\* Some function does.
LEMMA SumExists ==
    ASSUME IsFiniteSet(Orders), NEW w \in [Orders -> Int]
    PROVE  \E g \in [SUBSET Orders -> Int] : AddsUp(g, w)
<1> DEFINE Sizes(n) == {s \in SUBSET Orders : Cardinality(s) <= n}
           SumsTo(n) == \E g \in [SUBSET Orders -> Int] : \A s \in Sizes(n) :
               g[s] = IF s = {} THEN 0 ELSE w[One(s)] + g[s \ {One(s)}]
<1>1. \A s \in SUBSET Orders : IsFiniteSet(s) /\ Cardinality(s) \in Nat
  BY FS_Subset, FS_CardinalityType
<1>2. ASSUME NEW s \in SUBSET Orders, s # {}
      PROVE  One(s) \in s /\ s \ {One(s)} \in SUBSET Orders
             /\ Cardinality(s \ {One(s)}) = Cardinality(s) - 1
  <2>1. One(s) \in s
    BY <1>2 DEF One
  <2> QED
    BY <1>1, <2>1, FS_RemoveElement
<1>3. SumsTo(0)
  <2>1. ASSUME NEW s \in Sizes(0) PROVE s = {}
    BY <1>1, FS_EmptySet
  <2>2. [s \in SUBSET Orders |-> 0] \in [SUBSET Orders -> Int]
    OBVIOUS
  <2> QED
    BY <2>1, <2>2
<1>4. ASSUME NEW n \in Nat, SumsTo(n)
      PROVE  SumsTo(n + 1)
  <2>1. PICK g \in [SUBSET Orders -> Int] : \A s \in Sizes(n) :
            g[s] = IF s = {} THEN 0 ELSE w[One(s)] + g[s \ {One(s)}]
    BY <1>4
  <2> DEFINE h == [s \in SUBSET Orders |->
                      IF s = {} THEN 0 ELSE w[One(s)] + g[s \ {One(s)}]]
  <2>2. h \in [SUBSET Orders -> Int]
    <3>1. \A s \in SUBSET Orders : s # {} => w[One(s)] \in Int /\ g[s \ {One(s)}] \in Int
      BY <1>2
    <3> QED
      BY <3>1
  <2>3. ASSUME NEW s \in Sizes(n + 1), s # {}
        PROVE  h[s \ {One(s)}] = g[s \ {One(s)}]
    <3>1. s \ {One(s)} \in Sizes(n)
      BY <1>1, <1>2, <2>3
    <3> QED
      BY <2>1, <3>1
  <2>4. \A s \in Sizes(n + 1) : h[s] = IF s = {} THEN 0 ELSE w[One(s)] + h[s \ {One(s)}]
    BY <2>3
  <2> QED
    BY <2>2, <2>4
<1>5. SumsTo(Cardinality(Orders))
  <2> DEFINE Good == {T \in SUBSET Orders : SumsTo(Cardinality(T))}
  <2> HIDE DEF SumsTo
  <2>1. {} \in Good
    BY <1>3, FS_EmptySet
  <2>2. ASSUME NEW T \in SUBSET Orders, NEW x \in T, T \ {x} \in Good
        PROVE  T \in Good
    <3>1. Cardinality(T \ {x}) \in Nat /\ Cardinality(T) = Cardinality(T \ {x}) + 1
      BY <1>1, FS_RemoveElement
    <3> QED
      BY <1>4, <2>2, <3>1
  <2> HIDE DEF Good
  <2>3. Orders \in Good
    BY <2>1, <2>2, FiniteInduction
  <2> QED
    BY <2>3 DEF Good
<1>6. \A s \in SUBSET Orders : s \in Sizes(Cardinality(Orders))
  BY FS_Subset
<1>7. PICK g \in [SUBSET Orders -> Int] : \A s \in SUBSET Orders :
          g[s] = IF s = {} THEN 0 ELSE w[One(s)] + g[s \ {One(s)}]
  BY <1>5, <1>6
<1>8. AddsUp(g, w)
  BY <1>7 DEF AddsUp
<1> QED
  BY <1>8

\* A weight that changes changes the sum by as much.
LEMMA SumChanges ==
    ASSUME IsFiniteSet(Orders), NEW v \in [Orders -> Int], NEW w \in [Orders -> Int],
           NEW g, AddsUp(g, v), NEW h, AddsUp(h, w),
           NEW o \in Orders, \A x \in Orders \ {o} : w[x] = v[x]
    PROVE  g[Orders] \in Int /\ h[Orders] = g[Orders] + (w[o] - v[o])
<1> DEFINE Differs(s) == /\ g[s] \in Int /\ h[s] \in Int
                         /\ h[s] = g[s] + (IF o \in s THEN w[o] - v[o] ELSE 0)
           Sizes(n) == {s \in SUBSET Orders : Cardinality(s) <= n}
           AllDiffer(n) == \A s \in Sizes(n) : Differs(s)
<1>1. \A s \in SUBSET Orders : IsFiniteSet(s) /\ Cardinality(s) \in Nat
  BY FS_Subset, FS_CardinalityType
<1>2. Differs({})
  BY DEF AddsUp
<1>3. ASSUME NEW n \in Nat, AllDiffer(n), NEW s \in Sizes(n + 1), s # {}
      PROVE  Differs(s)
  <2> DEFINE x == One(s)
             rest == s \ {x}
  <2>1. x \in s
    BY <1>3 DEF One
  <2>2. rest \in SUBSET Orders /\ Cardinality(rest) = Cardinality(s) - 1
    BY <1>1, <2>1, FS_RemoveElement
  <2>3. Differs(rest)
    BY <1>1, <1>3, <2>2
  <2>4. g[s] = v[x] + g[rest] /\ h[s] = w[x] + h[rest]
    BY <1>3 DEF AddsUp
  <2>5. x \in Orders /\ v[x] \in Int /\ w[x] \in Int /\ v[o] \in Int /\ w[o] \in Int
    BY <2>1
  <2>6. CASE x = o
    <3>1. o \in s /\ o \notin rest
      BY <2>1, <2>6
    <3> HIDE DEF x, rest
    <3> QED
      BY <2>3, <2>4, <2>5, <2>6, <3>1
  <2>7. CASE x # o
    <3>1. w[x] = v[x] /\ (o \in s <=> o \in rest)
      BY <2>5, <2>7
    <3> HIDE DEF x, rest
    <3> QED
      BY <2>3, <2>4, <2>5, <3>1
  <2> QED
    BY <2>6, <2>7
<1> HIDE DEF Differs
<1>4. AllDiffer(0)
  <2>1. ASSUME NEW s \in Sizes(0) PROVE s = {}
    BY <1>1, FS_EmptySet
  <2> QED
    BY <1>2, <2>1
<1>5. \A n \in Nat : AllDiffer(n) => AllDiffer(n + 1)
  BY <1>2, <1>3
<1>6. AllDiffer(Cardinality(Orders))
  <2> DEFINE Good == {T \in SUBSET Orders : AllDiffer(Cardinality(T))}
  <2> HIDE DEF AllDiffer
  <2>1. {} \in Good
    BY <1>4, FS_EmptySet
  <2>2. ASSUME NEW T \in SUBSET Orders, NEW x \in T, T \ {x} \in Good
        PROVE  T \in Good
    <3>1. Cardinality(T \ {x}) \in Nat /\ Cardinality(T) = Cardinality(T \ {x}) + 1
      BY <1>1, FS_RemoveElement
    <3> QED
      BY <1>5, <2>2, <3>1
  <2> HIDE DEF Good
  <2>3. Orders \in Good
    BY <2>1, <2>2, FiniteInduction
  <2> QED
    BY <2>3 DEF Good
<1>7. Differs(Orders)
  BY <1>1, <1>6
<1> QED
  BY <1>7 DEF Differs

\* Weights of nothing add up to nothing.
LEMMA SumOfNothing ==
    ASSUME IsFiniteSet(Orders), NEW w \in [Orders -> {0}], NEW g, AddsUp(g, w)
    PROVE  g[Orders] = 0
<1> DEFINE Sizes(n) == {s \in SUBSET Orders : Cardinality(s) <= n}
           Nothing(n) == \A s \in Sizes(n) : g[s] = 0
<1>1. \A s \in SUBSET Orders : IsFiniteSet(s) /\ Cardinality(s) \in Nat
  BY FS_Subset, FS_CardinalityType
<1>2. g[{}] = 0
  BY DEF AddsUp
<1>3. ASSUME NEW n \in Nat, Nothing(n), NEW s \in Sizes(n + 1), s # {}
      PROVE  g[s] = 0
  <2> DEFINE rest == s \ {One(s)}
  <2>1. One(s) \in s
    BY <1>3 DEF One
  <2>2. rest \in SUBSET Orders /\ Cardinality(rest) = Cardinality(s) - 1
    BY <1>1, <2>1, FS_RemoveElement
  <2>3. g[rest] = 0
    BY <1>1, <1>3, <2>2
  <2>4. g[s] = w[One(s)] + g[rest]
    BY <1>3 DEF AddsUp
  <2> QED
    BY <2>1, <2>3, <2>4
<1>4. Nothing(0)
  <2>1. ASSUME NEW s \in Sizes(0) PROVE s = {}
    BY <1>1, FS_EmptySet
  <2> QED
    BY <1>2, <2>1
<1>5. \A n \in Nat : Nothing(n) => Nothing(n + 1)
  BY <1>2, <1>3
<1>6. Nothing(Cardinality(Orders))
  <2> DEFINE Good == {T \in SUBSET Orders : Nothing(Cardinality(T))}
  <2> HIDE DEF Nothing
  <2>1. {} \in Good
    BY <1>4, FS_EmptySet
  <2>2. ASSUME NEW T \in SUBSET Orders, NEW x \in T, T \ {x} \in Good
        PROVE  T \in Good
    <3>1. Cardinality(T \ {x}) \in Nat /\ Cardinality(T) = Cardinality(T \ {x}) + 1
      BY <1>1, FS_RemoveElement
    <3> QED
      BY <1>5, <2>2, <3>1
  <2> HIDE DEF Good
  <2>3. Orders \in Good
    BY <2>1, <2>2, FiniteInduction
  <2> QED
    BY <2>3 DEF Good
<1> QED
  BY <1>1, <1>6

\* The sum of what the orders are worth is such a sum.
LEMMA WorthAddsUp ==
    IsFiniteSet(Orders) /\ (\A o \in Orders : Worth(o) \in Int)
        => \E g : AddsUp(g, [o \in Orders |-> Worth(o)]) /\ g[Orders] = MapThenSumSet(Worth, Orders)
<1> SUFFICES ASSUME IsFiniteSet(Orders), \A o \in Orders : Worth(o) \in Int
             PROVE  \E g : AddsUp(g, [o \in Orders |-> Worth(o)])
                            /\ g[Orders] = MapThenSumSet(Worth, Orders)
  OBVIOUS
<1> DEFINE w == [o \in Orders |-> Worth(o)]
           Folds(f) == f = [s \in SUBSET Orders |->
               IF s = {} THEN 0
               ELSE Worth(CHOOSE x \in s : TRUE) + f[s \ {CHOOSE x \in s : TRUE}]]
           fold == CHOOSE f : Folds(f)
<1>1. PICK g \in [SUBSET Orders -> Int] : AddsUp(g, w)
  BY SumExists
<1>2. ASSUME NEW f PROVE Folds(f) <=> AddsUp(f, w)
  <2>1. \A s \in SUBSET Orders : s # {} => One(s) \in Orders
    BY DEF One
  <2>2. \A s \in SUBSET Orders : s # {} => Worth(One(s)) = w[One(s)]
    BY <2>1
  <2> QED
    BY <2>2 DEF AddsUp, One
<1>3. Folds(g)
  BY <1>1, <1>2
<1>4. Folds(fold)
  <2> HIDE DEF Folds
  <2> QED
    BY <1>3, Zenon
<1>5. MapThenSumSet(Worth, Orders) = fold[Orders]
  BY DEF MapThenSumSet, MapThenFoldSet
<1> HIDE DEF fold
<1> QED
  BY <1>2, <1>4, <1>5

\* An order that is left alone, or only given up, is worth what it was.
LEMMA LeftAloneWorth ==
    ASSUME NEW x \in Orders, LeftAlone(x), x \in setBack' <=> x \in setBack
    PROVE  Worth(x)' = Worth(x)
BY LeftAloneKeeps DEF Worth, StatusAside

\* What the orders account for of the balance.
FromOrders == balance - gifts - short - unbooked

\* A step changes what one order is worth at most, and moves the balance by as much.
LEMMA WorthMoves ==
    ASSUME PaymentOrdersAssumption, OrdersInv, [Next]_vars
    PROVE  \/ FromOrders' = FromOrders /\ \A x \in Orders : Worth(x)' = Worth(x)
           \/ \E o \in Orders :
                 /\ FromOrders' = FromOrders + (Worth(o)' - Worth(o))
                 /\ \A x \in Orders \ {o} : Worth(x)' = Worth(x)
<1>1. Move /\ InvoicesFit /\ UnpaidIsPlain
  BY StepMoves DEF OrdersInv
<1>2. /\ unbooked \in Int /\ unbooked' \in Int
      /\ balance \in Int /\ gifts \in Int /\ short \in Int
      /\ balance' \in Int /\ gifts' \in Int /\ short' \in Int
      /\ \A x \in Orders :
            /\ order[x].money \in Int /\ order[x].bal \in Int
            /\ order'[x].money \in Int /\ order'[x].bal \in Int
  BY OrdersInvStep DEF OrdersInv, TypeOK, Order
<1>3. ASSUME NEW o \in Orders, setBack \subseteq setBack', setBack' \subseteq setBack \cup {o},
             OthersLeft(o) \/ \A x \in Orders \ {o} : order'[x] = order[x]
      PROVE  \A x \in Orders \ {o} : Worth(x)' = Worth(x)
  BY <1>1, <1>3, LeftAloneWorth DEF OthersLeft, Worth, Is
<1>4. ASSUME Quiet
      PROVE  FromOrders' = FromOrders /\ \A x \in Orders : Worth(x)' = Worth(x)
  <2>1. \A x \in Orders : Worth(x)' = Worth(x)
    BY <1>1, <1>4, LeftAloneWorth DEF Quiet
  <2>2. FromOrders' = FromOrders
    <3>1. gifts' = gifts + (balance' - balance) /\ short' = short /\ unbooked' = unbooked
      BY <1>4 DEF Quiet
    <3>2. /\ balance \in Int /\ gifts \in Int /\ short \in Int /\ unbooked \in Int
          /\ balance' \in Int /\ gifts' \in Int /\ short' \in Int
      BY <1>2
    <3>3. \A b, g \in Int : g = gifts + (b - balance) =>
              b - g - short - unbooked = balance - gifts - short - unbooked
      BY <3>2
    <3> QED
      BY <3>1, <3>2, <3>3 DEF FromOrders
  <2> QED
    BY <2>1, <2>2
<1>5. ASSUME NEW o \in Orders, Opening(o)
      PROVE  FromOrders' = FromOrders + (Worth(o)' - Worth(o))
  BY <1>2, <1>5 DEF Opening, Worth, Is, FromOrders
<1>6. ASSUME NEW o \in Orders, Settling(o)
      PROVE  FromOrders' = FromOrders + (Worth(o)' - Worth(o))
  <2>1. Worth(o) = 0 /\ order'[o].status = "paid" /\ setBack' = setBack
    BY <1>6 DEF Settling, Confirmable, Worth, Is
  <2>2. CASE o \in setBack
    <3>1. Worth(o)' = 0
      BY <2>1, <2>2 DEF Worth
    <3>2. unbooked' = unbooked + (balance' - balance) /\ gifts' = gifts /\ short' = short
      BY <1>6, <2>2 DEF Settling, MovesUnbooked
    <3> QED
      BY <1>2, <2>1, <3>1, <3>2 DEF FromOrders
  <2>3. ASSUME o \notin setBack
        PROVE  order'[o].refund = "no" /\ unbooked' = unbooked
    BY <1>1, <1>2, <1>6, <2>3 DEF Settling, Confirmable, UnpaidIsPlain, MovesUnbooked, Is
  <2>4. CASE o \notin setBack /\ Delivered(o)
    <3>1. Worth(o)' = -order[o].bal
      BY <1>6, <2>1, <2>3, <2>4 DEF Settling, Delivered, Worth, Is
    <3> QED
      BY <1>2, <1>6, <2>1, <2>3, <2>4, <3>1 DEF Settling, Delivered, FromOrders
  <2>5. CASE o \notin setBack /\ Banked(o)
    <3>1. Worth(o)' = order[o].money
      BY <1>6, <2>1, <2>3, <2>5 DEF Settling, Banked, Worth, Is
    <3> QED
      BY <1>2, <1>6, <2>1, <2>3, <2>5, <3>1 DEF Settling, Banked, FromOrders
  <2> QED
    BY <1>6, <2>2, <2>4, <2>5 DEF Settling
<1>7. ASSUME NEW o \in Orders, Buying(o)
      PROVE  FromOrders' = FromOrders + (Worth(o)' - Worth(o))
  <2>1. o \notin setBack
    BY <1>1, <1>7 DEF Buying, InvoicesFit
  <2>2. Worth(o) = 0 /\ Worth(o)' = -order'[o].bal
    BY <1>7, <2>1 DEF Buying, Worth, Is
  <2> QED
    BY <1>2, <1>7, <2>2 DEF Buying, FromOrders
<1>8. ASSUME NEW o \in Orders, Refunding(o), ToBalance(o)
      PROVE  FromOrders' = FromOrders + (Worth(o)' - Worth(o))
  <2>1. CASE o \in setBack
    <3>1. Worth(o) = 0 /\ Worth(o)' = 0
      BY <1>8, <2>1 DEF Refunding, Worth
    <3>2. unbooked' = unbooked + (balance' - balance) /\ gifts' = gifts /\ short' = short
      BY <1>8, <2>1 DEF Refunding, ToBalance, MovesUnbooked
    <3>5. \A b, u \in Int : u = unbooked + (b - balance) =>
              b - gifts - short - u = balance - gifts - short - unbooked
      BY <1>2
    <3>3. FromOrders' = FromOrders
      BY <1>2, <3>2, <3>5 DEF FromOrders
    <3>4. FromOrders \in Int
      BY <1>2 DEF FromOrders
    <3> QED
      BY <3>1, <3>3, <3>4
  <2>2. CASE o \notin setBack
    <3>1. Worth(o) = -order[o].bal /\ Worth(o)' = order[o].money
      BY <1>8, <2>2 DEF Refunding, ToBalance, Worth, Is
    <3>2. unbooked' = unbooked
      BY <1>2, <1>8, <2>2 DEF ToBalance, MovesUnbooked
    <3> QED
      BY <1>2, <1>8, <3>1, <3>2 DEF Refunding, ToBalance, FromOrders
  <2> QED
    BY <2>1, <2>2
<1>9. ASSUME NEW o \in Orders, Refunding(o), ToPayer(o)
      PROVE  FromOrders' = FromOrders + (Worth(o)' - Worth(o))
  <2>1. Worth(o)' = 0 /\ o \notin setBack
    BY <1>1, <1>9 DEF Refunding, ToPayer, Worth, InvoicesFit
  <2>2. CASE order[o].kind = "topup" \/ order[o].refund = "balance"
    <3>1. Worth(o) = order[o].money
      BY <1>9, <2>1, <2>2 DEF Refunding, ToPayer, Worth, Is
    <3> QED
      BY <1>2, <1>9, <2>1, <2>2, <3>1 DEF Refunding, ToPayer, FromOrders
  <2>3. CASE ~(order[o].kind = "topup" \/ order[o].refund = "balance")
    <3>1. Worth(o) = -order[o].bal
      BY <1>9, <2>1, <2>3 DEF Refunding, ToPayer, Worth, Is
    <3> QED
      BY <1>2, <1>9, <2>1, <2>3, <3>1 DEF Refunding, ToPayer, FromOrders
  <2> QED
    BY <2>2, <2>3
<1>12. ASSUME NEW o \in Orders, Lapsing(o)
       PROVE  FromOrders' = FromOrders + (Worth(o)' - Worth(o))
  <2>1. Worth(o)' = 0 /\ Worth(o) \in Int
    BY <1>12, WorthType DEF Lapsing, Worth, OrdersInv
  <2> QED
    BY <1>2, <1>12, <2>1 DEF Lapsing, FromOrders
<1>10. ASSUME NEW o \in Orders,
              Opening(o) \/ Settling(o) \/ Lapsing(o) \/ Buying(o) \/ (Refunding(o) /\ (ToBalance(o) \/ ToPayer(o)))
       PROVE  /\ FromOrders' = FromOrders + (Worth(o)' - Worth(o))
              /\ \A x \in Orders \ {o} : Worth(x)' = Worth(x)
  <2>1. /\ setBack \subseteq setBack' /\ setBack' \subseteq setBack \cup {o}
        /\ OthersLeft(o) \/ \A x \in Orders \ {o} : order'[x] = order[x]
    BY <1>10 DEF Opening, Settling, Lapsing, Buying, Refunding
  <2> QED
    BY <1>3, <1>5, <1>6, <1>7, <1>8, <1>9, <1>10, <1>12, <2>1
<1>11. CASE ~Quiet
  BY <1>1, <1>10, <1>11 DEF Move
<1> QED
  BY <1>4, <1>11

\* However orders, confirmations, refunds, chargebacks and corrections of the balance
\* interleave, the balance is what the records of the orders and the corrections add up
\* to, but for the returned money it no longer had and what orders moved that were set
\* back: nothing is credited or charged twice (ConfirmOrder, RefundOrder, ProviderRefundOrder, BuyFromBalance, AdjustBalance).
THEOREM BalanceAddsUp ==
    ASSUME IsFiniteSet(Orders)
    PROVE  Spec => []BalanceIsOrders
<1> DEFINE w == [o \in Orders |-> Worth(o)]
           Sums == \E g : AddsUp(g, w) /\ g[Orders] = MapThenSumSet(Worth, Orders)
<1>1. TypeOK => Sums
  BY WorthType, WorthAddsUp
<1>2. TypeOK' => Sums'
  BY <1>1, PTL
<1>3. TypeOK' => (\A o \in Orders : Worth(o) \in Int)'
  BY WorthType, PTL
<1>4. ASSUME Init PROVE BalanceIsOrders
  <2>1. PICK g : AddsUp(g, w) /\ g[Orders] = MapThenSumSet(Worth, Orders)
    BY <1>1, <1>4, InitType
  <2>2. w \in [Orders -> {0}]
    BY <1>4 DEF Init, Worth, NoOrder, Is
  <2>3. MapThenSumSet(Worth, Orders) = 0
    BY <2>1, <2>2, SumOfNothing
  <2> QED
    BY <1>4, <2>3 DEF Init, BalanceIsOrders
<1>5. ASSUME OrdersInv, BalanceIsOrders, [Next]_vars
      PROVE  BalanceIsOrders'
  <2>1. TypeOK /\ TypeOK'
    BY <1>5, OrdersInvStep, PaymentOrdersAssumption DEF OrdersInv
  <2>2. PICK g : AddsUp(g, w) /\ g[Orders] = MapThenSumSet(Worth, Orders)
    BY <1>1, <2>1
  <2>3. PICK h : AddsUp(h, w)' /\ h[Orders] = MapThenSumSet(Worth, Orders)'
    BY <1>2, <2>1
  <2>4. w \in [Orders -> Int] /\ w' \in [Orders -> Int]
    <3>1. \A o \in Orders : Worth(o) \in Int
      BY <2>1, WorthType
    <3> QED
      BY <1>3, <2>1, <3>1
  <2>5. \A o \in Orders : w[o] = Worth(o) /\ w'[o] = Worth(o)'
    OBVIOUS
  <2>6. AddsUp(h, w')
    BY <2>3 DEF AddsUp
  <2>7. /\ balance \in Int /\ gifts \in Int /\ short \in Int /\ unbooked \in Int
        /\ balance' \in Int /\ gifts' \in Int /\ short' \in Int /\ unbooked' \in Int
    BY <2>1 DEF TypeOK
  <2>8. /\ balance = gifts + short + unbooked + g[Orders]
        /\ BalanceIsOrders' <=> balance' = gifts' + short' + unbooked' + h[Orders]
    BY <1>5, <2>2, <2>3 DEF BalanceIsOrders
  <2>9. ASSUME NEW o \in Orders, \A x \in Orders \ {o} : Worth(x)' = Worth(x)
        PROVE  g[Orders] \in Int /\ h[Orders] = g[Orders] + (Worth(o)' - Worth(o))
    <3>1. \A x \in Orders \ {o} : w'[x] = w[x]
      BY <2>5, <2>9
    <3> HIDE DEF w
    <3>2. g[Orders] \in Int /\ h[Orders] = g[Orders] + (w'[o] - w[o])
      BY <2>2, <2>4, <2>6, <3>1, SumChanges
    <3> QED
      BY <2>5, <3>2
  <2>10. ASSUME \A x \in Orders : Worth(x)' = Worth(x)
         PROVE  g[Orders] \in Int /\ h[Orders] = g[Orders]
    <3>1. CASE Orders = {}
      BY <2>2, <2>6, <3>1 DEF AddsUp
    <3>2. ASSUME NEW o \in Orders PROVE g[Orders] \in Int /\ h[Orders] = g[Orders]
      <4>1. g[Orders] \in Int /\ h[Orders] = g[Orders] + (Worth(o)' - Worth(o))
        BY <2>9, <2>10
      <4>2. Worth(o) \in Int /\ Worth(o)' = Worth(o)
        BY <2>1, <2>10, WorthType
      <4> QED
        BY <4>1, <4>2
    <3> QED
      BY <3>1, <3>2
  <2>11. CASE FromOrders' = FromOrders /\ \A x \in Orders : Worth(x)' = Worth(x)
    BY <2>7, <2>8, <2>10, <2>11 DEF FromOrders
  <2>12. ASSUME NEW o \in Orders, FromOrders' = FromOrders + (Worth(o)' - Worth(o)),
                \A x \in Orders \ {o} : Worth(x)' = Worth(x)
         PROVE  BalanceIsOrders'
    <3>1. g[Orders] \in Int /\ h[Orders] = g[Orders] + (Worth(o)' - Worth(o))
      BY <2>9, <2>12
    <3>2. Worth(o) \in Int /\ Worth(o)' \in Int
      BY <2>4, <2>5
    <3> QED
      BY <2>7, <2>8, <2>12, <3>1, <3>2 DEF FromOrders
  <2> QED
    BY <1>5, <2>11, <2>12, WorthMoves, PaymentOrdersAssumption
<1>6. Spec => []OrdersInv
  BY OrdersInvHolds
<1> QED
  BY <1>4, <1>5, <1>6, PTL DEF Spec

-----------------------------------------------------------------------------
(* The order book *)

TermsOf == [x \in Orders |-> [money |-> order[x].money, bal |-> order[x].bal]]
FateOf == [x \in Orders |-> Fate(x)]

LEMMA LeftAloneInBook ==
    ASSUME OrdersInv, NEW x \in Orders, LeftAlone(x), x \in setBack' <=> x \in setBack
    PROVE  TermsOf'[x] = TermsOf[x] /\ FateOf'[x] = FateOf[x]
<1>1. /\ Is(x, "paid")' <=> Is(x, "paid")
      /\ Is(x, "none")' <=> Is(x, "none")
      /\ StatusAside(order[x], order'[x])
  BY LeftAloneKeeps
<1>4. Fate(x)' = Fate(x)
  BY <1>1 DEF Fate, StatusAside
<1> QED
  BY <1>1, <1>4 DEF TermsOf, FateOf, StatusAside

\* A step of the book at o, with the other orders as they were.
LEMMA StepInBook ==
    ASSUME OrdersInv, NEW o \in Orders, OthersLeft(o),
           setBack \subseteq setBack', setBack' \subseteq setBack \cup {o}
    PROVE  /\ FateOf' = [FateOf EXCEPT ![o] = Fate(o)']
           /\ TermsOf' = [TermsOf EXCEPT ![o] = TermsOf'[o]]
           /\ order'[o].money = order[o].money /\ order'[o].bal = order[o].bal
                => TermsOf' = TermsOf
<1>1. \A x \in Orders \ {o} : TermsOf'[x] = TermsOf[x] /\ FateOf'[x] = FateOf[x]
  BY LeftAloneInBook DEF OthersLeft
<1>2. FateOf[o] = Fate(o) /\ FateOf'[o] = Fate(o)'
  BY DEF FateOf
<1>3. /\ TermsOf[o] = [money |-> order[o].money, bal |-> order[o].bal]
      /\ TermsOf'[o] = [money |-> order'[o].money, bal |-> order'[o].bal]
  BY DEF TermsOf
<1>4. FateOf' = [FateOf EXCEPT ![o] = Fate(o)']
  BY <1>1, <1>2 DEF FateOf
<1>5. TermsOf' = [TermsOf EXCEPT ![o] = TermsOf'[o]]
  BY <1>1 DEF TermsOf
<1>6. ASSUME order'[o].money = order[o].money, order'[o].bal = order[o].bal
      PROVE  TermsOf' = TermsOf
  BY <1>1, <1>3, <1>6 DEF TermsOf
<1> QED
  BY <1>4, <1>5, <1>6

LEMMA BookInit == Init => Book!Init
<1>1. ASSUME Init, NEW o \in Orders
      PROVE  Fate(o) = "new" /\ order[o].money = 0 /\ order[o].bal = 0
  BY <1>1 DEF Init, NoOrder, Fate, Is
<1>2. ASSUME Init
      PROVE  TermsOf = [x \in Orders |-> Book!NoTerms] /\ FateOf = [x \in Orders |-> "new"]
  BY <1>1, <1>2 DEF TermsOf, FateOf, Book!NoTerms
<1> QED
  BY <1>2 DEF Book!Init, Init, TermsOf, FateOf

LEMMA BookStep ==
    ASSUME PaymentOrdersAssumption, OrdersInv, [Next]_vars
    PROVE  Book!Next
<1>1. Move /\ OrdersInv' /\ TypeOK /\ TypeOK'
  BY StepMoves, OrdersInvStep DEF OrdersInv
<1>2. ASSUME NEW x \in Orders
      PROVE  /\ order[x].money \in Nat /\ order[x].bal \in Nat
             /\ order'[x].money \in Nat /\ order'[x].bal \in Nat
             /\ order[x].kind \in {"plan", "topup"} /\ order[x].status \in Statuses
             /\ order[x].refund \in {"no", "balance", "provider"}
             /\ FateOf[x] = Fate(x) /\ FateOf'[x] = Fate(x)'
             /\ TermsOf[x].money = order[x].money /\ TermsOf[x].bal = order[x].bal
             /\ TermsOf'[x].money = order'[x].money /\ TermsOf'[x].bal = order'[x].bal
             /\ TermsOf'[x] \in [money : Nat, bal : Nat]
  BY <1>1 DEF TypeOK, Order, FateOf, TermsOf
<1>3. balance \in Nat /\ balance' \in Nat
  BY <1>1 DEF TypeOK
<1>4. ASSUME NEW o \in Orders, \A x \in Orders \ {o} : order'[x] = order[x]
      PROVE  OthersLeft(o)
  BY <1>4 DEF OthersLeft, LeftAlone, StatusAside
<1>12. InvoicesFit /\ UnpaidIsPlain
  BY DEF OrdersInv
<1>5. CASE Quiet
  <2>1. \A x \in Orders : TermsOf'[x] = TermsOf[x] /\ FateOf'[x] = FateOf[x]
    BY <1>5, LeftAloneInBook DEF Quiet
  <2>2. TermsOf' = TermsOf /\ FateOf' = FateOf
    BY <2>1 DEF TermsOf, FateOf
  <2>3. Book!Adjust
    BY <1>3, <1>5, <2>2 DEF Quiet, Book!Adjust, TermsOf, FateOf
  <2> QED
    BY <2>3 DEF Book!Next
<1>6. ASSUME NEW o \in Orders, OthersLeft(o), NEW from, NEW to,
             setBack \subseteq setBack', setBack' \subseteq setBack \cup {o},
             Fate(o) \in from, Fate(o)' = to
      PROVE  Book!Step(o, from, to)
  BY <1>2, <1>6, StepInBook DEF Book!Step, FateOf
<1>7. ASSUME NEW o \in Orders, Opening(o)
      PROVE  Book!Open(o)
  <2>1. Fate(o) = "new" /\ Fate(o)' = "open"
    BY <1>7, <1>12 DEF Opening, Fate, InvoicesFit, Is
  <2>2. Book!Step(o, {"new"}, "open")
    BY <1>6, <1>7, <2>1 DEF Opening
  <2>3. TermsOf'[o] \in Book!Terms
    BY <1>2 DEF Book!Terms
  <2>4. TermsOf' = [TermsOf EXCEPT ![o] = TermsOf'[o]]
    BY <1>7, StepInBook DEF Opening
  <2> QED
    BY <1>7, <2>2, <2>3, <2>4 DEF Book!Open, Opening, TermsOf
<1>8. ASSUME NEW o \in Orders, Settling(o)
      PROVE  Book!Buy(o) \/ Book!Bank(o) \/ Book!Again(o)
  <2>1. OthersLeft(o) /\ setBack' = setBack
    BY <1>4, <1>8 DEF Settling
  <2>2. TermsOf' = TermsOf
    BY <1>8, <2>1, StepInBook DEF Settling
  <2>3. ASSUME o \notin setBack
        PROVE  Fate(o) = "open" /\ order[o].refund = "no"
    BY <1>8, <1>12, <2>3 DEF Settling, Fate, Confirmable, Is, UnpaidIsPlain
  <2>4. CASE o \notin setBack /\ Delivered(o)
    <3>1. Fate(o)' = "bought"
      BY <1>8, <2>1, <2>3, <2>4 DEF Settling, Delivered, Fate, Is
    <3>2. Book!Step(o, {"open"}, "bought")
      BY <1>6, <2>1, <2>3, <2>4, <3>1
    <3> QED
      BY <1>2, <1>8, <2>2, <2>4, <3>2 DEF Book!Buy, Delivered, Settling, TermsOf
  <2>5. CASE o \notin setBack /\ Banked(o)
    <3>1. Fate(o)' = "banked"
      BY <1>8, <2>1, <2>3, <2>5 DEF Settling, Banked, Fate, Is
    <3>2. Book!Step(o, {"open"}, "banked")
      BY <1>6, <2>1, <2>3, <2>5, <3>1
    <3> QED
      BY <1>2, <1>8, <2>2, <2>5, <3>2 DEF Book!Bank, Banked, Settling, TermsOf
  <2>6. CASE o \in setBack
    <3>1. Fate(o) = "lapsed"
      BY <1>8, <2>6 DEF Settling, Fate, Confirmable, Is
    <3>2. PICK to \in {"again", "regained"} : Fate(o)' = to
      BY <1>8, <2>1, <2>6 DEF Settling, Fate, Is
    <3>3. Book!Step(o, {"lapsed"}, to)
      BY <1>6, <2>1, <3>1, <3>2
    <3>4. \/ TermsOf[o].bal <= balance /\ balance' = balance - TermsOf[o].bal
          \/ balance' = balance + TermsOf[o].money
      BY <1>2, <1>8 DEF Settling, Delivered, Banked
    <3> QED
      BY <1>8, <2>2, <3>3, <3>4 DEF Book!Again, Settling, TermsOf
  <2> QED
    BY <1>8, <2>4, <2>5, <2>6 DEF Settling
<1>13. ASSUME NEW o \in Orders, Lapsing(o)
       PROVE  Book!Lapse(o)
  <2>1. /\ OthersLeft(o) /\ setBack \subseteq setBack' /\ setBack' \subseteq setBack \cup {o}
        /\ TermsOf' = TermsOf
    BY <1>4, <1>13, StepInBook DEF Lapsing, StatusAside
  <2>2. Fate(o) \in {"bought", "banked", "refunded"}
    BY <1>2, <1>12, <1>13 DEF Lapsing, Fate, InvoicesFit, Is
  <2>3. Fate(o)' = "lapsed"
    BY <1>13 DEF Lapsing, Fate, Is
  <2>4. Book!Step(o, {"bought", "banked", "refunded"}, "lapsed")
    BY <1>6, <2>1, <2>2, <2>3
  <2> QED
    BY <1>13, <2>1, <2>4 DEF Book!Lapse, Lapsing, TermsOf
<1>9. ASSUME NEW o \in Orders, Buying(o)
      PROVE  Book!BuyAtOnce(o)
  <2>1. Fate(o) = "new" /\ Fate(o)' = "bought"
    BY <1>9, <1>12 DEF Buying, Fate, InvoicesFit, Is
  <2>2. Book!Step(o, {"new"}, "bought")
    BY <1>6, <1>9, <2>1 DEF Buying
  <2>3. TermsOf'[o] \in Book!Terms
    BY <1>2 DEF Book!Terms
  <2>4. TermsOf' = [TermsOf EXCEPT ![o] = TermsOf'[o]]
    BY <1>9, StepInBook DEF Buying
  <2>5. TermsOf'[o].money = 0 /\ TermsOf'[o].bal = order'[o].bal
    BY <1>2, <1>9 DEF Buying
  <2> QED
    BY <1>9, <2>2, <2>3, <2>4, <2>5 DEF Book!BuyAtOnce, Buying, TermsOf
<1>10. ASSUME NEW o \in Orders, Refunding(o), ToBalance(o)
       PROVE  Book!Refund(o) \/ Book!Regain(o)
  <2>1. OthersLeft(o) /\ TermsOf' = TermsOf /\ setBack' = setBack
    BY <1>4, <1>10, StepInBook DEF Refunding
  <2>2. balance' = balance + TermsOf[o].money + TermsOf[o].bal
    BY <1>2, <1>10 DEF ToBalance
  <2>3. CASE o \notin setBack
    <3>1. Fate(o) = "bought" /\ Fate(o)' = "refunded"
      BY <1>10, <2>1, <2>3 DEF Refunding, ToBalance, Fate, Is
    <3>2. Book!Step(o, {"bought"}, "refunded")
      BY <1>6, <2>1, <3>1
    <3> QED
      BY <1>10, <2>1, <2>2, <3>2 DEF Book!Refund, ToBalance, Refunding, TermsOf
  <2>4. CASE o \in setBack
    <3>1. Fate(o) = "again" /\ Fate(o)' = "regained"
      BY <1>10, <2>1, <2>4 DEF Refunding, ToBalance, Fate, Is
    <3>2. Book!Step(o, {"again"}, "regained")
      BY <1>6, <2>1, <3>1
    <3> QED
      BY <1>10, <2>1, <2>2, <3>2 DEF Book!Regain, ToBalance, Refunding, TermsOf
  <2> QED
    BY <2>3, <2>4
<1>11. ASSUME NEW o \in Orders, Refunding(o), ToPayer(o)
       PROVE  Book!Return(o)
  <2>1. OthersLeft(o) /\ TermsOf' = TermsOf /\ setBack' = setBack /\ o \notin setBack
    BY <1>4, <1>11, <1>12, StepInBook DEF Refunding, ToPayer, InvoicesFit
  <2>2. Fate(o)' = "returned"
    BY <1>11, <2>1 DEF Refunding, ToPayer, Fate, Is
  <2>3. CASE order[o].kind = "topup" \/ order[o].refund = "balance"
    <3>1. Fate(o) \in {"banked", "refunded"}
      BY <1>2, <1>11, <2>1, <2>3 DEF Refunding, ToPayer, Fate, Is
    <3>2. Book!Step(o, {"banked", "refunded"}, "returned")
      BY <1>6, <2>1, <2>2, <3>1
    <3>3. PICK taken \in 0..order[o].money :
             /\ taken <= balance /\ (taken = order[o].money \/ taken = balance)
             /\ balance' = balance - taken
             /\ short' = short + (order[o].money - taken)
      BY <1>11, <2>3 DEF ToPayer
    <3>4. TermsOf[o].money = order[o].money
      BY <1>2
    <3> QED
      BY <1>11, <2>1, <3>2, <3>3, <3>4 DEF Book!Return, Refunding, TermsOf
  <2>4. CASE ~(order[o].kind = "topup" \/ order[o].refund = "balance")
    <3>1. Fate(o) = "bought"
      BY <1>2, <1>11, <2>1, <2>4 DEF Refunding, ToPayer, Fate, Is
    <3>2. Book!Step(o, {"bought"}, "returned")
      BY <1>6, <2>1, <2>2, <3>1
    <3> QED
      BY <1>2, <1>11, <2>1, <2>4, <3>2 DEF Book!Return, ToPayer, Refunding, TermsOf
  <2> QED
    BY <2>3, <2>4
<1> QED
  BY <1>1, <1>5, <1>7, <1>8, <1>9, <1>10, <1>11, <1>13 DEF Move, Book!Next

\* However the confirmations, refunds, chargebacks and corrections of a user interleave,
\* each order settles once - twice if it was set back - and moves the balance by exactly
\* what the book says of it.
THEOREM OrdersImplementBook == Spec => ImplementsOrderBook
<1>1. OrdersInv /\ [Next]_vars => [Book!Next]_(Book!vars)
  BY BookStep, PaymentOrdersAssumption
<1>2. Spec => []OrdersInv
  BY OrdersInvHolds
<1> QED
  BY <1>1, <1>2, BookInit, PTL DEF Spec, ImplementsOrderBook, Book!Spec

=============================================================================
