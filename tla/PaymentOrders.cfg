\* Two orders of a user with a wallet, two plans, three ticks.
SPECIFICATION Spec
CONSTANTS
    Orders = {o1, o2}
    Plans = {basic, family}
    Free = Free
    Price = 2
    Discount = 1
    Period = 1
    TopUps = {2}
    RenewAhead = 0
    RenewGrace = 1
    WalletEnabled = TRUE
    FirstOnly = TRUE
    Gifts = {0, 1}
    MaxNow = 3
SYMMETRY Symmetry
INVARIANTS
    BalanceIsOrders
    DiscountOnce
    RewardOnce
    NoTimeForFree
PROPERTIES
    ImplementsOrderBook
