\* Refund notifications that overtake the payment they refund.
SPECIFICATION Spec
CONSTANTS
    Orders = {o1, o2}
    Plans = {basic}
    Free = Free
    Price = 2
    Discount = 1
    Period = 1
    TopUps = {}
    RenewAhead = 0
    RenewGrace = 1
    WalletEnabled = TRUE
    FirstOnly = TRUE
    Gifts = {0}
    MaxNow = 2
INVARIANTS
    ReturnedIsSettled
