\* Without a wallet a paid order always buys its plan; fair notifications, nothing is
\* corrected by hand and no top-ups.
SPECIFICATION FairSpec
CONSTANTS
    Orders = {o1, o2}
    Plans = {basic, family}
    Free = Free
    Price = 2
    Discount = 1
    Period = 1
    TopUps = {}
    RenewAhead = 0
    RenewGrace = 1
    WalletEnabled = FALSE
    FirstOnly = FALSE
    Gifts = {0}
    MaxNow = 3
PROPERTIES
    CapturedIsDelivered
