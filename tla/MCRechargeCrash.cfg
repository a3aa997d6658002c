SPECIFICATION Spec
CONSTANTS
    u1 = u1
    l1 = l1
    User = {u1}
    Listing = {l1}
    StripeEvent = {e1}
    Request = {r1, r2}
    OwnerOf <- MCOwnerOf
    PayerOf <- MCPayerOf
    AmountOf <- MCAmountOf
    Tier <- MCTier
    Price <- MCPrice
    FreeMonthly = 0
    FirstRechargeBonus = 1
    FirstRechargeThreshold = 2
    PrixHaut = 10
    Prix = {13}
    Legacy = {}
    MaxMonth = 0
    MaxCrashes = 1
    MaxDeliveries = 2
    NoRow = NoRow
    NoCall = NoCall
    NoHook = NoHook
    NoPrix = NoPrix
SYMMETRY MCSymmetry
INVARIANT AckedRechargeResubmitsBlocked
CHECK_DEADLOCK FALSE
