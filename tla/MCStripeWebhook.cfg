SPECIFICATION Spec
CONSTANTS
    u1 = u1
    l1 = l1
    User = {u1}
    Listing = {l1, l2}
    StripeEvent = {e1}
    Request = {r1, r2}
    OwnerOf <- MCOwnerOf
    PayerOf <- MCPayerOf
    AmountOf <- MCAmountOf
    Tier <- MCTier
    Price <- MCPrice
    FreeMonthly = 1
    FirstRechargeBonus = 1
    FirstRechargeThreshold = 2
    PrixHaut = 10
    Prix = {13}
    Legacy = {l1}
    MaxMonth = 1
    MaxCrashes = 1
    MaxDeliveries = 2
    NoRow = NoRow
    NoCall = NoCall
    NoHook = NoHook
    NoPrix = NoPrix
SYMMETRY MCSymmetry
INVARIANTS BalanceMatchesLedger MoneyFollowsStatus DebitIsWhatWasAuthorized
PROPERTIES FreeCreditsGrowOnlyWhenDue ContractImplemented
CHECK_DEADLOCK FALSE
