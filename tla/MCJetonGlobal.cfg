SPECIFICATION Spec
CONSTANTS
    u1 = u1
    l1 = l1
    ebay = ebay
    shopify = shopify
    vinted = vinted
    User = {u1}
    Listing = {l1}
    StripeEvent = {}
    Request = {r1}
    OwnerOf <- MCOwnerOf
    PayerOf <- MCPayerOf
    AmountOf <- MCAmountOf
    Tier <- MCTier
    Price <- MCPrice
    FreeMonthly = 1
    FirstRechargeBonus = 1
    FirstRechargeThreshold = 2
    PrixHaut = 10
    Prix = {12, 13}
    Legacy = {l1}
    MaxMonth = 0
    Market = {ebay}
    Connected = {ebay}
    Api <- MCApi
    MaxAnnonces = 2
    Publisher = {p1}
    SaleHook = {h1}
    MaxCrashes = 0
    MaxDeliveries = 1
    NoRow = NoRow
    NoCall = NoCall
    NoPrix = NoPrix
    NoJob = NoJob
    NoPub = NoPub
    NoSale = NoSale
SYMMETRY MCSymmetry
INVARIANT NoRefundWhileOnline
CHECK_DEADLOCK FALSE
