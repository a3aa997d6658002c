SPECIFICATION Spec
CONSTANTS
    u1 = u1
    l1 = l1
    ebay = ebay
    shopify = shopify
    vinted = vinted
    User = {u1}
    Listing = {l1, l2}
    StripeEvent = {}
    Request = {}
    OwnerOf <- MCOwnerOf
    PayerOf <- MCPayerOf
    AmountOf <- MCAmountOf
    Tier <- MCTier
    Price <- MCPrice
    FreeMonthly = 1
    FirstRechargeBonus = 1
    FirstRechargeThreshold = 2
    PrixHaut = 10
    Prix = {13}
    Legacy = {l1, l2}
    MaxMonth = 0
    Market = {shopify}
    Connected = {shopify}
    Api <- MCApi
    MaxAnnonces = 2
    Publisher = {p1}
    SaleHook = {h1}
    MaxCrashes = 0
    MaxDeliveries = 1
    NoRow = NoRow
    NoCall = NoCall
    NoPrix = NoPrix
    NoJob = NoJob
    NoPub = NoPub
    NoSale = NoSale
PROPERTIES EverySaleIsRecorded
CHECK_DEADLOCK FALSE
