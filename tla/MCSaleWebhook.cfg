SPECIFICATION Spec
CONSTANTS
    u1 = u1
    l1 = l1
    ebay = ebay
    shopify = shopify
    vinted = vinted
    User = {u1}
    Listing = {l1}
    StripeEvent = {}
    Request = {r1}
    OwnerOf <- MCOwnerOf
    PayerOf <- MCPayerOf
    AmountOf <- MCAmountOf
    Tier <- MCTier
    Price <- MCPrice
    FreeMonthly = 1
    FirstRechargeBonus = 1
    FirstRechargeThreshold = 2
    PrixHaut = 10
    Prix = {13}
    Legacy = {l1}
    MaxMonth = 0
    Market = {ebay, shopify}
    Connected = {ebay, shopify}
    Api <- MCApi
    MaxAnnonces = 2
    Publisher = {p1, p2}
    SaleHook = {h1, h2}
    MaxCrashes = 1
    MaxDeliveries = 1
    NoRow = NoRow
    NoCall = NoCall
    NoPrix = NoPrix
    NoJob = NoJob
    NoPub = NoPub
    NoSale = NoSale
SYMMETRY MCSymmetry
INVARIANTS PublishedIsBacked RowsTellTheTruth RowsNameCompleteAnnonces
PROPERTIES SoldIsFinal
CHECK_DEADLOCK FALSE
