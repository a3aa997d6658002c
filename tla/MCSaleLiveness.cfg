SPECIFICATION FairSpec
CONSTANTS
    u1 = u1
    l1 = l1
    ebay = ebay
    shopify = shopify
    vinted = vinted
    User = {u1}
    Listing = {l1}
    StripeEvent = {}
    Request = {}
    OwnerOf <- MCOwnerOf
    PayerOf <- MCPayerOf
    AmountOf <- MCAmountOf
    Tier <- MCTier
    Price <- MCPrice
    FreeMonthly = 1
    FirstRechargeBonus = 1
    FirstRechargeThreshold = 2
    PrixHaut = 10
    Prix = {13}
    Legacy = {l1}
    MaxMonth = 0
    Market = {ebay, vinted}
    Connected = {ebay}
    Api <- MCApi
    MaxAnnonces = 3
    Publisher = {p1}
    SaleHook = {h1}
    MaxCrashes = 1
    MaxDeliveries = 2
    NoRow = NoRow
    NoCall = NoCall
    NoPrix = NoPrix
    NoJob = NoJob
    NoPub = NoPub
    NoSale = NoSale
PROPERTIES SistersAreDealtWith PublicationSettles
CHECK_DEADLOCK FALSE
