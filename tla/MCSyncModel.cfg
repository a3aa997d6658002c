SPECIFICATION Spec
CONSTANTS
    Channel = {c0, c1}
    Uncorrelated = uncorrelated
    EventKey = {k0, k1, k2}
    Initial = {"QUEUED", "SUBMITTED", "PUBLISHED", "RETRACTING", "FAILED"}
    NoSale = NoSale
    MaxAttempts = 1
    MaxEpoch = 1
SYMMETRY MCSymmetry
INVARIANTS SaleIsTheSoldLine EffectsAreComplete EventsCommute
PROPERTIES TerminalsAbsorb SoldOnce
