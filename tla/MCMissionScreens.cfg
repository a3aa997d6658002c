SPECIFICATION Spec
CONSTANTS
    Buyer = {b1}
    Amount = {2, 3}
    Mandate <- MCMandate
    Slot = {c1, c2}
    Null = Null
    Page = 4
    MaxMessages = 2
    MaxTaps = 2
SYMMETRY MCSymmetry
INVARIANTS RecapTellsTheSale
PROPERTIES ShownNeverGoesBack SoldIsWhatWasShown
CHECK_DEADLOCK FALSE
