SPECIFICATION Spec
CONSTANTS
    Buyer = {b1, b2}
    Amount = {1, 2, 3}
    Mandate <- MCMandate
    Request = {r1, r2}
    Null = Null
    MaxMessages = 2
    MaxHour = 1
    MaxCrashes = 1
SYMMETRY MCSymmetry
INVARIANTS HammerIsTheSellers SlateIsCoherent BuyersAreCounted OneAlertPerHour
PROPERTIES WhatIsOverStaysOver
CHECK_DEADLOCK FALSE
