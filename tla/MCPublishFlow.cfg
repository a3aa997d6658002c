SPECIFICATION Spec
CONSTANTS
    Thing = {lamp, jacket}
    Listing = {l1, l2}
    Flow = {f1}
    MaxKills = 1
    MaxLate = 1
    NoThing = NoThing
    NoListing = NoListing
    NoPending = NoPending
    NoForm = NoForm
    NoFlow = NoFlow
    NoCancel = NoCancel
SYMMETRY Symmetry
INVARIANTS CheckpointIsReached OneThingOneListing
PROPERTIES ClearedOnlyWhenOver
CHECK_DEADLOCK FALSE
