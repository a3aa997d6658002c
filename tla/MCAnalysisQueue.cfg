SPECIFICATION Spec
CONSTANTS
    jacket1 = jacket1
    jacket2 = jacket2
    lamp = lamp
    Photo = {jacket1, jacket2, lamp}
    Job = {j1, j2}
    Shows <- MCShows
    MaxPhotos = 2
    AiPhotoCap = 1
    MaxCrashes = 1
    NoJobRow = NoJobRow
    NoPhoto = NoPhoto
    NoCard = NoCard
SYMMETRY MCSymmetry
INVARIANTS AnnoncesKeepToTheirPhotos EveryRunningCardIsFollowed
PROPERTIES ReadyStaysReady
CHECK_DEADLOCK FALSE
