SPECIFICATION FairSpec
CONSTANTS
    jacket1 = jacket1
    jacket2 = jacket2
    lamp = lamp
    Photo = {lamp}
    Job = {j1, j2}
    Shows <- MCShows
    MaxPhotos = 2
    AiPhotoCap = 1
    MaxCrashes = 2
    NoJobRow = NoJobRow
    NoPhoto = NoPhoto
    NoCard = NoCard
PROPERTIES RunningCardsSettle
CHECK_DEADLOCK FALSE
