\* Three entries, pages of two, one client and one settle call at a time.
CONSTANTS
    Id = {1, 2, 3}
    Item <- Items
    Query <- Queries
    Indexer = {x1}
    Client = {c1}
    NoId = NoId
    NoItem = NoItem
    Limit = 2
SPECIFICATION FairSpec
INVARIANTS
    TypeOK
    SteadyIsFound
    PagesCover
    HiddenOnlyByRace
PROPERTIES
    StaleGone
