SPECIFICATION FairListingSpec
CONSTANTS
    Object <- Objects
    PartFile <- Parts
    Query <- Queries
    MaxWrites = 6
INVARIANTS NothingLost ListedOnce
PROPERTIES ListingEnds
CHECK_DEADLOCK FALSE
