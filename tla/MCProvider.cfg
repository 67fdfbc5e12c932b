SPECIFICATION FairSpec
CONSTANTS
    None = None
    BasePart = 2
    MaxPart = 5
    MaxParts = 2
    MaxSinglePut = 2
    MaxBlob = 8
    Blobs = {3, 4, 5, 7, 8}
    Rows <- AnyRows
    ETags = {"v", "w"}
    PageSize = 1
    MaxUploads = 1
    MaxTries = 2
INVARIANTS
    PlansAgree
    OutcomesAreProven
    ListingsAreTrue
PROPERTIES
    ObjectsAreFinal
    ListingsEnd
