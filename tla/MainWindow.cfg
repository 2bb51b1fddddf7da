\* Two operations in a row, with a list box that notifies its parent, so that
\* the reveal button comes into play, and a queue that a search can fill.
CONSTANTS
    MaxOperations = 2
    MaxUnits = 2
    MaxRows = 2
    QueueLimit = 2
    ListNotifies = TRUE
SPECIFICATION FairSpec
INVARIANTS TypeOK JoinsAreShort OneOperation CopyMatchesList PauseLabelTruthful
           RevealsShownCandidate
PROPERTIES OperationsEnd ClosesUnlessParked
