\* Closing the window may hang.
CONSTANTS
    MaxOperations = 1
    MaxUnits = 1
    MaxRows = 1
    QueueLimit = 4
    ListNotifies = FALSE
SPECIFICATION FairSpec
PROPERTY CloseEnds
