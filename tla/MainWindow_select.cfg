\* The list box as created: no notification.
CONSTANTS
    MaxOperations = 1
    MaxUnits = 1
    MaxRows = 1
    QueueLimit = 4
    ListNotifies = FALSE
SPECIFICATION Spec
INVARIANT SelectionEnablesReveal
