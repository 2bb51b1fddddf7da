\* The value of "senha: 1234", against the audit document.
CONSTANTS
    p1 = p1
    p2 = p2
    c1 = c1
    c2 = c2
    c3 = c3
    MaxTokens = 4
    MaxObservations = 3
    ExpiringWindow = 1
    LastInstant = 3
    Modulus = 16
    MaxAlterations = 3
SPECIFICATION Spec
CHECK_DEADLOCK FALSE
INVARIANTS SubsequentValuesRedacted
