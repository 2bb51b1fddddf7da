\* Each of the functions with every input it can be given within the bounds:
\* four words, three observations, three certificates and a clock of four
\* instants.  Every call returns, so the system may stop.
CONSTANTS
    p1 = p1
    p2 = p2
    c1 = c1
    c2 = c2
    c3 = c3
    MaxTokens = 4
    MaxObservations = 3
    ExpiringWindow = 1
    LastInstant = 3
    Modulus = 16
    MaxAlterations = 3
SPECIFICATION Spec
CHECK_DEADLOCK FALSE
INVARIANTS BlockedOnlyOnFacts ExactlyTheSensitive ReadsBack ReadingsTruthful AttentionFirst NothingLeftOpen AsksOnlyWhatIsAllowed
PROPERTIES NewFactsNeverExcuse RepairMovesForward FirstObservationsDecide
