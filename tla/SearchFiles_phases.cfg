\* Is the profile searched to its end before the drive is opened?  On a disk
\* where nothing fails.
CONSTANTS
    Dir <- MCDir
    File <- MCFile
    Contents <- MCContents
    Identity <- MCIdentity
    Reparse <- MCReparse
    A1 <- MCA1
    Roots <- MCRoots
    Rank <- MCRank
    Absent = Absent
    Recursive = TRUE
    Validate = FALSE
    Denied <- NoPaths
    Flaky <- NoPaths
    Failing <- NoPaths
SPECIFICATION Spec
INVARIANTS PhasesInTurn
