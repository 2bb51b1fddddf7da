\* The folder the user may not list is not counted.
CONSTANTS
    Dir <- MCDir
    File <- MCFile
    Contents <- MCContents
    Identity <- MCIdentity
    Reparse <- MCReparse
    A1 <- MCA1
    Roots <- MCRoots
    Rank <- MCRank
    Absent = Absent
    Recursive = TRUE
    Validate = FALSE
    Denied <- SysOnly
    Flaky <- NoPaths
    Failing <- NoPaths
SPECIFICATION Spec
PROPERTY DeniedIsCounted
