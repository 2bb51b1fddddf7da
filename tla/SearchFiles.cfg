\* A disk with a folder that may not be listed, one that may fail or break off
\* in its listing, and paths that disappear.
CONSTANTS
    Dir <- MCDir
    File <- MCFile
    Contents <- MCContents
    Identity <- MCIdentity
    Reparse <- MCReparse
    A1 <- MCA1
    Roots <- MCRoots
    Rank <- MCRank
    Absent = Absent
    Recursive = TRUE
    Validate = FALSE
    Denied <- SysOnly
    Flaky <- FlakyPaths
    Failing <- AppsOnly
SPECIFICATION FairSpec
INVARIANTS TypeOK StopsPromptly Deterministic
PROPERTIES ImplementsTreeSearch Ends
