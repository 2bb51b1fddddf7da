\* One searching thread and two that steer it; three drives that come and go;
\* two readers and three polls of a service that moves; nine folders below the
\* roots of a legacy scan and a limit of seven.
CONSTANTS
    w1 = w1
    c1 = c1
    c2 = c2
    NoThread = NoThread
    Waiters <- OneWaiter
    Callers <- TwoCallers
    Letters <- MCLetters
    Kind <- MCKind
    CurrentProfile <- MCCurrent
    Beside <- MCBeside
    Profile <- MCProfile
    r1 = r1
    r2 = r2
    Reader <- TwoReaders
    MaxAttempts = 3
    Folder <- MCFolder
    File <- MCFile
    Contents <- MCContents
    Junction <- MCJunction
    Container <- MCContainer
    Length <- MCLength
    Depth <- MCDepth
    Offers <- MCOffers
    Rank <- MCRank
    MaxPath = 10
    MaxDirectories = 7
SPECIFICATION RoutinesSpec
INVARIANTS PlanTypeOK PhaseOrder ProfilesPlanned DrivesPlanned AnswerTruthful SnapshotTruthful LegacyTypeOK SoundResult CompleteResult NoFolderTwice
PROPERTIES CancelLasts ImplementsGate RepeatedCancelReleases StartsOnlyWithConsent CallsReturn ScanEnds
