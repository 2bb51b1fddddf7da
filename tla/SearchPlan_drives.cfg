\* The same computer: is every fixed drive that stays searched?
CONSTANTS
    Letters <- MCLetters
    Kind <- MCKind
    CurrentProfile <- MCCurrent
    Beside <- MCBeside
    Profile <- MCProfile
SPECIFICATION PlanSpec
INVARIANTS FixedDrivesPlanned
