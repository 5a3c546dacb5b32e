SPECIFICATION Spec
CONSTANTS
    None = None
    Bad = Bad
    Dotted = {"..hw"}
    Branch = "master"
    Url = {"one", "two"}
    Fork = "fork"
    Rev = {"r1", "r2"}
    First = "r1"
    Moves <- MCMoves
    Files <- MCFiles
    Export <- MCExport
    HandMade <- MCHandMade
    GitIgnored <- MCGitIgnored
    Description <- MCDescription
    Argument <- MCArgument
    MaxFaults = 1
    MaxRuns = 3
INVARIANTS
    TypeOK
    NothingOutside
    FinishedIsLocked
PROPERTIES
    CommittedPatchesAreWhole
    CommitIsReproducible
    MessageCoversTheChange
    NoSilentUpgrade
CHECK_DEADLOCK FALSE
