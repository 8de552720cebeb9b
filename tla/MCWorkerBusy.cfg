CONSTANTS
    None = None
    Goals <- GoalsOfEF
    Kind <- Classes
    Needs <- Awaits
    Rank <- InRank
    Obtain <- NoObtain
    Realisation <- RealisationTable
    Output <- OutputTable
    Resolution <- ResolutionTable
    Resolved <- ResolvedTable
    Building <- BuildingTable
    Depth <- Levels
    Requests = {{"tE"}}
    Settings <- OneJob
    UseHook = TRUE
    PreferLocal = {"bF"}
    NrSubstituters = 1
    MaxSubstitutionJobs = 1
SPECIFICATION Spec
CHECK_DEADLOCK FALSE
INVARIANT DoneWithExitCode
