CONSTANTS
    None = None
    Goals <- GoalsOfD
    Kind <- Classes
    Needs <- Awaits
    Rank <- InRank
    Obtain <- ObtainTable
    Realisation <- RealisationTable
    Output <- OutputTable
    Resolution <- ResolutionTable
    Resolved <- ResolvedTable
    Building <- BuildingTable
    Depth <- Levels
    Requests = {{"tD"}, {"tF"}}
    Settings <- AnyJobs
    UseHook = TRUE
    PreferLocal = {"bF"}
    NrSubstituters = 1
    MaxSubstitutionJobs = 1
SPECIFICATION FairSpec
CHECK_DEADLOCK FALSE
PROPERTY RunReturns
