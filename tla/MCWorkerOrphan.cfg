CONSTANTS
    None = None
    Goals <- GoalsOfT
    Kind <- Classes
    Needs <- Awaits
    Rank <- InRank
    Obtain <- NoObtain
    Realisation <- RealisationTable
    Output <- OutputTable
    Resolution <- ResolutionTable
    Resolved <- ResolvedTable
    Building <- BuildingTable
    Depth <- Levels
    Requests = {{"s0", "tT"}}
    Settings <- OneJob
    UseHook = TRUE
    PreferLocal = {}
    NrSubstituters = 1
    MaxSubstitutionJobs = 1
SPECIFICATION Spec
CHECK_DEADLOCK FALSE
INVARIANT ChildrenHaveGoals
