CONSTANTS
    None = None
    Goals <- GoalsOfEFT
    Kind <- Classes
    Needs <- Awaits
    Rank <- InRank
    Obtain <- NoObtain
    Realisation <- RealisationTable
    Output <- OutputTable
    Resolution <- ResolutionTable
    Resolved <- ResolvedTable
    Building <- BuildingTable
    Depth <- Levels
    Requests = {{"tE", "tF"}, {"s0", "tT"}}
    Settings <- OneJob
    UseHook = TRUE
    PreferLocal = {"bF"}
    NrSubstituters = 1
    MaxSubstitutionJobs = 1
SPECIFICATION Spec
CHECK_DEADLOCK FALSE
INVARIANTS
    SlotsRespected
    NobodyForgotten
    OtherAssertionsHold
