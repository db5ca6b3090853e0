SPECIFICATION EvalSpec
CONSTANTS
    Services <- MCServices
    PageSize = 2
    MaxPages = 3
    BaseYear = 5
    TargetYear = 8
    CountyCount <- MCCountyCount
    Quota = 2
    BaseItems = {b1}
    TargetItems = {}
    Scores = {0, 1}
    Scale = 6
    Top <- MCTop
    PerSheet = 2
INVARIANTS
    SetIsDrawnFromAll
    RankingFigures
    WeightsCarryCounty
    AuditKeepsOutcome
    IndexNamesChips
    FetchedIsWhole
CHECK_DEADLOCK FALSE
