SPECIFICATION Spec
CHECK_DEADLOCK FALSE
CONSTANTS
    Texts <- MCTexts
    Queries <- MCQueries
    Norm <- MCNorm
    Kind <- MCKind
    SameShape <- MCSameShape
    HasOrderBy <- MCHasOrderBy
    Dialect <- MCDialect
    Outputs <- MCOutputs
    Null <- NoValue
    Absent <- Sentinel
    Writers <- MCWriters
    Repeats <- MCRepeats
    NoFinding = NoFinding
    RuleRewrites <- MCRuleRewrites
    NoText <- NoTextProposed
    Indexes <- MCIndexes
    Measurements <- MCMeasurements
    Proposals <- MCProposals
    Suggested <- MCSuggested
    TestIndexes = TRUE
    MaxIndexTests = 2
    MinImprovementPct = 50
    MaxWrites = 1
    DeadlineMayPass = TRUE
INVARIANTS
    TypeOK AcceptedMatchesOriginal EquivalentNotRefused NothingJudgedTwice EveryRewriteJudged
    OnlyReadsExecuted AcceptedBeatsEveryRun BestIsFastest IndexNeverSurvives
    ExperimentsAccounted NothingIsWritten ScoreAddsUp
