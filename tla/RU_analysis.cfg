SPECIFICATION Spec
CHECK_DEADLOCK FALSE
CONSTANTS
    Tables <- MCTables
    Refs <- MCRefs
    Cols <- MCCols
    DateLike <- MCDateLike
    Leading <- MCLeading
    Rows <- MCRows
    LowDistinct <- MCLowDistinct
    Sides <- MCSides
    Wildcards = {"%v"}
    Nodes <- MCNodes
    Forms <- MCForms
    Plans <- MCPlans
    MaxNodes = 2
    DayLength = 2
    LastInstant = 5
    Null = Null
    Moment <- MCMoment
INVARIANTS
    SuggestionsAreReal SuggestedOnce EveryColumnAnswered FunctionsReported
    RewriteSelectsSameRows
