SPECIFICATION Spec
CHECK_DEADLOCK FALSE
CONSTANTS
    Dialects = {"postgres", "mysql"}
    TableNames <- MCTables
    WithNames <- MCWith
    Columns <- MCColumns
    Fold <- MCFold
    Originals <- MCOriginals
    Edits <- MCEdits
    MaxEdits = 4
INVARIANTS GateKeepsTables RestructuringPasses CollectedExist
