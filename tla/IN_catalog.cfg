SPECIFICATION Spec
CHECK_DEADLOCK FALSE
CONSTANTS
    Engines = {"postgres", "mysql"}
    Catalogs <- MCCatalogs
    Current = "public"
    Requested = {"t", "T", "u"}
    Fold <- MCFold
    Expressions <- MCExpressions
    MaxChanges = 2
INVARIANTS StableFactsAreRead QuietSchemaIsExact
