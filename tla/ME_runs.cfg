SPECIFICATION Spec
CHECK_DEADLOCK FALSE
CONSTANTS
    Engines = {"postgres", "mysql", "experiment"}
    Asked = {0, 1, 4}
    DefaultRuns = 3
    WarmupRuns = 1
    Durations = {0, 1, 5, 100}
INVARIANTS MedianIsMiddle OneRunCannotMoveTheMedian CompleteOrNothing
