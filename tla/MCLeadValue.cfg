\* The same days, looking for a proven emergency pass with a lead it cannot
\* justify.
SPECIFICATION PassSpec
CONSTANTS
    MaxSolverInteger = 100000
    Days <- MCDays
    Settings <- MCSettings
    TimeoutStages <- MCTimeouts
INVARIANT
    LeadsHaveMeasurableValue
