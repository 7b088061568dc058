\* Every day and configuration of the instance, every solution of its model.
SPECIFICATION Spec
CONSTANTS
    MaxSolverInteger = 1100
    Days <- MCDays
    Settings <- MCSettings
INVARIANTS
    ValidDaysHaveSchedules
    SchedulesAreLegal
    ScansAgree
    FiguresAgree
