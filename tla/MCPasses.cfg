\* Both passes over small days, with the time budget ending in any of the
\* chosen stages.
SPECIFICATION PassSpec
CONSTANTS
    MaxSolverInteger = 100000
    Days <- MCDays
    Settings <- MCSettings
    TimeoutStages <- MCTimeouts
INVARIANTS
    ResultsAreTruthful
    ProvenValuesAreBest
    PublishedLeadsAreNeeded
    WorseOnlyOutOfTime
    FieldsAgree
    PassFiguresAgree
    OnlyMixedRolesRaise
PROPERTY
    CheckpointsNeverWorsen
